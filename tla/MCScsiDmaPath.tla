--------------------------- MODULE MCScsiDmaPath ---------------------------
(* ScsiDmaPath on small chains of descriptors.                             *)
EXTENDS ScsiDmaPath

D(bp, n, eox, xie, next) ==
    [bp |-> bp, count |-> n, eox |-> eox, xie |-> xie, next |-> next]

\* A receive chain as the PROM builds it; one that starts in the middle of
\* a word behind a link; a loop of links.
MCReceive == <<D(1, 3, FALSE, TRUE, 2), D(0, 0, TRUE, TRUE, 2)>>
MCLinked == <<D(0, 0, FALSE, FALSE, 2), D(3, 2, TRUE, TRUE, 2)>>
MCLoop == <<D(0, 1, FALSE, FALSE, 2), D(0, 0, FALSE, FALSE, 2)>>
\* Two buffers, apart and in one word.
MCApart == <<D(1, 2, FALSE, TRUE, 2), D(4, 1, TRUE, FALSE, 2)>>
MCTogether == <<D(2, 1, FALSE, FALSE, 2), D(3, 2, TRUE, TRUE, 2)>>

MCChains == {MCReceive, MCLinked, MCLoop, MCApart, MCTogether}

ASSUME ChainsInOrder == InOrder

-----------------------------------------------------------------------------
(* A clock that never stops.  `edge` tells one clock from the next, so     *)
(* that a design in which nothing moves any more is a behaviour like any   *)
(* other, and not one that fairness rules out.                             *)
VARIABLE edge

ClockInit == Init /\ edge = FALSE
Clocked == Next /\ edge' = ~edge
ClocksGoOn == []<>edge /\ []<>~edge

LiveSpec == ClockInit /\ [][Clocked]_<<vars, edge>> /\ ClocksGoOn /\ Fairness

=============================================================================
