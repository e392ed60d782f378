---------------------------- MODULE MCMemoryPort ----------------------------
(* MemoryPort on an instance: the short line fill and the line write.      *)
EXTENDS MemoryPort

MCLineWrites == {4}
MCShortFills == {2}

-----------------------------------------------------------------------------
(* A clock that never stops.  `edge` tells one clock from the next, so     *)
(* that a design in which nothing moves any more is a behaviour like any   *)
(* other, and not one that fairness rules out.                             *)
VARIABLE edge

ClockInit == Init /\ edge = FALSE
Clocked == Next /\ edge' = ~edge
ClocksGoOn == []<>edge /\ []<>~edge

LiveSpec == ClockInit /\ [][Clocked]_<<vars, edge>> /\ ClocksGoOn /\ Fairness

=============================================================================
