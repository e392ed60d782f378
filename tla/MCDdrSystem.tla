---------------------------- MODULE MCDdrSystem -----------------------------
(* DdrSystem under a few loads.                                            *)
EXTENDS DdrSystem

L(masters, readers, reads, writes, blocks) ==
    [masters |-> masters, readers |-> readers, reads |-> reads, writes |-> writes,
     blocks |-> blocks]

\* Main memory against both of the display's readers; everybody but the
\* display; the rasteriser, asking again or for something else, against a
\* reader; the download against the beacon.
MCLoads ==
    {L({"RAM"}, {0, 1}, {1, 4}, {4}, {0}),
     L({"RAM", "PROM", "FBW"}, {}, {4}, {1}, {0}),
     L({"FBW"}, {0}, {}, {}, {0, 1}),
     L({"DL", "BCN"}, {}, {}, {}, {0, 1})}

-----------------------------------------------------------------------------
(* A clock that never stops.  `edge` tells one clock from the next, so     *)
(* that a design in which nothing moves any more is a behaviour like any   *)
(* other, and not one that fairness rules out.                             *)
VARIABLES
    edge,
    took    \* the bridge took a command in the last clock

ClockInit == Init /\ edge = FALSE /\ took = FALSE
Clocked ==
    \E ddram_busy \in BOOLEAN :
        ClockWith(ddram_busy) /\ took' = Mux!Take(ddram_busy) /\ edge' = ~edge
ClocksGoOn == []<>edge /\ []<>~edge

\* The bridge takes the command in front of it in the end, and answers what
\* it owes.
Fairness == ([]<>took \/ []<>~cmd.v) /\ ([]<>(dout # NoWord) \/ []<>(owed = <<>>))

LiveSpec == ClockInit /\ [][Clocked]_<<vars, edge, took>> /\ ClocksGoOn /\ Fairness

=============================================================================
