---------------------------- MODULE MCScsiBusLive ----------------------------
(* ScsiBus with a clock that never stops.  `edge` tells one clock from the  *)
(* next, so that a design in which nothing moves any more is a behaviour    *)
(* like any other, and not one that fairness rules out.                     *)
EXTENDS MCScsiBus

VARIABLE edge

ClockInit == Init /\ edge = FALSE
Clocked == Next /\ edge' = ~edge
ClocksGoOn == []<>edge /\ []<>~edge

LiveSpec == ClockInit /\ [][Clocked]_<<vars, edge>> /\ ClocksGoOn /\ Fairness

=============================================================================
