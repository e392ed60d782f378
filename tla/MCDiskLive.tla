----------------------------- MODULE MCDiskLive -----------------------------
(* DiskPath with a clock that never stops.  `rested` tells a clock that    *)
(* changes nothing from the one before, so that a design in which nothing  *)
(* moves any more is a behaviour like any other, and not one that fairness *)
(* rules out.                                                              *)
EXTENDS MCDiskPath

VARIABLE rested

ClockInit == Init /\ rested = FALSE
Clocked == Next /\ rested' = (vars' = vars /\ ~rested)
ClocksGoOn == []<><<TRUE>>_<<vars, rested>>

LiveSpec == ClockInit /\ [][Clocked]_<<vars, rested>> /\ ClocksGoOn /\ Fairness

=============================================================================
