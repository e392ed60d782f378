-------------------------------- MODULE Int2 --------------------------------
(***************************************************************************)
(* The interrupt half of rtl/sgi/sgi_ioc.sv: the latches of the counters'  *)
(* edges, the two masks of the mappable sources and the two of the levels  *)
(* they fold into.  A register of bits is the set of its bits; bits 0 and  *)
(* 1 of MAP_STAT are the counters, bit 7 of L0_STAT and bit 3 of L1_STAT   *)
(* the folds.  map_source is the levels that reach MAP_STAT; no device     *)
(* asks at L0 or L1.                                                       *)
(***************************************************************************)
EXTENDS Naturals

VARIABLES
    tmr_stat,
    pit_out_d,  \* the outputs a clock ago
    mask        \* L0_MASK, L1_MASK, MAP_MASK0, MAP_MASK1

intVars == <<tmr_stat, pit_out_d, mask>>

Masks == {"L0_MASK", "L1_MASK", "MAP_MASK0", "MAP_MASK1"}

Init == tmr_stat = {} /\ pit_out_d = {} /\ mask = [r \in Masks |-> {}]

MapStat(map_source) == tmr_stat \union (map_source \intersect (4..7))
L0Stat(map_source) == IF MapStat(map_source) \intersect mask["MAP_MASK0"] # {} THEN {7} ELSE {}
L1Stat(map_source) == IF MapStat(map_source) \intersect mask["MAP_MASK1"] # {} THEN {3} ELSE {}

\* Cause.IP, by number.
IrqLines(map_source) ==
    {4 + i : i \in tmr_stat}
    \union (IF L0Stat(map_source) \intersect mask["L0_MASK"] # {} THEN {2} ELSE {})
    \union (IF L1Stat(map_source) \intersect mask["L1_MASK"] # {} THEN {3} ELSE {})

PitEdge(out) == (out \ pit_out_d) \intersect {0, 1}

\* Mutant: the clear comes last.
LatchesClearLast(clr, edge) == (tmr_stat \union edge) \ clr

\* A write of TMR_CLR drops latches, unless a counter expires in this clock:
\* the assignment of the edges stands after the clear's and replaces it.
Latches(clr, edge) == IF edge # {} THEN tmr_stat \union edge ELSE tmr_stat \ clr

Clock(acc, out) ==
    /\ pit_out_d' = out
    /\ tmr_stat' = Latches(IF acc.op = "wr" /\ acc.reg = "TMR_CLR" THEN acc.value ELSE {},
                           PitEdge(out))
    /\ mask' = IF acc.op = "wr" /\ acc.reg \in Masks
               THEN [mask EXCEPT ![acc.reg] = acc.value] ELSE mask
=============================================================================
