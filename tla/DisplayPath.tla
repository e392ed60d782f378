---------------------------- MODULE DisplayPath ----------------------------
(***************************************************************************)
(* The auxiliary planes from the rasteriser to the pixel: memory, the line *)
(* cache, a display that asks for a word in every clock of a line's        *)
(* visible part and waits for nothing, a rasteriser that writes into a     *)
(* line and marks it, and the bridge of verilator/tb_linecache.cpp, slow   *)
(* within bounds.                                                          *)
(***************************************************************************)
EXTENDS Integers, FiniteSets

CONSTANTS
    LINES, LINE_WORDS, VIS_WORDS, BURST,
    H_TOTAL, V_TOTAL, V_SYNC_AT, \* VC2's timing table, in words and lines
    Pictures,   \* the visible words of the frame, at first
    Watches,    \* lines the rasteriser may write, one of them in a behaviour
    WRITES,     \* writes in a behaviour
    DELAY       \* clocks a burst is delayed at most

ASSUME DisplayAssumption ==
    /\ H_TOTAL \in Nat /\ V_TOTAL \in Nat
    /\ LINES \in Nat \ {0} /\ V_SYNC_AT \in (LINES + 1)..(V_TOTAL - 1)
    /\ LINE_WORDS \in Nat /\ VIS_WORDS \in 1..LINE_WORDS /\ VIS_WORDS < H_TOTAL /\ BURST \in 1..LINE_WORDS
    /\ Pictures \subseteq SUBSET [line : 0..(LINES - 1), off : 0..(VIS_WORDS - 1)]
    /\ Watches \subseteq 0..(LINES - 1) /\ WRITES \in Nat /\ DELAY \in Nat

VARIABLES
    tag, val, zero, buf, fill_idx, fill_line, fill_pos, burst_left, fst, nz_acc,
    marked_during, disp_line, vs_d, restart, flag, px_out,
    x, y,
    memory,      \* the visible words, as [line, off]
    watch,
    acked, mark, \* the rasteriser: the write acknowledged, the line marked
    left,        \* writes to come
    waited,      \* clocks the burst has been delayed
    snap,        \* memory as the burst found it when it was issued
    cold,        \* no vertical sync since reset
    seen         \* what the words of the watched line have held this frame

Cache == INSTANCE LineCache

vars == <<Cache!cacheVars, x, y, memory, watch, acked, mark, left, waited, snap,
          cold, seen>>

NoWrite == [line |-> LINES, off |-> 0, visible |-> FALSE]

\* A word of memory: past the visible part of a line nothing is ever cleared.
Holds(m, line, off) ==
    [line |-> line, off |-> off,
     visible |-> off >= VIS_WORDS \/ [line |-> line, off |-> off] \in m]
Watched(m) == {Holds(m, watch, w) : w \in 0..(VIS_WORDS - 1)}

\* The frame buffer drawn and its lines marked, the display set going.
Init ==
    /\ Cache!Init
    /\ x = 0 /\ y \in {0, LINES}
    /\ memory \in Pictures /\ watch \in Watches /\ flag = {r.line : r \in memory}
    /\ acked = NoWrite /\ mark = {} /\ left = WRITES
    /\ waited = 0 /\ snap = {} /\ cold = TRUE /\ seen = Watched(memory)

-----------------------------------------------------------------------------

\* VC2's counters; the address goes with them, the request is up in the
\* visible part.
Vc2 ==
    /\ x' = (x + 1) % H_TOTAL
    /\ y' = IF x = H_TOTAL - 1 THEN (y + 1) % V_TOTAL ELSE y
    /\ cold' = (cold /\ y # V_SYNC_AT)
Px == IF y < LINES /\ x < VIS_WORDS THEN {[line |-> y, off |-> x]} ELSE {}

\* A write of the rasteriser, taken by the memory; acknowledged in the next
\* clock, marked in the one after.
Write(w) ==
    /\ memory' = IF w.visible THEN memory \union {[line |-> w.line, off |-> w.off]}
                 ELSE memory \ {[line |-> w.line, off |-> w.off]}
    /\ left' = left - 1
Rasterises ==
    /\ \/ acked' = NoWrite /\ UNCHANGED <<memory, left>>
       \/ /\ left > 0 /\ acked = NoWrite
          /\ \E w \in [line : {watch}, off : 0..(VIS_WORDS - 1), visible : BOOLEAN] :
                acked' = w /\ Write(w)
    /\ mark' = IF acked.visible THEN {acked.line} ELSE {}

\* The bridge: the burst is issued, and its words come in order, each as it
\* was when the burst was issued or as it is.
Answers(goes) ==
    IF goes /\ fst = "F_DATA"
    THEN {Holds(m, fill_line, fill_pos) : m \in {snap, memory}}
    ELSE {}
Waits(goes) ==
    /\ ~goes => fst = "F_IDLE" \/ waited < DELAY
    /\ waited' = IF fst = "F_IDLE" \/ (fst = "F_DATA" /\ goes /\ burst_left <= 1) THEN 0
                 ELSE IF goes THEN waited ELSE waited + 1
    /\ snap' = IF fst = "F_IDLE" THEN {} ELSE IF fst = "F_REQ" /\ goes THEN memory ELSE snap

Clock ==
    \E goes \in IF fst = "F_IDLE" THEN {FALSE} ELSE BOOLEAN :
    \E dout \in IF Answers(goes) = {} THEN {{}} ELSE {{w} : w \in Answers(goes)} :
        /\ Waits(goes)
        /\ Cache!Clock([px |-> Px, vs |-> y = V_SYNC_AT, mark |-> mark,
                        taken |-> fst = "F_REQ" /\ goes, dout |-> dout])
        /\ Vc2 /\ Rasterises
        /\ seen' = Watched(memory') \union (IF x = 0 /\ y = LINES THEN {} ELSE seen)
        /\ UNCHANGED watch

Spec == Init /\ [][Clock]_vars
LiveSpec == Spec /\ WF_vars(Clock)

-----------------------------------------------------------------------------
(* How fast the bridge is.                                                 *)

\* The clocks in which k words come at the latest, each burst delayed by DELAY.
BurstsOf(k) == (k + BURST - 1) \div BURST
TimeOf(k) == BurstsOf(k) * (1 + DELAY) + k
LineTime == TimeOf(LINE_WORDS)

\* A line is fetched between vertical sync and the first line.
FetchesInBlank == LineTime + 2 <= (V_TOTAL - V_SYNC_AT) * H_TOTAL

\* A line is fetched in the time of a line, and two are in the blanking.
KeepsUp ==
    LineTime + 1 <= H_TOTAL /\ 2 * LineTime + 3 <= (V_TOTAL - V_SYNC_AT) * H_TOTAL

-----------------------------------------------------------------------------
(* Properties.                                                             *)

\* A line that holds something the display can see has its flag up, or its mark
\* is on its way: the fetch that drops a flag never overlooks a write that went
\* behind it (fb_linecache.sv:217-224, 432).
FlagCovers ==
    \A l \in {r.line : r \in memory} :
        l \in flag \/ l \in mark \/ (acked.visible /\ acked.line = l)

\* A pixel that is not a miss is the word asked for, as memory has held it since
\* the last frame was shown: never another line's, never one the fill is in the
\* middle of (fb_linecache.sv:282-296, 314-324).
PixelIsMemory ==
    px_out.ack /\ ~px_out.miss =>
        /\ px_out.word.line = px_out.read.line /\ px_out.word.off = px_out.read.off
        /\ px_out.word \in IF px_out.read.line = watch THEN seen
                           ELSE {Holds(memory, px_out.read.line, px_out.read.off)}

\* With a bridge that fetches a line in the time of a line, no pixel misses
\* after the first vertical sync (tb_linecache.cpp:259).
NoMissAfterFirst == px_out.miss => cold

\* What is drawn into a line and stays is shown, in every frame from some one on;
\* a line that is cleared and stays so drops its flag: it is fetched no more
\* (tb_linecache.cpp:263-269).
Shows(off) ==
    px_out.ack /\ ~px_out.miss /\ px_out.word = [line |-> watch, off |-> off, visible |-> TRUE]
DrawnIsShown ==
    /\ \A w \in 0..(VIS_WORDS - 1) :
           <>[]([line |-> watch, off |-> w] \in memory) => []<>Shows(w)
    /\ <>[](\A r \in memory : r.line # watch) => <>[](watch \notin flag)
=============================================================================
