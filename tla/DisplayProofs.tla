--------------------------- MODULE DisplayProofs ---------------------------
(***************************************************************************)
(* DisplayPath, for every choice of its constants.  The flags of the line  *)
(* cache never overlook a write, however slow the bridge (FlagsCover).  A  *)
(* pixel that is not a miss is the word asked for, if a line is fetched    *)
(* between vertical sync and the first line (PixelsAreMemory), and none    *)
(* misses if one is fetched in the time of a line (NoMisses).              *)
(* The last two count clocks: how long a fill still takes (Rem), and how   *)
(* long until a line is shown (To) or the frame begins (Clocks).           *)
(***************************************************************************)
EXTENDS DisplayPath, TLAPS

Words == [line : 0..(LINES - 1), off : 0..(VIS_WORDS - 1)]

(* The mark of a write to line l is under way.                             *)
Coming(l) == l \in mark \/ (acked.visible /\ acked.line = l)

(* The kinds of the values the flags depend on; a line is fetched only if  *)
(* the display has it.                                                     *)
KindInv ==
    /\ memory \subseteq Words /\ watch \in 0..(LINES - 1)
    /\ fill_pos \in Nat /\ fill_line \in Nat
    /\ fst \in {"F_IDLE", "F_REQ", "F_DATA"}
    /\ fst # "F_IDLE" => fill_line < LINES

(* What memory holds in the part of the line already fetched has been seen *)
(* or has been, or is being, marked.                                       *)
FetchedInv ==
    fst # "F_IDLE" =>
        \A r \in memory :
            r.line = fill_line =>
                r.off >= fill_pos \/ nz_acc \/ marked_during \/ Coming(fill_line)

(* And what the burst under way will not see, likewise.                    *)
BurstInv ==
    fst = "F_DATA" =>
        \A r \in memory :
            r.line = fill_line => r \in snap \/ marked_during \/ Coming(fill_line)

IInv == KindInv /\ FlagCovers /\ FetchedInv /\ BurstInv

-----------------------------------------------------------------------------
(* The initial states.                                                     *)

LEMMA Initially == Init => IInv
  BY DisplayAssumption
  DEF Init, Cache!Init, IInv, KindInv, FlagCovers, FetchedInv, BurstInv, Words

(* Any of the display's lines is its own index into the flags.             *)
LEMMA LineIndex == \A l \in Nat : l < LINES => l % LINES = l
  BY DisplayAssumption

-----------------------------------------------------------------------------
(* A step.                                                                 *)

(* A new word of memory has its mark under way; a mark that is under way   *)
(* reaches the cache in this clock or in the next.                         *)
LEMMA Arrivals ==
  ASSUME KindInv, Rasterises, watch' = watch
  PROVE  /\ memory' \subseteq Words
         /\ \A r \in memory' : r \in memory \/ Coming(r.line)'
         /\ \A l : Coming(l) => l \in mark \/ Coming(l)'
<1>1. \A l : Coming(l) => l \in mark \/ Coming(l)'
  BY DEF Rasterises, Coming
<1>2. CASE memory' = memory
  BY <1>1, <1>2 DEF KindInv
<1>3. ASSUME NEW w \in [line : {watch}, off : 0..(VIS_WORDS - 1), visible : BOOLEAN],
             acked' = w, Write(w)
      PROVE  /\ memory' \subseteq Words
             /\ \A r \in memory' : r \in memory \/ Coming(r.line)'
  <2> DEFINE new == [line |-> w.line, off |-> w.off]
  <2>1. new \in Words
    BY DEF KindInv, Words
  <2>2. memory' \subseteq memory \union {new}
    BY <1>3 DEF Write
  <2>3. CASE w.visible
    <3>1. Coming(new.line)'
      BY <1>3, <2>3 DEF Coming
    <3> QED BY <2>1, <2>2, <3>1 DEF KindInv
  <2>4. CASE ~w.visible
    BY <1>3, <2>4 DEF Write, KindInv
  <2> QED BY <2>3, <2>4
<1> QED BY <1>1, <1>2, <1>3 DEF Rasterises

(* A clock of the cache, as DisplayPath wires it.                          *)
Inputs(goes, dout) ==
    [px |-> Px, vs |-> y = V_SYNC_AT, mark |-> mark,
     taken |-> fst = "F_REQ" /\ goes, dout |-> dout]
Ends == burst_left <= 1 /\ fill_pos + 1 >= LINE_WORDS

(* Nothing answers but a word of the burst, as it was when the burst was   *)
(* issued or as it is.                                                     *)
LEMMA Answered ==
  ASSUME KindInv, NEW goes, NEW w \in Answers(goes)
  PROVE  /\ fst = "F_DATA"
         /\ \A r \in memory :
               r.line = fill_line /\ r.off = fill_pos =>
                   r \notin snap \/ (w.visible /\ fill_pos < VIS_WORDS)
<1>1. fst = "F_DATA"
  BY DEF Answers
<1>2. PICK m \in {snap, memory} : w = Holds(m, fill_line, fill_pos)
  BY <1>1 DEF Answers
<1>3. ASSUME NEW r \in memory, r.line = fill_line, r.off = fill_pos, r \in snap
      PROVE  w.visible /\ fill_pos < VIS_WORDS
  <2>1. r = [line |-> fill_line, off |-> fill_pos] /\ fill_pos < VIS_WORDS
    BY <1>3, DisplayAssumption DEF KindInv, Words
  <2>2. r \in m
    BY <1>3
  <2> QED BY <1>2, <2>1, <2>2 DEF Holds
<1> QED BY <1>1, <1>3

-----------------------------------------------------------------------------
(* One lemma for each state of the fill engine.  In all of them a mark     *)
(* that is up sets its flag, and only the end of a line may drop one.      *)

StepOf(goes, dout) ==
    /\ Waits(goes) /\ Rasterises /\ watch' = watch
    /\ dout = {} \/ \E w \in Answers(goes) : dout = {w}

LEMMA FlagsKept ==
  ASSUME IInv, Rasterises, watch' = watch, flag \union mark \subseteq flag'
  PROVE  FlagCovers'
<1> SUFFICES ASSUME NEW r \in memory'
             PROVE  r.line \in flag' \/ Coming(r.line)'
  BY DEF FlagCovers, Coming
<1>1. r \in memory \/ Coming(r.line)'
  BY Arrivals DEF IInv
<1>2. r \in memory => r.line \in flag \/ Coming(r.line)
  BY DEF IInv, FlagCovers, Coming
<1> QED BY <1>1, <1>2, Arrivals DEF IInv

LEMMA IdleStep ==
  ASSUME IInv, NEW goes \in BOOLEAN, NEW dout, StepOf(goes, dout), Cache!Idle(Inputs(goes, dout))
  PROVE  IInv'
<1> DEFINE in == Inputs(goes, dout)
<1>1. fst = "F_IDLE" /\ in.mark = mark
  BY DEF Cache!Idle, Inputs
<1>2. /\ flag' = flag \union mark
      /\ fst' \in {"F_IDLE", "F_REQ"} /\ fill_pos' \in Nat /\ fill_line' \in Nat
      /\ fst' = "F_REQ" => fill_line' < LINES /\ fill_pos' = 0
  BY <1>1 DEF Cache!Idle, Cache!Restart, Cache!Publish, Cache!Start, Cache!MayFill,
              Cache!Flags, IInv, KindInv
<1>3. memory' \subseteq Words
  BY Arrivals DEF IInv, StepOf
<1>4. KindInv'
  BY <1>2, <1>3 DEF IInv, KindInv, StepOf, Words
<1>5. FlagCovers'
  BY <1>2, FlagsKept DEF StepOf
<1>6. FetchedInv'
  BY <1>2, <1>3 DEF FetchedInv, Words
<1>7. BurstInv'
  BY <1>2 DEF BurstInv
<1> QED BY <1>4, <1>5, <1>6, <1>7 DEF IInv

LEMMA RequestStep ==
  ASSUME IInv, NEW goes \in BOOLEAN, NEW dout, StepOf(goes, dout), Cache!Request(Inputs(goes, dout))
  PROVE  IInv'
<1> DEFINE in == Inputs(goes, dout)
<1>1. fst = "F_REQ" /\ in.mark = mark /\ in.taken = goes
  BY DEF Cache!Request, Inputs
<1>2. /\ flag' = flag \union mark
      /\ fst' = (IF goes THEN "F_DATA" ELSE fst)
      /\ marked_during' = (marked_during \/ fill_line \in mark)
      /\ UNCHANGED <<fill_pos, fill_line, nz_acc>>
  BY <1>1 DEF Cache!Request, Cache!Flags, Cache!Marks
<1>3. /\ memory' \subseteq Words
      /\ \A r \in memory' : r \in memory \/ Coming(r.line)'
      /\ \A l : Coming(l) => l \in mark \/ Coming(l)'
  BY Arrivals DEF IInv, StepOf
<1>4. KindInv'
  BY <1>1, <1>2, <1>3 DEF IInv, KindInv, StepOf, Words
<1>5. FlagCovers'
  BY <1>2, FlagsKept DEF StepOf
<1>6. FetchedInv'
  <2> SUFFICES ASSUME NEW r \in memory', r.line = fill_line
               PROVE  r.off >= fill_pos \/ nz_acc \/ marked_during' \/ Coming(fill_line)'
    BY <1>2 DEF FetchedInv
  <2>1. r \in memory => r.off >= fill_pos \/ nz_acc \/ marked_during \/ Coming(fill_line)
    BY <1>1 DEF IInv, FetchedInv
  <2> QED BY <1>2, <1>3, <2>1
<1>7. BurstInv'
  <2> SUFFICES ASSUME fst' = "F_DATA", NEW r \in memory', r.line = fill_line
               PROVE  r \in snap' \/ Coming(fill_line)'
    BY <1>2 DEF BurstInv
  <2>1. snap' = memory
    BY <1>1, <1>2 DEF StepOf, Waits
  <2> QED BY <1>2, <1>3, <2>1
<1> QED BY <1>4, <1>5, <1>6, <1>7 DEF IInv

(* The end of a line drops the flag only if no word of it showed anything, *)
(* and then neither the words before nor this one were memory's visible.   *)
LEMMA DataStep ==
  ASSUME IInv, NEW goes \in BOOLEAN, NEW dout, StepOf(goes, dout),
         Cache!Data(Inputs(goes, dout))
  PROVE  IInv'
<1> DEFINE in == Inputs(goes, dout)
<1>1. /\ fst = "F_DATA" /\ fill_line < LINES
      /\ in.mark = mark /\ in.dout = dout
      /\ marked_during' = (marked_during \/ fill_line \in mark)
  BY DEF Cache!Data, Cache!Marks, Inputs, IInv, KindInv
<1>2. snap' = snap
  BY <1>1 DEF StepOf, Waits
<1>3. /\ memory' \subseteq Words
      /\ \A r \in memory' : r \in memory \/ Coming(r.line)'
      /\ \A l : Coming(l) => l \in mark \/ Coming(l)'
  BY Arrivals DEF IInv, StepOf
<1>4. \A r \in memory :
        r.line = fill_line =>
            /\ r.off >= fill_pos \/ nz_acc \/ marked_during \/ Coming(fill_line)
            /\ r \in snap \/ marked_during \/ Coming(fill_line)
  BY <1>1 DEF IInv, FetchedInv, BurstInv
<1>5. CASE dout = {}
  <2>1. /\ flag' = flag \union mark
        /\ UNCHANGED <<fst, fill_pos, fill_line, nz_acc>>
    BY <1>1, <1>5 DEF Cache!Data, Cache!Flags
  <2>2. KindInv'
    BY <1>3, <2>1 DEF IInv, KindInv, StepOf, Words
  <2>3. FlagCovers'
    BY <2>1, FlagsKept DEF StepOf
  <2>4. FetchedInv'
    BY <1>1, <1>3, <1>4, <2>1 DEF FetchedInv
  <2>5. BurstInv'
    BY <1>1, <1>2, <1>3, <1>4, <2>1 DEF BurstInv
  <2> QED BY <2>2, <2>3, <2>4, <2>5 DEF IInv
<1>6. CASE dout # {}
  <2>1. PICK w \in Answers(goes) : dout = {w}
    BY <1>6 DEF StepOf
  <2>2. \A r \in memory :
          r.line = fill_line /\ r.off = fill_pos =>
              r \notin snap \/ (w.visible /\ fill_pos < VIS_WORDS)
    BY <2>1, Answered DEF IInv
  <2> DEFINE nz == nz_acc \/ (w.visible /\ fill_pos < VIS_WORDS)
             dropped == IF Ends /\ ~nz /\ ~marked_during THEN {fill_line % LINES} ELSE {}
  <2>3. /\ fill_pos' = fill_pos + 1
        /\ nz_acc' = nz
        /\ fst' = (IF Ends THEN "F_IDLE" ELSE IF burst_left <= 1 THEN "F_REQ" ELSE fst)
        /\ fill_line' = (IF Ends THEN fill_line + 1 ELSE fill_line)
        /\ flag' = (flag \ dropped) \union mark
    <3>1. (CHOOSE v \in dout : TRUE) = w
      BY <2>1
    <3> QED BY <1>1, <1>6, <3>1 DEF Cache!Data, Cache!Flags, Cache!NonZero, Cache!Empty, Ends
  <2>4. dropped \subseteq {fill_line}
    BY <1>1, LineIndex DEF IInv, KindInv
  \* What of the line has been fetched with this word.
  <2>5. \A r \in memory :
          r.line = fill_line =>
              r.off >= fill_pos + 1 \/ nz \/ marked_during' \/ Coming(fill_line)
    <3> SUFFICES ASSUME NEW r \in memory, r.line = fill_line, ~(r.off >= fill_pos + 1)
                 PROVE  nz \/ marked_during' \/ Coming(fill_line)
      OBVIOUS
    <3>1. r.off \in Nat /\ fill_pos \in Nat
      BY DEF IInv, KindInv, Words
    <3>2. CASE r.off = fill_pos
      BY <1>1, <1>4, <2>2, <3>2
    <3>3. CASE r.off # fill_pos
      <4>1. ~(r.off >= fill_pos)
        BY <3>1, <3>3
      <4> QED BY <1>1, <1>4, <4>1
    <3> QED BY <3>2, <3>3
  <2>6. KindInv'
    BY <1>1, <1>3, <2>3 DEF IInv, KindInv, StepOf, Words
  <2>7. FlagCovers'
    <3> SUFFICES ASSUME NEW r \in memory'
                 PROVE  r.line \in flag' \/ Coming(r.line)'
      BY DEF FlagCovers, Coming
    <3>1. CASE r \notin memory
      BY <1>3, <3>1
    <3>2. CASE r \in memory /\ r.line \in dropped
      <4>1. r.line = fill_line /\ Ends /\ ~nz /\ ~marked_during
        BY <2>4, <3>2
      <4>2. r.off < fill_pos + 1
        BY <3>2, <4>1, DisplayAssumption DEF Ends, IInv, KindInv, Words
      <4>3. marked_during' \/ Coming(r.line)
        BY <2>5, <3>2, <4>1, <4>2 DEF IInv, KindInv, Words
      <4> QED BY <1>1, <1>3, <2>3, <4>1, <4>3
    <3>3. CASE r \in memory /\ r.line \notin dropped
      <4>1. r.line \in flag \/ Coming(r.line)
        BY <3>3 DEF IInv, FlagCovers, Coming
      <4> QED BY <1>3, <2>3, <3>3, <4>1
    <3> QED BY <3>1, <3>2, <3>3
  <2>8. FetchedInv'
    <3> SUFFICES ASSUME fst' # "F_IDLE", NEW r \in memory', r.line = fill_line'
                 PROVE  \/ r.off >= fill_pos' \/ nz_acc' \/ marked_during'
                        \/ Coming(fill_line)'
      BY DEF FetchedInv
    <3>1. fill_line' = fill_line
      BY <2>3
    <3>2. r \in memory =>
            r.off >= fill_pos + 1 \/ nz \/ marked_during' \/ Coming(fill_line)
      BY <2>5, <3>1
    <3>3. Coming(fill_line) => marked_during' \/ Coming(fill_line)'
      BY <1>1, <1>3, <3>1
    <3>4. r \in memory \/ Coming(fill_line)'
      BY <1>3, <3>1
    <3> QED BY <2>3, <3>2, <3>3, <3>4
  <2>9. BurstInv'
    BY <1>1, <1>2, <1>3, <1>4, <2>3 DEF BurstInv, Coming
  <2> QED BY <2>6, <2>7, <2>8, <2>9 DEF IInv
<1> QED BY <1>5, <1>6

-----------------------------------------------------------------------------
(* Every step, and the theorem.                                            *)

LEMMA Inductive == IInv /\ [Clock]_vars => IInv'
<1> SUFFICES ASSUME IInv, [Clock]_vars PROVE IInv'
  OBVIOUS
<1>1. CASE UNCHANGED vars
  BY <1>1 DEF vars, Cache!cacheVars, IInv, KindInv, FlagCovers, FetchedInv, BurstInv,
              Coming, Words
<1>2. CASE Clock
  <2>1. PICK goes \in BOOLEAN : \E dout :
          StepOf(goes, dout) /\ Cache!Clock(Inputs(goes, dout))
    BY <1>2 DEF Clock, StepOf, Inputs
  <2>2. PICK dout : StepOf(goes, dout) /\ Cache!Clock(Inputs(goes, dout))
    BY <2>1
  <2> QED BY <2>2, IdleStep, RequestStep, DataStep DEF Cache!Clock
<1> QED BY <1>1, <1>2

(* A line that holds something the display can see has its flag up, or its *)
(* mark is on its way, whatever the rasteriser writes and however long the *)
(* bridge takes.                                                           *)
THEOREM FlagsCover == Spec => []FlagCovers
<1>1. IInv => FlagCovers
  BY DEF IInv
<1> QED BY Initially, Inductive, <1>1, PTL DEF Spec

-----------------------------------------------------------------------------
(* The time a line takes.                                                  *)

LEMMA Quotient ==
    ASSUME NEW q \in Nat, NEW m \in Nat, NEW b \in Nat \ {0}, m < b
    PROVE  (b * q + m) \div b = q
OBVIOUS

LEMMA Division ==
    ASSUME NEW a \in Nat, NEW b \in Nat \ {0}
    PROVE  \E q \in Nat, m \in Nat : m < b /\ a = b * q + m /\ a \div b = q
<1>1. a \div b \in Nat /\ (a % b) \in 0..(b - 1) /\ a = b * (a \div b) + (a % b)
  OBVIOUS
<1> QED BY <1>1

LEMMA Sizes ==
    /\ LINES \in Nat \ {0} /\ LINE_WORDS \in Nat \ {0} /\ VIS_WORDS \in 1..LINE_WORDS
    /\ BURST \in 1..LINE_WORDS /\ DELAY \in Nat
    /\ H_TOTAL \in Nat /\ VIS_WORDS < H_TOTAL
    /\ V_TOTAL \in Nat /\ V_SYNC_AT \in Nat /\ LINES < V_SYNC_AT /\ V_SYNC_AT < V_TOTAL
BY DisplayAssumption

\* k words take no burst, the last one, or one more than the rest of them.
LEMMA Bursts ==
    /\ BurstsOf(0) = 0
    /\ \A k \in Nat : BurstsOf(k) \in Nat
    /\ \A k \in 1..BURST : BurstsOf(k) = 1
    /\ \A k \in Nat : k > BURST => BurstsOf(k) = BurstsOf(k - BURST) + 1
<1>1. BURST \in Nat \ {0}
  BY Sizes
<1>2. BurstsOf(0) = 0
  <2>1. (BURST * 0 + (BURST - 1)) \div BURST = 0
    BY <1>1, Quotient
  <2> QED BY <1>1, <2>1 DEF BurstsOf
<1>3. ASSUME NEW k \in Nat PROVE BurstsOf(k) \in Nat
  <2>1. k + BURST - 1 \in Nat
    BY <1>1
  <2> QED BY <1>1, <2>1, Division DEF BurstsOf
<1>4. ASSUME NEW k \in 1..BURST PROVE BurstsOf(k) = 1
  <2>1. (BURST * 1 + (k - 1)) \div BURST = 1
    BY <1>1, Quotient
  <2> QED BY <1>1, <2>1 DEF BurstsOf
<1>5. ASSUME NEW k \in Nat, k > BURST PROVE BurstsOf(k) = BurstsOf(k - BURST) + 1
  <2> DEFINE a == k - BURST + BURST - 1
  <2>1. a \in Nat /\ a = k - 1
    BY <1>1, <1>5
  <2>2. PICK q \in Nat, m \in Nat : m < BURST /\ a = BURST * q + m /\ a \div BURST = q
    BY <1>1, <2>1, Division
  <2>3. BURST * (q + 1) + m = k + BURST - 1
    <3>1. BURST * (q + 1) = BURST * q + BURST
      BY <1>1
    <3>2. BURST * q \in Nat
      BY <1>1
    <3> QED BY <1>1, <2>1, <2>2, <3>1, <3>2
  <2>4. (BURST * (q + 1) + m) \div BURST = q + 1
    <3> DEFINE q1 == q + 1
    <3>1. q1 \in Nat
      OBVIOUS
    <3> HIDE DEF q1
    <3>2. (BURST * q1 + m) \div BURST = q1
      BY <1>1, <2>2, <3>1, Quotient
    <3> QED BY <3>2 DEF q1
  <2> QED BY <2>2, <2>3, <2>4 DEF BurstsOf
<1> QED BY <1>2, <1>3, <1>4, <1>5

SizeOf(k) == IF k < BURST THEN k ELSE BURST

LEMMA Times ==
    /\ TimeOf(0) = 0
    /\ \A k \in Nat : TimeOf(k) \in Nat /\ TimeOf(k) >= k
    /\ \A k \in Nat \ {0} :
          /\ SizeOf(k) \in 1..BURST /\ SizeOf(k) <= k
          /\ TimeOf(k) = 1 + DELAY + SizeOf(k) + TimeOf(k - SizeOf(k))
    /\ LineTime \in Nat \ {0}
<1>1. BURST \in Nat \ {0} /\ DELAY \in Nat
  BY Sizes
<1>2. TimeOf(0) = 0
  BY <1>1, Bursts DEF TimeOf
<1>3. ASSUME NEW k \in Nat PROVE TimeOf(k) \in Nat /\ TimeOf(k) >= k
  <2>1. BurstsOf(k) * (1 + DELAY) \in Nat
    BY <1>1, Bursts
  <2> QED BY <2>1 DEF TimeOf
<1>4. ASSUME NEW k \in Nat \ {0}
      PROVE  /\ SizeOf(k) \in 1..BURST /\ SizeOf(k) <= k
             /\ TimeOf(k) = 1 + DELAY + SizeOf(k) + TimeOf(k - SizeOf(k))
  <2>1. CASE k <= BURST
    <3>1. BurstsOf(k) = 1 /\ SizeOf(k) = k /\ k - SizeOf(k) = 0
      BY <1>1, <2>1, Bursts DEF SizeOf
    <3> QED BY <1>1, <1>2, <2>1, <3>1 DEF TimeOf
  <2>2. CASE k > BURST
    <3> DEFINE r == k - BURST
    <3>1. r \in Nat /\ SizeOf(k) = BURST /\ k = r + BURST
      BY <1>1, <2>2 DEF SizeOf
    <3>2. BurstsOf(r) \in Nat /\ BurstsOf(k) = BurstsOf(r) + 1
      BY <2>2, <3>1, Bursts
    <3> HIDE DEF r
    <3>3. (BurstsOf(r) + 1) * (1 + DELAY) = BurstsOf(r) * (1 + DELAY) + (1 + DELAY)
      BY <1>1, <3>2
    <3>4. BurstsOf(r) * (1 + DELAY) \in Nat
      BY <1>1, <3>2
    <3>5. TimeOf(k) = 1 + DELAY + BURST + TimeOf(r)
      BY <1>1, <3>1, <3>2, <3>3, <3>4 DEF TimeOf
    <3> QED BY <1>1, <2>2, <3>1, <3>5 DEF r
  <2> QED BY <1>1, <2>1, <2>2
<1>5. LineTime \in Nat \ {0}
  <2>1. LINE_WORDS \in Nat \ {0}
    BY Sizes
  <2>2. TimeOf(LINE_WORDS) \in Nat /\ TimeOf(LINE_WORDS) >= LINE_WORDS
    BY <1>3, <2>1
  <2> QED BY <2>1, <2>2 DEF LineTime
<1> QED BY <1>2, <1>3, <1>4, <1>5

-----------------------------------------------------------------------------
(* VC2's time.                                                             *)

\* Clocks to the begin of the next frame; its lines' begins.
Clocks == (V_TOTAL - y) * H_TOTAL - x
To(l) == IF y >= V_SYNC_AT THEN (V_TOTAL - y + l) * H_TOTAL - x ELSE (l - y) * H_TOTAL - x

TimeInv == x \in 0..(H_TOTAL - 1) /\ y \in 0..(V_TOTAL - 1)

LEMMA TimeGoes ==
    ASSUME TimeInv, Vc2
    PROVE  /\ TimeInv'
           /\ \/ x < H_TOTAL - 1 /\ x' = x + 1 /\ y' = y
              \/ x = H_TOTAL - 1 /\ x' = 0 /\ y < V_TOTAL - 1 /\ y' = y + 1
              \/ x = H_TOTAL - 1 /\ x' = 0 /\ y = V_TOTAL - 1 /\ y' = 0
<1>1. H_TOTAL \in Nat \ {0, 1} /\ V_TOTAL \in Nat \ {0, 1}
  BY Sizes
<1>2. CASE x < H_TOTAL - 1
  <2>1. (x + 1) % H_TOTAL = x + 1
    BY <1>1, <1>2 DEF TimeInv
  <2> QED BY <1>1, <1>2, <2>1 DEF Vc2, TimeInv
<1>3. CASE x = H_TOTAL - 1
  <2>1. (x + 1) % H_TOTAL = 0
    BY <1>1, <1>3
  <2>2. y < V_TOTAL - 1 => (y + 1) % V_TOTAL = y + 1
    BY <1>1 DEF TimeInv
  <2>3. y = V_TOTAL - 1 => (y + 1) % V_TOTAL = 0
    BY <1>1
  <2> QED BY <1>1, <1>3, <2>1, <2>2, <2>3 DEF Vc2, TimeInv
<1> QED BY <1>1, <1>2, <1>3 DEF TimeInv

LEMMA Lines ==
    ASSUME NEW n \in Int
    PROVE  n * H_TOTAL \in Int /\ (n - 1) * H_TOTAL = n * H_TOTAL - H_TOTAL
<1>1. H_TOTAL \in Int
  BY Sizes
<1> QED BY <1>1

LEMMA ClocksGo ==
    ASSUME TimeInv, Vc2
    PROVE  /\ Clocks \in Nat \ {0}
           /\ IF y = V_TOTAL - 1 /\ x = H_TOTAL - 1 THEN Clocks = 1 ELSE Clocks' = Clocks - 1
<1>1. H_TOTAL \in Nat \ {0, 1} /\ V_TOTAL \in Nat \ {0, 1}
  BY Sizes
<1> DEFINE n == V_TOTAL - y
<1>2. n \in Nat \ {0} /\ (n - 1) \in Nat
  BY <1>1 DEF TimeInv
<1>3. n * H_TOTAL \in Int /\ (n - 1) * H_TOTAL = n * H_TOTAL - H_TOTAL
  BY <1>2, Lines
<1>4. (n - 1) * H_TOTAL >= 0
  BY <1>1, <1>2
<1>5. Clocks = n * H_TOTAL - x /\ x \in Nat /\ x < H_TOTAL
  BY <1>1 DEF Clocks, TimeInv
<1>6. CASE x < H_TOTAL - 1 /\ x' = x + 1 /\ y' = y
  <2>1. Clocks' = n * H_TOTAL - (x + 1)
    BY <1>6 DEF Clocks
  <2> HIDE DEF n
  <2> QED BY <1>1, <1>3, <1>4, <1>5, <1>6, <2>1
<1>7. CASE x = H_TOTAL - 1 /\ x' = 0 /\ y < V_TOTAL - 1 /\ y' = y + 1
  <2>1. Clocks' = (n - 1) * H_TOTAL - 0
    <3>1. V_TOTAL - (y + 1) = n - 1
      BY <1>1 DEF TimeInv
    <3> QED BY <1>7, <3>1 DEF Clocks
  <2> HIDE DEF n
  <2> QED BY <1>1, <1>3, <1>4, <1>5, <1>7, <2>1
<1>8. CASE x = H_TOTAL - 1 /\ x' = 0 /\ y = V_TOTAL - 1 /\ y' = 0
  <2>1. n = 1
    BY <1>1, <1>8
  <2>2. Clocks = 1
    BY <1>1, <1>5, <1>8, <2>1
  <2> QED BY <1>8, <2>2
<1> QED BY <1>1, <1>6, <1>7, <1>8, TimeGoes

\* A line's begin comes nearer by one, but for the vertical sync.
LEMMA ToGoes ==
    ASSUME TimeInv, Vc2, NEW l \in Nat
    PROVE  /\ To(l) \in Int /\ To(l)' \in Int /\ To(l + 1) = To(l) + H_TOTAL
           /\ y < LINES \/ (y >= V_SYNC_AT /\ y < V_TOTAL) => To(l)' = To(l) - 1
           /\ y >= V_SYNC_AT => To(l) = Clocks + l * H_TOTAL /\ l * H_TOTAL \in Nat
           /\ 0 * H_TOTAL = 0
<1>1. H_TOTAL \in Nat \ {0, 1} /\ V_TOTAL \in Nat \ {0, 1} /\ V_SYNC_AT \in Nat
      /\ LINES \in Nat /\ LINES < V_SYNC_AT /\ V_SYNC_AT < V_TOTAL
  BY Sizes
<1>2. x \in Int /\ y \in Int /\ x' \in Int /\ y' \in Int
  BY <1>1, TimeGoes DEF TimeInv
<1> DEFINE n == V_TOTAL - y + l
           m == l - y
<1>3. n \in Int /\ m \in Int /\ V_TOTAL - y \in Int
  BY <1>1, <1>2
<1>4. /\ n * H_TOTAL \in Int /\ (n - 1) * H_TOTAL = n * H_TOTAL - H_TOTAL
      /\ m * H_TOTAL \in Int /\ (m - 1) * H_TOTAL = m * H_TOTAL - H_TOTAL
  BY <1>3, Lines
<1>5. /\ (n + 1) * H_TOTAL = n * H_TOTAL + H_TOTAL
      /\ (m + 1) * H_TOTAL = m * H_TOTAL + H_TOTAL
  <2>1. \A k \in Int : (k + 1) * H_TOTAL = k * H_TOTAL + H_TOTAL
    BY <1>1
  <2> QED BY <1>3, <2>1
<1>6. l * H_TOTAL \in Nat /\ 0 * H_TOTAL = 0
  BY <1>1
<1>7. n * H_TOTAL = (V_TOTAL - y) * H_TOTAL + l * H_TOTAL
  <2>1. \A j \in Int : (j + l) * H_TOTAL = j * H_TOTAL + l * H_TOTAL
    BY <1>1
  <2> QED BY <1>3, <2>1
<1>8. To(l) = IF y >= V_SYNC_AT THEN n * H_TOTAL - x ELSE m * H_TOTAL - x
  BY DEF To
<1>9. To(l + 1) = IF y >= V_SYNC_AT THEN (n + 1) * H_TOTAL - x ELSE (m + 1) * H_TOTAL - x
  <2>1. V_TOTAL - y + (l + 1) = n + 1 /\ (l + 1) - y = m + 1
    BY <1>1, <1>2
  <2> QED BY <2>1 DEF To
<1>10. To(l) \in Int /\ To(l + 1) = To(l) + H_TOTAL
  <2> HIDE DEF n, m
  <2> QED BY <1>1, <1>2, <1>4, <1>5, <1>8, <1>9
<1>11. To(l)' = IF y' >= V_SYNC_AT THEN (V_TOTAL - y' + l) * H_TOTAL - x' ELSE (l - y') * H_TOTAL - x'
  BY DEF To
<1>12. To(l)' \in Int
  <2>1. (V_TOTAL - y' + l) * H_TOTAL \in Int /\ (l - y') * H_TOTAL \in Int
    BY <1>1, <1>2, Lines
  <2> QED BY <1>2, <1>11, <2>1
<1>13. ASSUME y < LINES \/ (y >= V_SYNC_AT /\ y < V_TOTAL) PROVE To(l)' = To(l) - 1
  <2>1. CASE x < H_TOTAL - 1 /\ x' = x + 1 /\ y' = y
    <3>1. To(l)' = IF y >= V_SYNC_AT THEN n * H_TOTAL - (x + 1) ELSE m * H_TOTAL - (x + 1)
      BY <1>11, <2>1
    <3> HIDE DEF n, m
    <3> QED BY <1>2, <1>4, <1>8, <3>1
  <2>2. CASE x = H_TOTAL - 1 /\ x' = 0 /\ y < V_TOTAL - 1 /\ y' = y + 1
    <3>1. V_TOTAL - y' + l = n - 1 /\ l - y' = m - 1 /\ (y' >= V_SYNC_AT <=> y >= V_SYNC_AT)
      BY <1>1, <1>2, <1>13, <2>2
    <3>2. To(l)' = IF y >= V_SYNC_AT THEN (n - 1) * H_TOTAL - 0 ELSE (m - 1) * H_TOTAL - 0
      BY <1>11, <2>2, <3>1
    <3> HIDE DEF n, m
    <3> QED BY <1>1, <1>2, <1>4, <1>8, <2>2, <3>2
  <2>3. CASE x = H_TOTAL - 1 /\ x' = 0 /\ y = V_TOTAL - 1 /\ y' = 0
    <3>1. n = l + 1 /\ l - y' = l /\ y >= V_SYNC_AT /\ ~(y' >= V_SYNC_AT)
      BY <1>1, <2>3
    <3>2. To(l)' = l * H_TOTAL - 0
      BY <1>11, <2>3, <3>1
    <3>3. (l + 1) * H_TOTAL = l * H_TOTAL + H_TOTAL
      BY <1>1
    <3>4. To(l) = (l + 1) * H_TOTAL - (H_TOTAL - 1)
      BY <1>8, <2>3, <3>1
    <3> QED BY <1>1, <1>6, <3>2, <3>3, <3>4
  <2> QED BY <2>1, <2>2, <2>3, TimeGoes
<1>14. y >= V_SYNC_AT => To(l) = Clocks + l * H_TOTAL
  <2>1. (V_TOTAL - y) * H_TOTAL \in Int
    BY <1>3, Lines
  <2> HIDE DEF n, m
  <2> QED BY <1>2, <1>6, <1>7, <1>8, <2>1 DEF Clocks
<1> QED BY <1>6, <1>10, <1>12, <1>13, <1>14

-----------------------------------------------------------------------------
(* What a clock does, in each state of the fill engine.                    *)

\* The read of the line on show, from the buffer that is looked at.
Shown == y < LINES /\ x < VIS_WORDS
Hits == {i \in val : tag[i] = y}
Hit == IF Hits = {} THEN 0 ELSE CHOOSE i \in Hits : \A j \in Hits : j <= i
ReadOut(i) ==
    [ack |-> TRUE, miss |-> Hits = {}, read |-> [line |-> y, off |-> x],
     word |-> IF i \in zero THEN [line |-> y, off |-> x, visible |-> FALSE] ELSE buf[i][x]]

\* Beside the engine: the counters of VC2, the writes, the history.
Around ==
    /\ Vc2 /\ Rasterises /\ watch' = watch
    /\ seen' = Watched(memory') \union (IF x = 0 /\ y = LINES THEN {} ELSE seen)
    /\ vs_d' <=> y = V_SYNC_AT
    /\ px_out' = IF Shown THEN ReadOut(Hit) ELSE [px_out EXCEPT !.ack = FALSE, !.miss = FALSE]

Going ==
    /\ disp_line' = IF Shown THEN y ELSE disp_line
    /\ restart' <=> restart \/ (y = V_SYNC_AT /\ ~vs_d)
    /\ flag' = flag \union mark

GoRestart ==
    /\ fst = "F_IDLE" /\ restart
    /\ ~restart' /\ val' = {} /\ fill_idx' = 0 /\ fill_line' = 0 /\ fill_pos' = 0
    /\ disp_line' = 0 /\ flag' = flag \union mark /\ waited' = 0
    /\ UNCHANGED <<tag, zero, buf, burst_left, fst, nz_acc, marked_during>>
GoPublish ==
    /\ fst = "F_IDLE" /\ ~restart /\ Cache!MayFill /\ fill_line \notin flag /\ Going
    /\ tag' = [tag EXCEPT ![fill_idx] = fill_line]
    /\ val' = val \union {fill_idx} /\ zero' = zero \union {fill_idx}
    /\ fill_idx' = (fill_idx + 1) % 4 /\ fill_line' = fill_line + 1 /\ waited' = 0
    /\ UNCHANGED <<buf, fill_pos, burst_left, fst, nz_acc, marked_during>>
GoStart ==
    /\ fst = "F_IDLE" /\ ~restart /\ Cache!MayFill /\ fst' = "F_REQ" /\ Going
    /\ fill_pos' = 0 /\ val' = val \ {fill_idx} /\ zero' = zero \ {fill_idx}
    /\ ~nz_acc' /\ waited' = 0
    /\ UNCHANGED <<tag, buf, fill_idx, fill_line, burst_left>>
GoRest ==
    /\ fst = "F_IDLE" /\ ~restart /\ ~Cache!MayFill /\ Going /\ waited' = 0
    /\ UNCHANGED <<tag, val, zero, buf, fill_idx, fill_line, fill_pos, burst_left, fst, nz_acc>>
GoAsk ==
    /\ fst = "F_REQ" /\ Going
    /\ \/ fst' = "F_REQ" /\ waited < DELAY /\ waited' = waited + 1 /\ burst_left' = burst_left
          /\ snap' = snap
       \/ fst' = "F_DATA" /\ waited' = waited /\ burst_left' = SizeOf(LINE_WORDS - fill_pos)
          /\ snap' = memory
    /\ UNCHANGED <<tag, val, zero, buf, fill_idx, fill_line, fill_pos, nz_acc>>
GoWait ==
    /\ fst = "F_DATA" /\ Going /\ waited < DELAY /\ waited' = waited + 1 /\ snap' = snap
    /\ UNCHANGED <<tag, val, zero, buf, fill_idx, fill_line, fill_pos, burst_left, fst, nz_acc>>

\* A word comes; in the middle of a line, or as its last.
Takes(word) ==
    /\ fst = "F_DATA" /\ snap' = snap
    /\ \E m \in {snap, memory} : word = Holds(m, fill_line, fill_pos)
    /\ buf' = [buf EXCEPT ![fill_idx][fill_pos] = word]
    /\ fill_pos' = fill_pos + 1 /\ burst_left' = burst_left - 1
    /\ nz_acc' <=> nz_acc \/ (word.visible /\ fill_pos < VIS_WORDS)
    /\ waited' = (IF burst_left <= 1 THEN 0 ELSE waited)
    /\ zero' = zero
    /\ disp_line' = (IF Shown THEN y ELSE disp_line)
    /\ restart' <=> restart \/ (y = V_SYNC_AT /\ ~vs_d)
GoTake(word) ==
    /\ Takes(word) /\ ~Ends
    /\ fst' = (IF burst_left <= 1 THEN "F_REQ" ELSE "F_DATA")
    /\ flag' = flag \union mark
    /\ UNCHANGED <<tag, val, fill_idx, fill_line>>
GoEnd(word) ==
    /\ Takes(word) /\ Ends /\ fst' = "F_IDLE"
    /\ tag' = [tag EXCEPT ![fill_idx] = fill_line] /\ val' = val \union {fill_idx}
    /\ fill_idx' = (fill_idx + 1) % 4 /\ fill_line' = fill_line + 1
    /\ \/ flag' = flag \union mark
       \/ /\ flag' = (flag \ {fill_line}) \union mark
          /\ ~nz_acc' /\ ~marked_during

Goes ==
    \/ GoRestart \/ GoPublish \/ GoStart \/ GoRest \/ GoAsk \/ GoWait
    \/ \E word : GoTake(word) \/ GoEnd(word)

LEMMA Single == ASSUME NEW S, NEW e, S = {e} PROVE (CHOOSE r \in S : TRUE) = e
  OBVIOUS

\* The display's read.
Read == CHOOSE r \in Px : TRUE

LEMMA ReadIs == Px # {} => Shown /\ Read = [line |-> y, off |-> x] /\ Read.line = y /\ Read.off = x
<1> SUFFICES ASSUME Px # {}
             PROVE  Shown /\ Read = [line |-> y, off |-> x] /\ Read.line = y /\ Read.off = x
  OBVIOUS
<1>1. Shown /\ Px = {[line |-> y, off |-> x]}
  BY DEF Px, Shown
<1>2. Read = [line |-> y, off |-> x]
  BY <1>1, Single DEF Read
<1> QED BY <1>1, <1>2

LEMMA ShownIs == Shown <=> Px # {}
  BY DEF Px, Shown

LEMMA ClockGoes ==
    ASSUME KindInv, Clock
    PROVE  Around /\ Goes
<1>1. PICK goes \in IF fst = "F_IDLE" THEN {FALSE} ELSE BOOLEAN :
        \E dout \in IF Answers(goes) = {} THEN {{}} ELSE {{w} : w \in Answers(goes)} :
            /\ Waits(goes) /\ Cache!Clock(Inputs(goes, dout))
            /\ Vc2 /\ Rasterises
            /\ seen' = Watched(memory') \union (IF x = 0 /\ y = LINES THEN {} ELSE seen)
            /\ UNCHANGED watch
  BY DEF Clock, Inputs
<1>2. PICK dout \in IF Answers(goes) = {} THEN {{}} ELSE {{w} : w \in Answers(goes)} :
            /\ Waits(goes) /\ Cache!Clock(Inputs(goes, dout))
            /\ Vc2 /\ Rasterises
            /\ seen' = Watched(memory') \union (IF x = 0 /\ y = LINES THEN {} ELSE seen)
            /\ UNCHANGED watch
  BY <1>1
<1> DEFINE in == Inputs(goes, dout)
<1>3. /\ in.px = Px /\ in.vs = (y = V_SYNC_AT) /\ in.mark = mark
      /\ in.taken = (fst = "F_REQ" /\ goes) /\ in.dout = dout
  BY DEF Inputs
<1>4. Around
  <2> HIDE DEF in
  <2>1. Cache!Reads(in)
    BY <1>2 DEF Cache!Clock, in
  <2>2. px_out' = IF Shown THEN ReadOut(Hit) ELSE [px_out EXCEPT !.ack = FALSE, !.miss = FALSE]
    <3>1. CASE Shown
      <4> DEFINE r == CHOOSE r \in in.px : TRUE
                 h == IF Cache!Hits(r.line) = {} THEN 0
                      ELSE CHOOSE i \in Cache!Hits(r.line) : \A j \in Cache!Hits(r.line) : j <= i
      <4>1. in.px # {} /\ r = [line |-> y, off |-> x] /\ r.line = y /\ r.off = x
        BY <1>3, <3>1, ReadIs, ShownIs DEF Read
      <4>2. px_out' = [ack |-> TRUE, miss |-> Cache!Hits(r.line) = {}, read |-> r,
                       word |-> IF h \in zero THEN [line |-> r.line, off |-> r.off, visible |-> FALSE]
                                ELSE buf[h][r.off]]
        BY <2>1, <4>1 DEF Cache!Reads
      <4> HIDE DEF r
      <4>3. Cache!Hits(r.line) = Hits
        BY <4>1 DEF Cache!Hits, Hits
      <4>4. h = Hit
        BY <4>3 DEF Hit
      <4> HIDE DEF h
      <4> QED BY <3>1, <4>1, <4>2, <4>3, <4>4 DEF ReadOut
    <3>2. CASE ~Shown
      BY <1>3, <2>1, <3>2, ShownIs DEF Cache!Reads
    <3> QED BY <3>1, <3>2
  <2>3. vs_d' <=> y = V_SYNC_AT
    BY <1>2, <1>3 DEF Cache!Clock, in
  <2> QED BY <1>2, <2>2, <2>3 DEF Around
<1> SUFFICES Goes
  BY <1>4
<1>5. /\ Cache!Displayed(in) => disp_line' = IF Shown THEN y ELSE disp_line
      /\ Cache!Restarts(in) => (restart' <=> restart \/ (y = V_SYNC_AT /\ ~vs_d))
      /\ Cache!Flags({}, in) => flag' = flag \union mark
  <2> HIDE DEF in
  <2>1. Px # {} => (CHOOSE r \in Px : TRUE).line = y
    BY ReadIs DEF Read
  <2>2. ASSUME Cache!Displayed(in) PROVE disp_line' = IF Shown THEN y ELSE disp_line
    BY <1>3, <2>1, <2>2, ShownIs DEF Cache!Displayed
  <2>3. Cache!Restarts(in) => (restart' <=> restart \/ (y = V_SYNC_AT /\ ~vs_d))
    BY <1>3 DEF Cache!Restarts
  <2>4. Cache!Flags({}, in) => flag' = flag \union mark
    BY <1>3 DEF Cache!Flags
  <2> QED BY <2>2, <2>3, <2>4
<1>6. Cache!Idle(in) \/ Cache!Request(in) \/ Cache!Data(in)
  BY <1>2 DEF Cache!Clock
<1> HIDE DEF in
<1>7. CASE Cache!Idle(in)
  <2>1. fst = "F_IDLE" /\ waited' = 0
    BY <1>2, <1>7 DEF Cache!Idle, Waits
  <2>2. CASE restart /\ Cache!Restart(in)
    BY <1>5, <2>1, <2>2 DEF Cache!Restart, GoRestart, Goes
  <2>3. CASE ~restart /\ Cache!MayFill /\ fill_line % LINES \notin flag /\ Cache!Publish(in)
    <3>1. fill_line \notin flag
      BY <2>3, LineIndex DEF Cache!MayFill, KindInv
    <3> QED BY <1>5, <2>1, <2>3, <3>1
            DEF Cache!Publish, Cache!NextBuffer, Cache!NBUF, Going, GoPublish, Goes
  <2>4. CASE ~restart /\ Cache!MayFill /\ fill_line % LINES \in flag /\ Cache!Start(in)
    BY <1>5, <2>1, <2>4 DEF Cache!Start, Going, GoStart, Goes
  <2>5. CASE /\ ~restart /\ ~Cache!MayFill
             /\ Cache!Displayed(in) /\ Cache!Restarts(in) /\ Cache!Flags({}, in)
             /\ UNCHANGED <<tag, val, zero, buf, fill_idx, fill_line, fill_pos, burst_left,
                            fst, nz_acc, marked_during>>
    BY <1>5, <2>1, <2>5 DEF Going, GoRest, Goes
  <2> QED BY <1>7, <2>2, <2>3, <2>4, <2>5 DEF Cache!Idle
<1>8. CASE Cache!Request(in)
  <2>1. fst = "F_REQ" /\ Going /\ UNCHANGED <<tag, val, zero, buf, fill_idx, fill_line, fill_pos, nz_acc>>
    BY <1>5, <1>8 DEF Cache!Request, Going
  <2>2. Cache!Burst = SizeOf(LINE_WORDS - fill_pos)
    BY DEF Cache!Burst, SizeOf
  <2>3. CASE goes
    BY <1>2, <1>3, <1>8, <2>1, <2>2, <2>3 DEF Cache!Request, Waits, GoAsk, Goes
  <2>4. CASE ~goes
    BY <1>2, <1>3, <1>8, <2>1, <2>4 DEF Cache!Request, Waits, GoAsk, Goes
  <2> QED BY <2>3, <2>4
<1>9. CASE Cache!Data(in)
  <2>1. fst = "F_DATA" /\ snap' = snap /\ fill_line % LINES = fill_line
    BY <1>2, <1>9, LineIndex DEF Cache!Data, Waits, KindInv
  <2>2. CASE dout = {}
    <3>1. ~goes
      BY <1>2, <2>1, <2>2 DEF Answers
    <3> QED BY <1>2, <1>3, <1>5, <1>9, <2>1, <2>2, <3>1 DEF Cache!Data, Waits, Going, GoWait, Goes
  <2>3. CASE dout # {}
    <3>1. PICK word \in Answers(goes) : dout = {word}
      BY <1>2, <2>3
    <3>2. goes /\ \E m \in {snap, memory} : word = Holds(m, fill_line, fill_pos)
      BY <3>1 DEF Answers
    <3>3. (CHOOSE v \in dout : TRUE) = word
      BY <3>1
    <3> DEFINE nz == nz_acc \/ (word.visible /\ fill_pos < VIS_WORDS)
               line == burst_left <= 1 /\ fill_pos + 1 >= LINE_WORDS
    <3>4. /\ buf' = [buf EXCEPT ![fill_idx][fill_pos] = word]
          /\ fill_pos' = fill_pos + 1 /\ burst_left' = burst_left - 1
          /\ nz_acc' <=> nz
          /\ fst' = (IF line THEN "F_IDLE" ELSE IF burst_left <= 1 THEN "F_REQ" ELSE fst)
          /\ tag' = (IF line THEN [tag EXCEPT ![fill_idx] = fill_line] ELSE tag)
          /\ val' = (IF line THEN val \union {fill_idx} ELSE val)
          /\ fill_idx' = (IF line THEN (fill_idx + 1) % 4 ELSE fill_idx)
          /\ fill_line' = (IF line THEN fill_line + 1 ELSE fill_line)
          /\ Cache!Flags(IF line /\ ~nz /\ ~marked_during THEN {fill_line} ELSE {}, in)
          /\ zero' = zero
          /\ Cache!Displayed(in) /\ Cache!Restarts(in)
      BY <1>3, <1>9, <2>1, <2>3, <3>3
         DEF Cache!Data, Cache!NonZero, Cache!Empty, Cache!NextBuffer, Cache!NBUF
    <3>5. waited' = (IF burst_left <= 1 THEN 0 ELSE waited)
      BY <1>2, <2>1, <3>2 DEF Waits
    <3>6. Takes(word)
      BY <1>5, <2>1, <3>2, <3>4, <3>5 DEF Takes
    <3>7. flag' = (flag \ (IF line /\ ~nz /\ ~marked_during THEN {fill_line} ELSE {})) \union mark
      BY <1>3, <3>4 DEF Cache!Flags
    <3>8. CASE line
      <4>1. \/ flag' = flag \union mark
            \/ flag' = (flag \ {fill_line}) \union mark /\ ~nz_acc' /\ ~marked_during
        BY <3>4, <3>7, <3>8
      <4>2. GoEnd(word)
        BY <3>4, <3>6, <3>8, <4>1 DEF GoEnd, Ends
      <4> QED BY <4>2 DEF Goes
    <3>9. CASE ~line
      <4>1. GoTake(word)
        BY <2>1, <3>4, <3>6, <3>7, <3>9 DEF GoTake, Ends
      <4> QED BY <4>1 DEF Goes
    <3> QED BY <3>8, <3>9
  <2> QED BY <2>2, <2>3
<1> QED BY <1>4, <1>6, <1>7, <1>8, <1>9

-----------------------------------------------------------------------------
(* The ranges of the fill engine and of the ring.                          *)

Word == [line : Nat, off : Nat, visible : BOOLEAN]

RangeInv ==
    /\ TimeInv
    /\ fill_idx \in 0..3 /\ val \subseteq 0..3 /\ tag \in [0..3 -> Nat]
    /\ buf \in [0..3 -> [0..(LINE_WORDS - 1) -> Word]]
    /\ waited \in 0..DELAY /\ (fst = "F_IDLE" => waited = 0)
    /\ fst # "F_IDLE" => fill_pos < LINE_WORDS /\ fill_idx \notin val /\ fill_idx \notin zero
    /\ fst = "F_DATA" => burst_left \in 1..BURST /\ fill_pos + burst_left <= LINE_WORDS
    /\ acked.visible => acked.line = watch
    /\ mark \subseteq {watch}

LEMMA RangeAtFirst == Init => RangeInv /\ KindInv
<1> SUFFICES ASSUME Init PROVE RangeInv /\ KindInv
  OBVIOUS
<1>1. KindInv
  BY Initially DEF IInv
<1>2. TimeInv
  BY Sizes DEF Init, TimeInv
<1>3. Cache!NoLine \in Nat /\ Cache!NoWord \in Word
  BY Sizes DEF Cache!NoLine, Cache!NoWord, Word
<1> QED BY <1>1, <1>2, <1>3, Sizes DEF Init, Cache!Init, Cache!Buffers, Cache!NBUF, RangeInv, NoWrite

LEMMA HoldsWord ==
    ASSUME NEW m, NEW l \in Nat, NEW w \in Nat
    PROVE  Holds(m, l, w) \in Word
  BY DEF Holds, Word

LEMMA RangeStep ==
    ASSUME KindInv, RangeInv, Around, Goes
    PROVE  RangeInv'
<1>1. TimeInv'
  BY TimeGoes DEF Around, RangeInv
<1>2. (acked.visible => acked.line = watch)' /\ (mark \subseteq {watch})'
  BY DEF Around, Rasterises, RangeInv, NoWrite
<1>3. /\ LINE_WORDS \in Nat \ {0} /\ DELAY \in Nat /\ BURST \in Nat \ {0}
      /\ fill_line \in Nat /\ fill_pos \in Nat /\ fill_idx \in 0..3
      /\ fst \in {"F_IDLE", "F_REQ", "F_DATA"}
  BY Sizes DEF KindInv, RangeInv
<1> DEFINE Rest ==
       /\ fill_idx \in 0..3 /\ val \subseteq 0..3 /\ tag \in [0..3 -> Nat]
       /\ buf \in [0..3 -> [0..(LINE_WORDS - 1) -> Word]]
       /\ waited \in 0..DELAY /\ (fst = "F_IDLE" => waited = 0)
       /\ fst # "F_IDLE" => fill_pos < LINE_WORDS /\ fill_idx \notin val /\ fill_idx \notin zero
       /\ fst = "F_DATA" => burst_left \in 1..BURST /\ fill_pos + burst_left <= LINE_WORDS
<1>4. Rest
  BY DEF RangeInv
<1>5. (fill_idx + 1) % 4 \in 0..3
  BY <1>3
<1>6. ASSUME GoRestart PROVE Rest'
  BY <1>3, <1>4, <1>6 DEF GoRestart
<1>7. ASSUME GoPublish PROVE Rest'
  BY <1>3, <1>4, <1>5, <1>7 DEF GoPublish
<1>8. ASSUME GoStart PROVE Rest'
  BY <1>3, <1>4, <1>8 DEF GoStart
<1>9. ASSUME GoRest PROVE Rest'
  BY <1>3, <1>4, <1>9 DEF GoRest
<1>10. ASSUME GoAsk PROVE Rest'
  <2>1. LINE_WORDS - fill_pos \in Nat \ {0}
    BY <1>3, <1>4, <1>10 DEF GoAsk
  <2>2. SizeOf(LINE_WORDS - fill_pos) \in 1..BURST /\ fill_pos + SizeOf(LINE_WORDS - fill_pos) <= LINE_WORDS
    <3> DEFINE k == LINE_WORDS - fill_pos
    <3>1. SizeOf(k) \in 1..BURST /\ SizeOf(k) <= k
      BY <2>1, Times
    <3> QED BY <1>3, <3>1
  <2> QED BY <1>3, <1>4, <1>10, <2>2 DEF GoAsk
<1>11. ASSUME GoWait PROVE Rest'
  BY <1>3, <1>4, <1>11 DEF GoWait
<1>12. ASSUME NEW word, Takes(word)
       PROVE  buf' \in [0..3 -> [0..(LINE_WORDS - 1) -> Word]] /\ waited' \in 0..DELAY
  <2>1. word \in Word
    BY <1>3, <1>12, HoldsWord DEF Takes
  <2>2. fill_pos \in 0..(LINE_WORDS - 1)
    BY <1>3, <1>4, <1>12 DEF Takes
  <2>3. buf' = [buf EXCEPT ![fill_idx][fill_pos] = word]
    BY <1>12 DEF Takes
  <2>4. buf' \in [0..3 -> [0..(LINE_WORDS - 1) -> Word]]
    BY <1>3, <1>4, <2>1, <2>2, <2>3
  <2>5. waited' \in 0..DELAY
    BY <1>3, <1>4, <1>12 DEF Takes
  <2> QED BY <2>4, <2>5
<1>13. ASSUME NEW word, GoTake(word) PROVE Rest'
  <2>1. /\ fst = "F_DATA" /\ fill_pos' = fill_pos + 1 /\ burst_left' = burst_left - 1 /\ zero' = zero
        /\ ~Ends /\ fst' = (IF burst_left <= 1 THEN "F_REQ" ELSE "F_DATA")
        /\ UNCHANGED <<tag, val, fill_idx, fill_line>>
    BY <1>13 DEF GoTake, Takes
  <2>2. buf' \in [0..3 -> [0..(LINE_WORDS - 1) -> Word]] /\ waited' \in 0..DELAY
    BY <1>12, <1>13 DEF GoTake
  <2>3. fill_pos' < LINE_WORDS
    BY <1>3, <1>4, <2>1 DEF Ends
  <2> QED BY <1>3, <1>4, <2>1, <2>2, <2>3
<1>14. ASSUME NEW word, GoEnd(word) PROVE Rest'
  <2>1. /\ fst' = "F_IDLE" /\ zero' = zero /\ waited' = 0
        /\ tag' = [tag EXCEPT ![fill_idx] = fill_line] /\ val' = val \union {fill_idx}
        /\ fill_idx' = (fill_idx + 1) % 4
    BY <1>3, <1>14 DEF GoEnd, Takes, Ends
  <2>2. buf' \in [0..3 -> [0..(LINE_WORDS - 1) -> Word]] /\ waited' \in 0..DELAY
    BY <1>12, <1>14 DEF GoEnd
  <2> QED BY <1>3, <1>4, <1>5, <2>1, <2>2
<1>15. Rest'
  BY <1>6, <1>7, <1>8, <1>9, <1>10, <1>11, <1>13, <1>14 DEF Goes
<1> QED BY <1>1, <1>2, <1>15 DEF RangeInv

-----------------------------------------------------------------------------
(* The clocks a fill still takes.                                          *)

Rem ==
    IF fst = "F_IDLE" THEN 0
    ELSE IF fst = "F_REQ" THEN TimeOf(LINE_WORDS - fill_pos) - waited
    ELSE burst_left + (DELAY - waited) + TimeOf(LINE_WORDS - fill_pos - burst_left)

LEMMA RemIs ==
    ASSUME KindInv, RangeInv
    PROVE  Rem \in Nat /\ (fst # "F_IDLE" => Rem >= 1)
<1>1. /\ LINE_WORDS \in Nat \ {0} /\ DELAY \in Nat /\ BURST \in Nat \ {0}
      /\ fill_pos \in Nat /\ waited \in 0..DELAY
  BY Sizes DEF KindInv, RangeInv
<1>2. CASE fst = "F_REQ"
  <2> DEFINE k == LINE_WORDS - fill_pos
  <2>1. k \in Nat \ {0}
    BY <1>1, <1>2 DEF RangeInv
  <2>2. /\ SizeOf(k) \in 1..BURST /\ k - SizeOf(k) \in Nat
        /\ TimeOf(k) = 1 + DELAY + SizeOf(k) + TimeOf(k - SizeOf(k))
    BY <2>1, Times
  <2>3. TimeOf(k - SizeOf(k)) \in Nat
    BY <2>2, Times
  <2> HIDE DEF k
  <2>4. TimeOf(k) - waited \in Nat \ {0}
    BY <1>1, <2>2, <2>3
  <2> QED BY <1>2, <2>4 DEF Rem, k
<1>3. CASE fst = "F_DATA"
  <2>1. burst_left \in Nat \ {0} /\ LINE_WORDS - fill_pos - burst_left \in Nat
    BY <1>1, <1>3 DEF RangeInv
  <2>2. TimeOf(LINE_WORDS - fill_pos - burst_left) \in Nat
    BY <2>1, Times
  <2> QED BY <1>1, <1>3, <2>1, <2>2 DEF Rem
<1> QED BY <1>2, <1>3 DEF Rem, KindInv

LEMMA RemGoes ==
    ASSUME KindInv, RangeInv, Goes
    PROVE  /\ fst # "F_IDLE" => Rem' \in Int /\ Rem' <= Rem - 1
           /\ fst = "F_IDLE" => Rem = 0 /\ Rem' = IF fst' = "F_IDLE" THEN 0 ELSE LineTime
<1>1. /\ LINE_WORDS \in Nat \ {0} /\ DELAY \in Nat /\ BURST \in Nat \ {0}
      /\ fill_pos \in Nat /\ waited \in 0..DELAY
      /\ fst \in {"F_IDLE", "F_REQ", "F_DATA"}
  BY Sizes DEF KindInv, RangeInv
<1>2. Rem \in Nat /\ (fst # "F_IDLE" => Rem >= 1)
  BY RemIs
<1>3. CASE fst = "F_IDLE"
  <2>1. fst' = "F_IDLE" \/ (fst' = "F_REQ" /\ fill_pos' = 0 /\ waited' = 0)
    BY <1>3 DEF Goes, GoRestart, GoPublish, GoStart, GoRest, GoAsk, GoWait, GoTake, GoEnd, Takes
  <2>2. LineTime \in Nat /\ LINE_WORDS - 0 = LINE_WORDS
    BY <1>1, Times
  <2> QED BY <1>3, <2>1, <2>2 DEF Rem, LineTime
<1>4. CASE GoAsk
  <2> DEFINE k == LINE_WORDS - fill_pos
  <2>1. k \in Nat \ {0} /\ fst = "F_REQ" /\ fill_pos' = fill_pos
    BY <1>1, <1>4 DEF RangeInv, GoAsk
  <2>2. /\ SizeOf(k) \in 1..BURST /\ k - SizeOf(k) \in Nat
        /\ TimeOf(k) = 1 + DELAY + SizeOf(k) + TimeOf(k - SizeOf(k))
    BY <2>1, Times
  <2>3. TimeOf(k - SizeOf(k)) \in Nat
    BY <2>2, Times
  <2>4. Rem = TimeOf(k) - waited
    BY <2>1 DEF Rem
  <2>5. CASE fst' = "F_REQ" /\ waited' = waited + 1
    <3>1. Rem' = TimeOf(k) - (waited + 1)
      BY <2>1, <2>5 DEF Rem
    <3> HIDE DEF k
    <3> QED BY <1>1, <2>1, <2>2, <2>3, <2>4, <3>1
  <2>6. CASE fst' = "F_DATA" /\ waited' = waited /\ burst_left' = SizeOf(k)
    <3>1. Rem' = SizeOf(k) + (DELAY - waited) + TimeOf(k - SizeOf(k))
      BY <2>1, <2>6 DEF Rem
    <3> HIDE DEF k
    <3> QED BY <1>1, <2>1, <2>2, <2>3, <2>4, <3>1
  <2> QED BY <1>4, <2>5, <2>6 DEF GoAsk
<1>5. CASE fst = "F_DATA"
  <2> DEFINE r == LINE_WORDS - fill_pos - burst_left
  <2>1. burst_left \in Nat \ {0} /\ r \in Nat
    BY <1>1, <1>5 DEF RangeInv
  <2>2. TimeOf(r) \in Nat /\ TimeOf(0) = 0
    BY <2>1, Times
  <2>3. Rem = burst_left + (DELAY - waited) + TimeOf(r)
    BY <1>5 DEF Rem
  <2>4. CASE GoWait
    <3>1. Rem' = burst_left + (DELAY - (waited + 1)) + TimeOf(r)
      BY <2>4 DEF Rem, GoWait
    <3> HIDE DEF r
    <3> QED BY <1>1, <1>5, <2>1, <2>2, <2>3, <3>1
  <2>5. ASSUME NEW word, GoTake(word) PROVE Rem' \in Int /\ Rem' <= Rem - 1
    <3>1. fill_pos' = fill_pos + 1 /\ burst_left' = burst_left - 1
          /\ fst' = (IF burst_left <= 1 THEN "F_REQ" ELSE "F_DATA")
          /\ waited' = (IF burst_left <= 1 THEN 0 ELSE waited)
      BY <2>5 DEF GoTake, Takes
    <3>2. LINE_WORDS - (fill_pos + 1) - (burst_left - 1) = r
      BY <1>1, <2>1
    <3>3. CASE burst_left <= 1
      <4>1. burst_left = 1 /\ LINE_WORDS - (fill_pos + 1) = r
        BY <1>1, <2>1, <3>3
      <4>2. Rem' = TimeOf(r) - 0
        BY <3>1, <3>3, <4>1 DEF Rem
      <4> HIDE DEF r
      <4> QED BY <1>1, <2>1, <2>2, <2>3, <4>1, <4>2
    <3>4. CASE ~(burst_left <= 1)
      <4>1. Rem' = (burst_left - 1) + (DELAY - waited) + TimeOf(r)
        BY <3>1, <3>2, <3>4 DEF Rem
      <4> HIDE DEF r
      <4> QED BY <1>1, <2>1, <2>2, <2>3, <4>1
    <3> QED BY <3>3, <3>4
  <2>6. ASSUME NEW word, GoEnd(word) PROVE Rem' \in Int /\ Rem' <= Rem - 1
    <3>1. Rem' = 0
      BY <2>6 DEF GoEnd, Rem
    <3> QED BY <1>2, <1>5, <3>1
  <2> QED BY <1>5, <2>4, <2>5, <2>6 DEF Goes, GoRestart, GoPublish, GoStart, GoRest, GoAsk
<1>6. fst = "F_REQ" => GoAsk
  BY DEF Goes, GoRestart, GoPublish, GoStart, GoRest, GoWait, GoTake, GoEnd, Takes
<1> QED BY <1>1, <1>3, <1>4, <1>5, <1>6

-----------------------------------------------------------------------------
(* A restart is over before the first line.                                *)

VsInv == y = V_SYNC_AT => (vs_d <=> x > 0)

Booting == restart /\ val = {} /\ fst = "F_IDLE" /\ cold /\ x = 0 /\ y # V_SYNC_AT
InSync == y >= V_SYNC_AT /\ ~(y = V_SYNC_AT /\ x = 0)
\* The clocks of the blanking.
Blank == (V_TOTAL - V_SYNC_AT) * H_TOTAL
RestartInv(m) == restart => Booting \/ (InSync /\ Rem + 1 + m <= Clocks)
TimedInv(m) == KindInv /\ RangeInv /\ Rem <= LineTime /\ VsInv /\ RestartInv(m)

LEMMA TimedAtFirst ==
    ASSUME NEW m \in Nat, Init
    PROVE  TimedInv(m)
<1>1. KindInv /\ RangeInv
  BY RangeAtFirst
<1>2. Rem <= LineTime
  BY Times DEF Init, Cache!Init, Rem
<1>3. VsInv /\ RestartInv(m)
  BY Sizes DEF Init, Cache!Init, VsInv, RestartInv, Booting
<1> QED BY <1>1, <1>2, <1>3 DEF TimedInv

\* Only the restart of the engine ends the restart.
LEMMA RestartGoes ==
    ASSUME Goes
    PROVE  /\ GoRestart \/ (restart' <=> restart \/ (y = V_SYNC_AT /\ ~vs_d))
           /\ restart /\ fst = "F_IDLE" => GoRestart
  BY DEF Goes, GoRestart, GoPublish, GoStart, GoRest, GoAsk, GoWait, GoTake, GoEnd, Takes, Going

LEMMA TimedStep ==
    ASSUME NEW m \in Nat, LineTime + 2 + m <= Blank,
           TimedInv(m), Around, Goes, KindInv'
    PROVE  TimedInv(m)'
<1>1. RangeInv' /\ TimeInv /\ Vc2
  BY RangeStep DEF TimedInv, RangeInv, Around
<1>2. /\ Rem \in Nat /\ (fst # "F_IDLE" => Rem >= 1)
      /\ Rem' \in Int /\ LineTime \in Nat
      /\ fst # "F_IDLE" => Rem' <= Rem - 1
      /\ fst = "F_IDLE" => Rem = 0 /\ Rem' \in {0, LineTime}
  BY RemIs, RemGoes, Times DEF TimedInv
<1>3. Rem' <= LineTime'
  <2>1. LineTime' = LineTime
    BY DEF LineTime, TimeOf, BurstsOf
  <2> QED BY <1>2, <2>1 DEF TimedInv
<1>4. /\ H_TOTAL \in Nat \ {0, 1} /\ V_TOTAL \in Nat /\ V_SYNC_AT \in Nat
      /\ x \in Nat /\ y \in Nat
  BY <1>1, Sizes DEF TimeInv
<1>5. /\ \/ x < H_TOTAL - 1 /\ x' = x + 1 /\ y' = y
         \/ x = H_TOTAL - 1 /\ x' = 0 /\ y < V_TOTAL - 1 /\ y' = y + 1
         \/ x = H_TOTAL - 1 /\ x' = 0 /\ y = V_TOTAL - 1 /\ y' = 0
      /\ Clocks \in Nat \ {0}
      /\ IF y = V_TOTAL - 1 /\ x = H_TOTAL - 1 THEN Clocks = 1 ELSE Clocks' = Clocks - 1
  BY <1>1, TimeGoes, ClocksGo
<1>6. VsInv'
  <2>1. vs_d' <=> y = V_SYNC_AT
    BY DEF Around
  <2>2. 0 # V_SYNC_AT
    BY Sizes
  <2> QED BY <1>4, <1>5, <2>1, <2>2 DEF VsInv
<1>7. ASSUME restart' PROVE InSync' /\ Rem' + 1 + m <= Clocks'
  <2>1. restart' <=> restart \/ (y = V_SYNC_AT /\ ~vs_d)
    BY <1>7, RestartGoes DEF GoRestart
  <2>2. CASE restart
    <3>1. fst # "F_IDLE"
      BY <1>7, <2>2, RestartGoes DEF GoRestart
    <3>2. InSync /\ Rem + 1 + m <= Clocks
      BY <2>2, <3>1 DEF TimedInv, RestartInv, Booting
    <3>3. Clocks' = Clocks - 1
      BY <1>2, <1>5, <3>1, <3>2
    <3>4. InSync'
      <4>1. Clocks # 1
        BY <1>2, <1>5, <3>1, <3>2
      <4> QED BY <1>4, <1>5, <3>2, <4>1 DEF InSync
    <3>5. Rem' + 1 + m <= Clocks - 1
      <4>1. Rem \in Int /\ Rem' \in Int /\ Clocks \in Int /\ Rem' <= Rem - 1
        BY <1>2, <1>5, <3>1
      <4>2. Rem + 1 + m <= Clocks
        BY <3>2
      <4>3. \A a, b, c \in Int : a <= b - 1 /\ b + 1 + m <= c => a + 1 + m <= c - 1
        OBVIOUS
      <4> QED BY <4>1, <4>2, <4>3
    <3> QED BY <3>3, <3>4, <3>5
  <2>3. CASE ~restart
    <3>1. y = V_SYNC_AT /\ x = 0
      BY <1>4, <1>7, <2>1, <2>3 DEF TimedInv, VsInv
    <3>2. Clocks = Blank /\ Blank \in Int
      <4>1. Blank \in Int
        BY <1>4, Lines DEF Blank
      <4> QED BY <3>1, <4>1 DEF Clocks, Blank
    <3>3. Clocks' = Clocks - 1
      BY <1>4, <1>5, <3>1
    <3>4. InSync'
      BY <1>4, <1>5, <3>1 DEF InSync
    <3>5. Rem' + 1 + m <= Clocks - 1
      <4>1. Rem' \in Int /\ LineTime \in Int /\ Rem' <= LineTime
        BY <1>2, <1>3 DEF LineTime, TimeOf, BurstsOf
      <4>2. \A a, b, c \in Int : a <= b /\ b + 2 + m <= c => a + 1 + m <= c - 1
        OBVIOUS
      <4> QED BY <3>2, <4>1, <4>2
    <3> QED BY <3>3, <3>4, <3>5
  <2> QED BY <2>2, <2>3
<1>8. RestartInv(m)'
  BY <1>7 DEF RestartInv
<1> QED BY <1>1, <1>3, <1>6, <1>8 DEF TimedInv

LEMMA TimedStutter ==
    ASSUME NEW m \in Nat, TimedInv(m), UNCHANGED vars
    PROVE  TimedInv(m)'
  BY DEF TimedInv, vars, Cache!cacheVars, KindInv, RangeInv, TimeInv, Rem, LineTime, TimeOf, BurstsOf,
         VsInv, RestartInv, Booting, InSync, Clocks, Words, Word

-----------------------------------------------------------------------------
(* What the buffers hold from before the restart.                          *)

Old == restart \/ (LINES <= y /\ y < V_SYNC_AT) \/ (y = V_SYNC_AT /\ x = 0)

LEMMA OldGoes ==
    ASSUME NEW m \in Nat, TimedInv(m), Around, Goes, Old, ~Old'
    PROVE  GoRestart
<1>1. /\ H_TOTAL \in Nat \ {0, 1} /\ V_TOTAL \in Nat /\ V_SYNC_AT \in Nat /\ LINES \in Nat
      /\ LINES < V_SYNC_AT /\ V_SYNC_AT < V_TOTAL /\ x \in Nat /\ y \in Nat
  BY Sizes DEF TimedInv, RangeInv, TimeInv
<1>2. \/ x < H_TOTAL - 1 /\ x' = x + 1 /\ y' = y
      \/ x = H_TOTAL - 1 /\ x' = 0 /\ y < V_TOTAL - 1 /\ y' = y + 1
      \/ x = H_TOTAL - 1 /\ x' = 0 /\ y = V_TOTAL - 1 /\ y' = 0
  BY TimeGoes DEF TimedInv, RangeInv, Around
<1> SUFFICES ASSUME ~GoRestart PROVE FALSE
  OBVIOUS
<1>3. ~restart /\ ~(y = V_SYNC_AT /\ ~vs_d)
  BY RestartGoes DEF Old
<1>4. ~(y = V_SYNC_AT /\ x = 0)
  BY <1>1, <1>3 DEF TimedInv, VsInv
<1>5. LINES <= y /\ y < V_SYNC_AT
  BY <1>3, <1>4 DEF Old
<1> QED BY <1>1, <1>2, <1>5 DEF Old

\* At a visible line nothing is old, unless nothing is held.
LEMMA NotOld ==
    ASSUME NEW m \in Nat, TimedInv(m), y < LINES, val # {}
    PROVE  ~Old
<1>1. LINES \in Nat /\ V_SYNC_AT \in Nat /\ LINES < V_SYNC_AT /\ y \in Nat
  BY Sizes DEF TimedInv, RangeInv, TimeInv
<1> QED BY <1>1 DEF Old, TimedInv, RestartInv, Booting, InSync

-----------------------------------------------------------------------------
(* What is held is what memory held.                                       *)

Offs == 0..(VIS_WORDS - 1)

\* A word for line l, as good as PixelIsMemory asks.
Good(l, w, word) ==
    /\ word.line = l /\ word.off = w
    /\ l = watch /\ ~Old => word \in seen
    /\ l # watch => word = Holds(memory, l, w)
GoodNext(l, w, word) ==
    /\ word.line = l /\ word.off = w
    /\ l = watch /\ ~Old' => word \in seen'
    /\ l # watch => word = Holds(memory', l, w)

Unseen(l, w) == [line |-> l, off |-> w, visible |-> FALSE]
Stored(i, w) == IF i \in zero THEN Unseen(tag[i], w) ELSE buf[i][w]

StoreInv == \A i \in val, w \in Offs : Good(tag[i], w, Stored(i, w))
FillInv ==
    fst # "F_IDLE" =>
        \A w \in Offs : w < fill_pos =>
            /\ Good(fill_line, w, buf[fill_idx][w])
            /\ nz_acc \/ ~buf[fill_idx][w].visible
SnapInv ==
    /\ Watched(memory) \subseteq seen
    /\ fst = "F_DATA" =>
          /\ ~Old => Watched(snap) \subseteq seen
          /\ \A l, w : l # watch => Holds(snap, l, w) = Holds(memory, l, w)

\* A line whose flag is down while a mark is under way was seen as zeros.
Zeros == \A w \in Offs : Unseen(watch, w) \in seen
ZeroInv ==
    watch \notin flag =>
        /\ acked.visible => Zeros \/ (y = LINES /\ x = 1)
        /\ watch \in mark => Zeros \/ Old

HeldInv == StoreInv /\ FillInv /\ SnapInv /\ ZeroInv
PxInv == {"ack", "miss"} \subseteq DOMAIN px_out
FullInv == IInv /\ TimedInv(0) /\ HeldInv /\ PxInv /\ PixelIsMemory

LEMMA FullAtFirst == Init => FullInv
<1> SUFFICES ASSUME Init PROVE FullInv
  OBVIOUS
<1>1. IInv /\ TimedInv(0)
  BY Initially, TimedAtFirst
<1>2. StoreInv /\ FillInv /\ SnapInv
  BY DEF Init, Cache!Init, StoreInv, FillInv, SnapInv
<1>3. ZeroInv
  BY DEF Init, NoWrite, ZeroInv
<1>4. PxInv /\ PixelIsMemory
  BY DEF Init, Cache!Init, PxInv, PixelIsMemory
<1> QED BY <1>1, <1>2, <1>3, <1>4 DEF FullInv, HeldInv

\* The writes touch the line watched alone, and history keeps what they write.
LEMMA MemoryGoes ==
    ASSUME Around
    PROVE  /\ \A l, w : l # watch => Holds(memory', l, w) = Holds(memory, l, w)
           /\ Watched(memory') \subseteq seen'
           /\ ~(x = 0 /\ y = LINES) => seen \subseteq seen'
<1>1. ASSUME NEW l, NEW w, l # watch PROVE Holds(memory', l, w) = Holds(memory, l, w)
  <2>1. [line |-> l, off |-> w] \in memory' <=> [line |-> l, off |-> w] \in memory
    <3>1. CASE memory' = memory
      BY <3>1
    <3>2. ASSUME NEW v \in [line : {watch}, off : 0..(VIS_WORDS - 1), visible : BOOLEAN], Write(v)
          PROVE  [line |-> l, off |-> w] \in memory' <=> [line |-> l, off |-> w] \in memory
      <4>1. v.line # l
        BY <1>1
      <4>2. [line |-> l, off |-> w] # [line |-> v.line, off |-> v.off]
        BY <4>1
      <4> QED BY <3>2, <4>2 DEF Write
    <3> QED BY <3>1, <3>2 DEF Around, Rasterises
  <2> QED BY <2>1 DEF Holds
<1>2. Watched(memory') \subseteq seen'
  BY DEF Around
<1>3. ~(x = 0 /\ y = LINES) => seen \subseteq seen'
  BY DEF Around
<1> QED BY <1>1, <1>2, <1>3

LEMMA OldNow ==
    ASSUME TimedInv(0), Around, Goes, ~GoRestart, ~Old'
    PROVE  ~Old /\ ~(x = 0 /\ y = LINES)
<1>1. ~Old
  BY OldGoes, 0 \in Nat
<1>2. LINES \in Nat /\ V_SYNC_AT \in Nat /\ LINES < V_SYNC_AT
  BY Sizes
<1> QED BY <1>1, <1>2 DEF Old

LEMMA GoodGoes ==
    ASSUME TimedInv(0), Around, Goes, ~GoRestart, NEW l, NEW w, NEW word, Good(l, w, word)
    PROVE  GoodNext(l, w, word)
<1>1. l = watch /\ ~Old' => word \in seen'
  BY OldNow, MemoryGoes DEF Good
<1>2. l # watch => word = Holds(memory', l, w)
  BY MemoryGoes DEF Good
<1> QED BY <1>1, <1>2 DEF Good, GoodNext

\* With nothing visible in the line watched, it has been seen as zeros.
LEMMA NothingThere ==
    ASSUME SnapInv, \A r \in memory : r.line # watch
    PROVE  Zeros
<1> SUFFICES ASSUME NEW w \in Offs PROVE Unseen(watch, w) \in seen
  BY DEF Zeros
<1>1. Holds(memory, watch, w) \in Watched(memory)
  BY DEF Watched, Offs
<1>2. [line |-> watch, off |-> w] \notin memory /\ ~(w >= VIS_WORDS)
  BY Sizes DEF Offs
<1>3. Holds(memory, watch, w) = Unseen(watch, w)
  BY <1>2 DEF Holds, Unseen
<1> QED BY <1>1, <1>3 DEF SnapInv

\* A line published without a fetch.
LEMMA Published ==
    ASSUME FullInv, fill_line \notin flag, NEW w \in Offs
    PROVE  Good(fill_line, w, Unseen(fill_line, w))
<1> DEFINE word == Unseen(fill_line, w)
<1>1. word.line = fill_line /\ word.off = w
  BY DEF Unseen
<1>2. ASSUME fill_line = watch, ~Old PROVE word \in seen
  <2>1. CASE \A r \in memory : r.line # watch
    BY <1>2, <2>1, NothingThere DEF FullInv, HeldInv, Zeros
  <2>2. CASE \E r \in memory : r.line = watch
    <3>1. watch \in mark \/ acked.visible
      BY <1>2, <2>2 DEF FullInv, IInv, FlagCovers
    <3>2. ~(y = LINES /\ x = 1)
      <4>1. LINES \in Nat /\ V_SYNC_AT \in Nat /\ LINES < V_SYNC_AT
        BY Sizes
      <4> QED BY <1>2, <4>1 DEF Old
    <3>3. Zeros
      BY <1>2, <3>1, <3>2 DEF FullInv, HeldInv, ZeroInv
    <3> QED BY <1>2, <3>3 DEF Zeros
  <2> QED BY <2>1, <2>2
<1>3. ASSUME fill_line # watch PROVE word = Holds(memory, fill_line, w)
  <2>1. [line |-> fill_line, off |-> w] \notin memory
    <3> DEFINE r == [line |-> fill_line, off |-> w]
    <3> SUFFICES ASSUME r \in memory PROVE FALSE
      OBVIOUS
    <3>1. fill_line \in mark \/ (acked.visible /\ acked.line = fill_line)
      BY DEF FullInv, IInv, FlagCovers
    <3> QED BY <1>3, <3>1 DEF FullInv, TimedInv, RangeInv
  <2>2. ~(w >= VIS_WORDS)
    BY Sizes DEF Offs
  <2> QED BY <2>1, <2>2 DEF Holds, Unseen
<1> QED BY <1>1, <1>2, <1>3 DEF Good

\* A word fetched.
LEMMA FetchedWord ==
    ASSUME FullInv, NEW word, Takes(word), fill_pos \in Offs
    PROVE  Good(fill_line, fill_pos, word)
<1>1. fst = "F_DATA"
  BY DEF Takes
<1>2. PICK m \in {snap, memory} : word = Holds(m, fill_line, fill_pos)
  BY DEF Takes
<1>3. word.line = fill_line /\ word.off = fill_pos
  BY <1>2 DEF Holds
<1>4. fill_line = watch /\ ~Old => word \in seen
  <2>1. fill_line = watch => word \in Watched(m)
    BY <1>2 DEF Watched, Offs
  <2> QED BY <1>1, <1>2, <2>1 DEF FullInv, HeldInv, SnapInv
<1>5. fill_line # watch => word = Holds(memory, fill_line, fill_pos)
  BY <1>1, <1>2 DEF FullInv, HeldInv, SnapInv
<1> QED BY <1>3, <1>4, <1>5 DEF Good

\* How a word goes into a buffer.
LEMMA Puts ==
    ASSUME KindInv, RangeInv, NEW word, Takes(word)
    PROVE  /\ fill_pos \in 0..(LINE_WORDS - 1) /\ fill_idx \in 0..3
           /\ \A i \in 0..3 : i # fill_idx => buf'[i] = buf[i]
           /\ \A w \in Offs : buf'[fill_idx][w] = IF w = fill_pos THEN word ELSE buf[fill_idx][w]
<1>1. fill_pos \in 0..(LINE_WORDS - 1) /\ fill_idx \in 0..3
  BY Sizes DEF KindInv, RangeInv, Takes
<1>2. buf \in [0..3 -> [0..(LINE_WORDS - 1) -> Word]] /\ buf' = [buf EXCEPT ![fill_idx][fill_pos] = word]
  BY DEF RangeInv, Takes
<1>3. \A w \in Offs : w \in 0..(LINE_WORDS - 1)
  BY Sizes DEF Offs
<1> QED BY <1>1, <1>2, <1>3

\* All of a line's words once its last has come.
LEMMA Whole ==
    ASSUME FullInv, NEW word, Takes(word), Ends, NEW w \in Offs
    PROVE  Good(fill_line, w, buf'[fill_idx][w])
<1>1. KindInv /\ RangeInv /\ fst = "F_DATA"
  BY DEF FullInv, TimedInv, Takes
<1>2. buf'[fill_idx][w] = IF w = fill_pos THEN word ELSE buf[fill_idx][w]
  BY <1>1, Puts
<1>3. CASE w = fill_pos
  BY <1>2, <1>3, FetchedWord
<1>4. CASE w # fill_pos
  <2>1. w < fill_pos
    BY <1>1, <1>4, Sizes DEF Offs, Ends, KindInv
  <2> QED BY <1>1, <1>2, <1>4, <2>1 DEF FullInv, HeldInv, FillInv
<1> QED BY <1>3, <1>4

LEMMA StoreStep ==
    ASSUME FullInv, Around, Goes
    PROVE  StoreInv'
<1>1. /\ KindInv /\ RangeInv /\ TimedInv(0) /\ val \subseteq 0..3 /\ tag \in [0..3 -> Nat] /\ fill_idx \in 0..3
      /\ watch' = watch
  BY DEF FullInv, TimedInv, RangeInv, Around
<1>2. CASE GoRestart
  BY <1>2 DEF GoRestart, StoreInv
<1>3. CASE ~GoRestart
  <2> SUFFICES ASSUME NEW i \in val', NEW w \in Offs
               PROVE  GoodNext(tag'[i], w, IF i \in zero' THEN Unseen(tag'[i], w) ELSE buf'[i][w])
    BY <1>1 DEF StoreInv, Stored, Good, GoodNext, Old, Holds, Unseen
  <2>1. ASSUME i \in val, tag'[i] = tag[i], buf'[i] = buf[i], i \in zero' <=> i \in zero
        PROVE  GoodNext(tag'[i], w, IF i \in zero' THEN Unseen(tag'[i], w) ELSE buf'[i][w])
    <3>1. Good(tag[i], w, Stored(i, w))
      BY <2>1 DEF FullInv, HeldInv, StoreInv
    <3>2. GoodNext(tag[i], w, Stored(i, w))
      BY <1>1, <1>3, <3>1, GoodGoes
    <3> QED BY <2>1, <3>2 DEF Stored
  <2>2. CASE GoPublish
    <3>1. CASE i = fill_idx
      <4>1. tag'[i] = fill_line /\ i \in zero'
        BY <1>1, <2>2, <3>1 DEF GoPublish
      <4>2. Good(fill_line, w, Unseen(fill_line, w))
        BY <2>2, Published DEF GoPublish
      <4>3. GoodNext(fill_line, w, Unseen(fill_line, w))
        BY <1>1, <1>3, <4>2, GoodGoes
      <4> QED BY <4>1, <4>3
    <3>2. CASE i # fill_idx
      BY <1>1, <2>1, <2>2, <3>2 DEF GoPublish
    <3> QED BY <3>1, <3>2
  <2>3. CASE GoStart
    BY <1>1, <2>1, <2>3 DEF GoStart
  <2>4. CASE GoRest \/ GoAsk \/ GoWait
    BY <1>1, <2>1, <2>4 DEF GoRest, GoAsk, GoWait
  <2>5. ASSUME NEW word, GoTake(word)
        PROVE  GoodNext(tag'[i], w, IF i \in zero' THEN Unseen(tag'[i], w) ELSE buf'[i][w])
    <3>1. fill_idx \notin val /\ val' = val /\ tag' = tag /\ zero' = zero
      BY <2>5 DEF GoTake, Takes, FullInv, TimedInv, RangeInv
    <3>2. buf'[i] = buf[i]
      BY <1>1, <2>5, <3>1, Puts DEF GoTake
    <3> QED BY <2>1, <3>1, <3>2
  <2>6. ASSUME NEW word, GoEnd(word)
        PROVE  GoodNext(tag'[i], w, IF i \in zero' THEN Unseen(tag'[i], w) ELSE buf'[i][w])
    <3>1. /\ fill_idx \notin val /\ fill_idx \notin zero /\ val' = val \union {fill_idx}
          /\ tag' = [tag EXCEPT ![fill_idx] = fill_line] /\ zero' = zero
      BY <2>6 DEF GoEnd, Takes, FullInv, TimedInv, RangeInv
    <3>2. CASE i = fill_idx
      <4>1. tag'[i] = fill_line /\ i \notin zero'
        BY <1>1, <3>1, <3>2
      <4>2. Good(fill_line, w, buf'[fill_idx][w])
        BY <2>6, Whole DEF GoEnd
      <4>3. GoodNext(fill_line, w, buf'[fill_idx][w])
        BY <1>1, <1>3, <4>2, GoodGoes
      <4> QED BY <3>2, <4>1, <4>3
    <3>3. CASE i # fill_idx
      <4>1. buf'[i] = buf[i]
        BY <1>1, <2>6, <3>1, <3>3, Puts DEF GoEnd
      <4> QED BY <1>1, <2>1, <3>1, <3>3, <4>1
    <3> QED BY <3>2, <3>3
  <2> QED BY <1>3, <2>2, <2>3, <2>4, <2>5, <2>6 DEF Goes
<1> QED BY <1>2, <1>3

LEMMA FillStep ==
    ASSUME FullInv, Around, Goes
    PROVE  FillInv'
<1>1. /\ KindInv /\ RangeInv /\ TimedInv(0) /\ fill_pos \in Nat /\ watch' = watch
  BY DEF FullInv, TimedInv, KindInv, Around
<1> SUFFICES ASSUME fst' # "F_IDLE", NEW w \in Offs, w < fill_pos'
             PROVE  /\ GoodNext(fill_line', w, buf'[fill_idx'][w])
                    /\ nz_acc' \/ ~buf'[fill_idx'][w].visible
  BY <1>1 DEF FillInv, Good, GoodNext, Old, Holds
<1>2. ~GoRestart
  BY DEF GoRestart
<1>3. CASE GoStart
  BY <1>3 DEF GoStart, Offs
<1>4. CASE GoAsk \/ GoWait
  <2>1. fst # "F_IDLE" /\ fill_pos' = fill_pos
        /\ fill_line' = fill_line /\ buf' = buf /\ fill_idx' = fill_idx /\ nz_acc' = nz_acc
    BY <1>4 DEF GoAsk, GoWait
  <2>2. Good(fill_line, w, buf[fill_idx][w]) /\ (nz_acc \/ ~buf[fill_idx][w].visible)
    BY <2>1 DEF FullInv, HeldInv, FillInv
  <2>3. GoodNext(fill_line, w, buf[fill_idx][w])
    BY <1>1, <1>2, <2>2, GoodGoes
  <2> QED BY <2>1, <2>2, <2>3
<1>5. ASSUME NEW word, GoTake(word)
      PROVE  /\ GoodNext(fill_line', w, buf'[fill_idx'][w])
             /\ nz_acc' \/ ~buf'[fill_idx'][w].visible
  <2>1. /\ fst # "F_IDLE" /\ fill_pos' = fill_pos + 1 /\ fill_line' = fill_line /\ fill_idx' = fill_idx
        /\ nz_acc' <=> nz_acc \/ (word.visible /\ fill_pos < VIS_WORDS)
    BY <1>5 DEF GoTake, Takes
  <2>2. Takes(word)
    BY <1>5 DEF GoTake
  <2>3. buf'[fill_idx][w] = IF w = fill_pos THEN word ELSE buf[fill_idx][w]
    BY <1>1, <2>2, Puts
  <2>4. CASE w = fill_pos
    <3>1. Good(fill_line, w, word)
      BY <2>2, <2>4, FetchedWord
    <3>2. GoodNext(fill_line, w, word)
      BY <1>1, <1>2, <3>1, GoodGoes
    <3>3. w < VIS_WORDS
      BY Sizes DEF Offs
    <3> QED BY <2>1, <2>2, <2>3, <2>4, <3>2, <3>3
  <2>5. CASE w # fill_pos
    <3>1. w < fill_pos
      BY <1>1, <2>1, <2>5 DEF Offs
    <3>2. Good(fill_line, w, buf[fill_idx][w]) /\ (nz_acc \/ ~buf[fill_idx][w].visible)
      BY <2>1, <3>1 DEF FullInv, HeldInv, FillInv
    <3>3. GoodNext(fill_line, w, buf[fill_idx][w])
      BY <1>1, <1>2, <3>2, GoodGoes
    <3> QED BY <2>1, <2>2, <2>3, <2>5, <3>2, <3>3
  <2> QED BY <2>4, <2>5
<1>6. ~GoPublish /\ ~GoRest /\ ~\E word : GoEnd(word)
  BY DEF GoPublish, GoRest, GoEnd
<1> QED BY <1>2, <1>3, <1>4, <1>5, <1>6 DEF Goes

LEMMA SnapStep ==
    ASSUME FullInv, Around, Goes
    PROVE  SnapInv'
<1>1. watch' = watch /\ TimedInv(0)
  BY DEF FullInv, Around
<1>2. Watched(memory') \subseteq seen'
  BY MemoryGoes
<1>3. ASSUME fst' = "F_DATA"
      PROVE  /\ ~Old' => Watched(snap') \subseteq seen'
             /\ \A l, w : l # watch => Holds(snap', l, w) = Holds(memory', l, w)
  <2>1. ~GoRestart /\ ~GoPublish /\ ~GoStart /\ ~GoRest /\ ~\E word : GoEnd(word)
    BY <1>3 DEF GoRestart, GoPublish, GoStart, GoRest, GoEnd
  <2>2. snap' = memory \/ (snap' = snap /\ fst = "F_DATA")
    BY <1>3, <2>1 DEF Goes, GoAsk, GoWait, GoTake, Takes
  <2>3. ~Old' => ~Old /\ seen \subseteq seen'
    BY <1>1, <2>1, OldNow, MemoryGoes
  <2>4. \A l, w : l # watch => Holds(memory', l, w) = Holds(memory, l, w)
    BY MemoryGoes
  <2>5. CASE snap' = memory
    <3>1. Watched(snap') = Watched(memory)
      BY <2>5 DEF Watched
    <3> QED BY <2>3, <2>4, <2>5, <3>1 DEF FullInv, HeldInv, SnapInv
  <2>6. CASE snap' = snap /\ fst = "F_DATA"
    <3>1. Watched(snap') = Watched(snap)
      BY <2>6 DEF Watched
    <3> QED BY <2>3, <2>4, <2>6, <3>1 DEF FullInv, HeldInv, SnapInv
  <2> QED BY <2>2, <2>5, <2>6
<1> QED BY <1>1, <1>2, <1>3 DEF SnapInv, Watched, Holds

\* A flag is dropped at the end of a line of zeros: of the line watched, they
\* are what has been seen, and unless a mark is under way there is nothing else.
LEMMA Dropped ==
    ASSUME FullInv, Around, Goes, NEW word, GoEnd(word), fill_line = watch, ~nz_acc', ~marked_during
    PROVE  /\ ~Old => Zeros
           /\ ~Coming(watch) => \A r \in memory : r.line # watch
<1>1. /\ KindInv /\ RangeInv /\ RangeInv' /\ Takes(word) /\ Ends /\ fst = "F_DATA"
      /\ watch \in Nat /\ fill_pos \in Nat
  BY RangeStep DEF FullInv, TimedInv, GoEnd, Takes, KindInv
<1>2. ~nz_acc /\ ~(word.visible /\ fill_pos < VIS_WORDS)
  BY <1>1 DEF Takes
<1>3. ASSUME ~Old PROVE Zeros
  <2> SUFFICES ASSUME NEW w \in Offs PROVE Unseen(watch, w) \in seen
    BY DEF Zeros
  <2> DEFINE word_w == buf'[fill_idx][w]
  <2>1. Good(watch, w, word_w)
    BY <1>1, Whole
  <2>2. word_w = IF w = fill_pos THEN word ELSE buf[fill_idx][w]
    BY <1>1, Puts
  <2>3. ~word_w.visible
    <3>1. CASE w = fill_pos
      <4>1. fill_pos < VIS_WORDS
        BY <3>1, Sizes DEF Offs
      <4> QED BY <1>2, <2>2, <3>1, <4>1
    <3>2. CASE w # fill_pos
      <4>1. w < fill_pos
        BY <1>1, <3>2, Sizes DEF Offs, Ends
      <4>2. nz_acc \/ ~buf[fill_idx][w].visible
        BY <1>1, <4>1 DEF FullInv, HeldInv, FillInv
      <4> QED BY <1>2, <2>2, <3>2, <4>2
    <3> QED BY <3>1, <3>2
  <2>4. word_w \in Word
    <3>1. w \in 0..(LINE_WORDS - 1) /\ fill_idx \in 0..3
      BY <1>1, Sizes DEF Offs, RangeInv
    <3>2. buf' \in [0..3 -> [0..(LINE_WORDS - 1) -> Word]]
      BY <1>1 DEF RangeInv, Word
    <3> QED BY <3>1, <3>2
  <2> HIDE DEF word_w
  <2>5. word_w = Unseen(watch, w)
    BY <2>1, <2>3, <2>4 DEF Good, Word, Unseen
  <2> QED BY <1>3, <2>1, <2>5 DEF Good
<1>4. ASSUME ~Coming(watch), NEW r \in memory, r.line = watch PROVE FALSE
  <2>1. r.off \in Nat /\ r.off < VIS_WORDS /\ r = [line |-> watch, off |-> r.off]
    BY <1>1, <1>4, Sizes DEF KindInv, Words
  <2>2. r.off >= fill_pos /\ r \in snap
    BY <1>1, <1>2, <1>4 DEF FullInv, IInv, FetchedInv, BurstInv
  <2>3. r.off = fill_pos
    BY <1>1, <2>1, <2>2, Sizes DEF Ends
  <2>4. word = Holds(snap, watch, fill_pos) \/ word = Holds(memory, watch, fill_pos)
    BY <1>1 DEF Takes
  <2>5. [line |-> watch, off |-> fill_pos] \in memory /\ [line |-> watch, off |-> fill_pos] \in snap
    BY <1>4, <2>1, <2>2, <2>3
  <2>6. word.visible
    <3>1. Holds(snap, watch, fill_pos).visible /\ Holds(memory, watch, fill_pos).visible
      BY <2>5 DEF Holds
    <3> QED BY <2>4, <3>1
  <2> QED BY <1>2, <2>1, <2>3, <2>6
<1> QED BY <1>3, <1>4

LEMMA ZeroStep ==
    ASSUME FullInv, Around, Goes
    PROVE  ZeroInv'
<1>1. watch' = watch /\ TimedInv(0) /\ RangeInv /\ SnapInv /\ TimeInv
  BY DEF FullInv, TimedInv, HeldInv, RangeInv, Around
<1>a. /\ LINES \in Nat /\ V_SYNC_AT \in Nat /\ LINES < V_SYNC_AT
      /\ V_TOTAL \in Nat /\ V_SYNC_AT < V_TOTAL
      /\ H_TOTAL \in Nat \ {0, 1} /\ x \in Nat /\ y \in Nat
  BY <1>1, Sizes DEF TimeInv
<1>2. \/ x < H_TOTAL - 1 /\ x' = x + 1 /\ y' = y
      \/ x = H_TOTAL - 1 /\ x' = 0 /\ y' = y + 1
      \/ x = H_TOTAL - 1 /\ x' = 0 /\ y = V_TOTAL - 1 /\ y' = 0
  BY <1>1, TimeGoes DEF RangeInv, Around
<1>3. \A w \in Offs : Unseen(watch, w)' = Unseen(watch, w)
  BY <1>1 DEF Unseen
<1>4. Zeros => Zeros' \/ (x = 0 /\ y = LINES)
  BY <1>1, <1>3, MemoryGoes DEF Zeros, Unseen
<1>5. x = 0 /\ y = LINES => x' = 1 /\ y' = LINES /\ Old'
  BY <1>a, <1>2 DEF Old
<1>6. y = LINES /\ x = 1 => Old'
  BY <1>a, <1>2 DEF Old
<1> SUFFICES ASSUME watch \notin flag'
             PROVE  /\ acked'.visible => Zeros' \/ (y' = LINES /\ x' = 1)
                    /\ watch \in mark' => Zeros' \/ Old'
  BY <1>1 DEF ZeroInv
\* The flag was down, or goes down at the end of the line.
<1>7. \/ watch \notin flag
      \/ \E word : GoEnd(word) /\ fill_line = watch /\ ~nz_acc' /\ ~marked_during
  BY DEF Goes, GoRestart, GoPublish, GoStart, GoRest, GoAsk, GoWait, GoTake, GoEnd, Going
<1>8. watch \notin mark
  BY DEF Goes, GoRestart, GoPublish, GoStart, GoRest, GoAsk, GoWait, GoTake, GoEnd, Going
<1>9. ASSUME acked'.visible PROVE Zeros' \/ (y' = LINES /\ x' = 1)
  <2>1. ~acked.visible
    BY <1>9 DEF Around, Rasterises, NoWrite
  <2>2. ~Coming(watch)
    BY <1>8, <2>1 DEF Coming
  <2>3. \A r \in memory : r.line # watch
    <3>1. CASE watch \notin flag
      BY <1>8, <2>1, <3>1 DEF FullInv, IInv, FlagCovers
    <3>2. ASSUME NEW word, GoEnd(word), fill_line = watch, ~nz_acc', ~marked_during
          PROVE  \A r \in memory : r.line # watch
      BY <2>2, <3>2, Dropped
    <3> QED BY <1>7, <3>1, <3>2
  <2>4. Zeros
    BY <1>1, <2>3, NothingThere
  <2> QED BY <1>4, <1>5, <2>4
<1>10. ASSUME watch \in mark' PROVE Zeros' \/ Old'
  <2>1. acked.visible
    BY <1>10 DEF Around, Rasterises
  <2>2. CASE watch \notin flag
    <3>1. Zeros \/ (y = LINES /\ x = 1)
      BY <2>1, <2>2 DEF FullInv, HeldInv, ZeroInv
    <3> QED BY <1>4, <1>5, <1>6, <3>1
  <2>3. ASSUME NEW word, GoEnd(word), fill_line = watch, ~nz_acc', ~marked_during
        PROVE  Zeros' \/ Old'
    <3>1. ~Old => Zeros
      BY <2>3, Dropped
    <3>2. ~GoRestart
      BY <2>3 DEF GoEnd, GoRestart, Takes
    <3>3. ~Old' => ~Old
      BY <1>1, <3>2, OldNow
    <3> QED BY <1>4, <1>5, <3>1, <3>3
  <2> QED BY <1>7, <2>2, <2>3
<1> QED BY <1>9, <1>10

-----------------------------------------------------------------------------
(* The pixel.                                                              *)

LEMMA Greatest ==
    ASSUME NEW S, S \subseteq 0..3, S # {}
    PROVE  \E i \in S : \A j \in S : j <= i
<1>0. PICK e : e \in S
  OBVIOUS
<1>1. CASE 3 \in S
  BY <1>1
<1>2. CASE 3 \notin S /\ 2 \in S
  BY <1>2
<1>3. CASE 3 \notin S /\ 2 \notin S /\ 1 \in S
  BY <1>3
<1>4. CASE 3 \notin S /\ 2 \notin S /\ 1 \notin S
  <2>1. \A j \in S : j = 0
    BY <1>4
  <2> QED BY <1>0, <2>1
<1> QED BY <1>1, <1>2, <1>3, <1>4

LEMMA HitIs ==
    ASSUME val \subseteq 0..3, Hits # {}
    PROVE  Hit \in val /\ tag[Hit] = y
<1>1. \E i \in Hits : \A j \in Hits : j <= i
  BY Greatest DEF Hits
<1>2. Hit = CHOOSE i \in Hits : \A j \in Hits : j <= i
  BY DEF Hit
<1>3. Hit \in Hits
  BY <1>1, <1>2
<1> QED BY <1>3 DEF Hits

LEMMA PixelStep ==
    ASSUME FullInv, Around, Goes
    PROVE  PxInv' /\ PixelIsMemory'
<1>a. watch' = watch /\ TimedInv(0) /\ val \subseteq 0..3 /\ TimeInv
  BY DEF FullInv, TimedInv, RangeInv, Around
<1>1. /\ watch' = watch /\ TimedInv(0) /\ val \subseteq 0..3
      /\ LINES \in Nat /\ V_SYNC_AT \in Nat /\ LINES < V_SYNC_AT /\ x \in Nat /\ y \in Nat
  BY <1>a, Sizes DEF TimeInv
<1>2. CASE Shown
  <2>1. /\ px_out'.ack = TRUE /\ px_out'.miss = (Hits = {}) /\ px_out'.read = [line |-> y, off |-> x]
        /\ px_out'.word = (IF Hit \in zero THEN [line |-> y, off |-> x, visible |-> FALSE] ELSE buf[Hit][x])
        /\ DOMAIN px_out' = {"ack", "miss", "read", "word"}
    BY <1>2 DEF Around, ReadOut
  <2>2. ASSUME Hits # {}
        PROVE  /\ px_out'.word.line = y /\ px_out'.word.off = x
               /\ px_out'.word \in IF y = watch THEN seen' ELSE {Holds(memory', y, x)}
    <3>1. Hit \in val /\ tag[Hit] = y
      BY <1>1, <2>2, HitIs
    <3>2. x \in Offs
      BY <1>1, <1>2, Sizes DEF Shown, Offs
    <3>3. px_out'.word = Stored(Hit, x)
      BY <2>1, <3>1 DEF Stored, Unseen
    <3>4. Good(y, x, px_out'.word)
      BY <3>1, <3>2, <3>3 DEF FullInv, HeldInv, StoreInv
    <3>5. ~Old
      BY <1>1, <1>2, <3>1, NotOld, 0 \in Nat DEF Shown
    <3>6. seen \subseteq seen'
      BY <1>1, <1>2, MemoryGoes DEF Shown
    <3>7. y # watch => Holds(memory', y, x) = Holds(memory, y, x)
      BY MemoryGoes
    <3> QED BY <3>4, <3>5, <3>6, <3>7 DEF Good
  <2>3. PxInv'
    BY <2>1 DEF PxInv
  <2>4. px_out'.read.line = y /\ px_out'.read.off = x
    BY <2>1
  <2>5. PixelIsMemory'
    BY <1>1, <2>1, <2>2, <2>4 DEF PixelIsMemory, Holds
  <2> QED BY <2>3, <2>5
<1>3. CASE ~Shown
  <2>1. px_out' = [px_out EXCEPT !.ack = FALSE, !.miss = FALSE]
    BY <1>3 DEF Around
  <2>2. DOMAIN px_out' = DOMAIN px_out /\ px_out'.ack = FALSE
    BY <2>1 DEF FullInv, PxInv
  <2> QED BY <2>2 DEF FullInv, PxInv, PixelIsMemory
<1> QED BY <1>2, <1>3

LEMMA FullStep ==
    ASSUME FetchesInBlank, FullInv, [Clock]_vars
    PROVE  FullInv'
<1>1. CASE UNCHANGED vars
  <2>1. IInv'
    BY <1>1, Inductive DEF FullInv
  <2>2. TimedInv(0)'
    BY <1>1, TimedStutter, 0 \in Nat DEF FullInv
  <2>3. HeldInv'
    <3>1. StoreInv'
      BY <1>1 DEF vars, Cache!cacheVars, FullInv, HeldInv, StoreInv, Good, Stored, Unseen, Old, Holds
    <3>2. FillInv'
      BY <1>1 DEF vars, Cache!cacheVars, FullInv, HeldInv, FillInv, Good, Old, Holds
    <3>3. SnapInv'
      BY <1>1 DEF vars, Cache!cacheVars, FullInv, HeldInv, SnapInv, Old, Watched, Holds
    <3>4. ZeroInv'
      BY <1>1 DEF vars, Cache!cacheVars, FullInv, HeldInv, ZeroInv, Zeros, Unseen, Old
    <3> QED BY <3>1, <3>2, <3>3, <3>4 DEF HeldInv
  <2>4. PxInv' /\ PixelIsMemory'
    BY <1>1 DEF vars, Cache!cacheVars, FullInv, PxInv, PixelIsMemory, Holds
  <2> QED BY <2>1, <2>2, <2>3, <2>4 DEF FullInv
<1>2. CASE Clock
  <2>1. IInv' /\ KindInv /\ KindInv'
    BY <1>2, Inductive DEF FullInv, IInv
  <2>2. Around /\ Goes
    BY <1>2, <2>1, ClockGoes
  <2>3. LineTime + 2 + 0 <= Blank
    BY Times DEF FetchesInBlank, Blank
  <2>4. TimedInv(0)'
    BY <2>1, <2>2, <2>3, TimedStep, 0 \in Nat DEF FullInv
  <2>5. HeldInv'
    BY <2>2, StoreStep, FillStep, SnapStep, ZeroStep DEF HeldInv
  <2>6. PxInv' /\ PixelIsMemory'
    BY <2>2, PixelStep
  <2> QED BY <2>1, <2>4, <2>5, <2>6 DEF FullInv
<1> QED BY <1>1, <1>2

\* With a bridge fast enough to fetch a line between vertical sync and the first
\* line, a pixel that is not a miss is the word asked for.
THEOREM PixelsAreMemory == ASSUME FetchesInBlank PROVE Spec => []PixelIsMemory
<1>1. Init => FullInv
  BY FullAtFirst
<1>2. FullInv /\ [Clock]_vars => FullInv'
  BY FullStep
<1>3. FullInv => PixelIsMemory
  BY DEF FullInv
<1> QED BY <1>1, <1>2, <1>3, PTL DEF Spec

-----------------------------------------------------------------------------
(* The fill is ahead of the display.                                       *)

\* To(l), for any place of VC2's counters.
ToAt(l, a, b) ==
    IF b >= V_SYNC_AT THEN (V_TOTAL - b + l) * H_TOTAL - a ELSE (l - b) * H_TOTAL - a

LEMMA ToNext ==
    ASSUME TimeInv, Vc2, NEW l \in Nat
    PROVE  /\ ToAt(l, x, y) \in Int /\ ToAt(l + 1, x, y) = ToAt(l, x, y) + H_TOTAL
           /\ ToAt(l, x', y') \in Int
           /\ y < LINES \/ y >= V_SYNC_AT => ToAt(l, x', y') = ToAt(l, x, y) - 1
           /\ y >= V_SYNC_AT => ToAt(0, x, y) = Clocks
           /\ y < LINES => ToAt(y, x, y) = -x
<1>1. y < V_TOTAL /\ y \in Nat /\ x \in Nat /\ LINES \in Nat /\ V_SYNC_AT \in Nat /\ LINES < V_SYNC_AT
      /\ V_TOTAL \in Nat /\ H_TOTAL \in Nat
  BY Sizes DEF TimeInv
<1>2. /\ To(l) \in Int /\ To(l)' \in Int /\ To(l + 1) = To(l) + H_TOTAL
      /\ y < LINES \/ (y >= V_SYNC_AT /\ y < V_TOTAL) => To(l)' = To(l) - 1
  BY ToGoes
<1>3. y >= V_SYNC_AT => To(0) = Clocks
  <2>1. y >= V_SYNC_AT => To(0) = Clocks + 0 * H_TOTAL /\ 0 * H_TOTAL = 0
    BY ToGoes, 0 \in Nat
  <2>2. Clocks \in Nat
    BY ClocksGo
  <2> QED BY <2>1, <2>2
<1>4. y < LINES => ToAt(y, x, y) = -x
  <2>1. (y - y) * H_TOTAL = 0
    BY <1>1
  <2> QED BY <1>1, <2>1 DEF ToAt
<1> QED BY <1>1, <1>2, <1>3, <1>4 DEF To, ToAt

LEMMA Ring ==
    /\ \A n \in Nat : n % 4 \in 0..3 /\ ((n % 4) + 1) % 4 = (n + 1) % 4
    /\ \A l, n \in Nat : l < n /\ n < l + 4 => l % 4 # n % 4
  OBVIOUS

ColdInv == y = V_SYNC_AT /\ x > 0 => ~cold
Running == ~cold /\ ~restart /\ (y < LINES \/ InSync)
Room == fill_line < disp_line + 4
PaceInv ==
    Running =>
        /\ fill_idx = fill_line % 4
        /\ fill_line <= disp_line + 4 /\ fill_line <= LINES
        /\ disp_line = IF y >= V_SYNC_AT THEN 0 ELSE IF x = 0 /\ y > 0 THEN y - 1 ELSE y
        /\ fst # "F_IDLE" => Rem <= ToAt(fill_line, x, y) /\ Room
        /\ fst = "F_IDLE" /\ Room /\ fill_line < LINES => LineTime + 1 <= ToAt(fill_line, x, y)
        /\ \A l \in Nat : disp_line <= l /\ l < fill_line => l % 4 \in val /\ tag[l % 4] = l

PacedInv == TimedInv(LineTime + 1) /\ ColdInv /\ PaceInv /\ PxInv /\ NoMissAfterFirst

LEMMA PacedAtFirst == Init => PacedInv
<1> SUFFICES ASSUME Init PROVE PacedInv
  OBVIOUS
<1>1. TimedInv(LineTime + 1)
  <2>1. LineTime + 1 \in Nat
    BY Times
  <2> QED BY <2>1, TimedAtFirst
<1>2. ColdInv /\ PaceInv
  BY DEF Init, ColdInv, PaceInv, Running
<1>3. PxInv /\ NoMissAfterFirst
  BY DEF Init, Cache!Init, PxInv, NoMissAfterFirst
<1> QED BY <1>1, <1>2, <1>3 DEF PacedInv

\* What KeepsUp says, without its products.
Fast == LineTime \in Nat \ {0} /\ LineTime + 1 <= H_TOTAL

LEMMA Positions ==
    ASSUME PacedInv, Around
    PROVE  /\ LINES \in Nat /\ V_SYNC_AT \in Nat /\ LINES < V_SYNC_AT
           /\ V_TOTAL \in Nat /\ V_SYNC_AT < V_TOTAL
           /\ H_TOTAL \in Nat \ {0, 1} /\ VIS_WORDS \in Nat \ {0} /\ VIS_WORDS < H_TOTAL
           /\ x \in 0..(H_TOTAL - 1) /\ y \in 0..(V_TOTAL - 1) /\ x' \in Nat /\ y' \in Nat
           /\ \/ x < H_TOTAL - 1 /\ x' = x + 1 /\ y' = y
              \/ x = H_TOTAL - 1 /\ x' = 0 /\ y < V_TOTAL - 1 /\ y' = y + 1
              \/ x = H_TOTAL - 1 /\ x' = 0 /\ y = V_TOTAL - 1 /\ y' = 0
           /\ fill_line \in Nat
           /\ TimeInv /\ Vc2 /\ KindInv /\ RangeInv
<1>1. TimeInv /\ Vc2 /\ KindInv /\ RangeInv /\ fill_line \in Nat
  BY DEF PacedInv, TimedInv, RangeInv, KindInv, Around
<1>2. /\ LINES \in Nat /\ V_SYNC_AT \in Nat /\ LINES < V_SYNC_AT
      /\ V_TOTAL \in Nat /\ V_SYNC_AT < V_TOTAL
      /\ H_TOTAL \in Nat \ {0, 1} /\ VIS_WORDS \in Nat \ {0} /\ VIS_WORDS < H_TOTAL
  BY Sizes
<1>3. x \in 0..(H_TOTAL - 1) /\ y \in 0..(V_TOTAL - 1)
  BY <1>1 DEF TimeInv
<1>4. \/ x < H_TOTAL - 1 /\ x' = x + 1 /\ y' = y
      \/ x = H_TOTAL - 1 /\ x' = 0 /\ y < V_TOTAL - 1 /\ y' = y + 1
      \/ x = H_TOTAL - 1 /\ x' = 0 /\ y = V_TOTAL - 1 /\ y' = 0
  BY <1>1, TimeGoes
<1>5. x' \in Nat /\ y' \in Nat
  BY <1>2, <1>3, <1>4
<1> QED BY <1>1, <1>2, <1>3, <1>4, <1>5

\* The frame is under way already, or the engine restarts in this clock.
LEMMA Ran ==
    ASSUME PacedInv, Around, Goes, ~GoRestart, Running'
    PROVE  /\ Running
           /\ y' >= V_SYNC_AT => y >= V_SYNC_AT
<1>1. /\ LINES \in Nat /\ V_SYNC_AT \in Nat /\ LINES < V_SYNC_AT
      /\ V_TOTAL \in Nat /\ V_SYNC_AT < V_TOTAL /\ H_TOTAL \in Nat \ {0, 1}
      /\ x \in 0..(H_TOTAL - 1) /\ y \in 0..(V_TOTAL - 1)
      /\ \/ x < H_TOTAL - 1 /\ x' = x + 1 /\ y' = y
         \/ x = H_TOTAL - 1 /\ x' = 0 /\ y < V_TOTAL - 1 /\ y' = y + 1
         \/ x = H_TOTAL - 1 /\ x' = 0 /\ y = V_TOTAL - 1 /\ y' = 0
  BY Positions
<1>2. ~restart /\ ~(y = V_SYNC_AT /\ ~vs_d)
  BY RestartGoes DEF Running
<1>3. ~(y = V_SYNC_AT /\ x = 0)
  BY <1>1, <1>2 DEF PacedInv, TimedInv, VsInv
<1>4. y' < LINES \/ (y' >= V_SYNC_AT /\ ~(y' = V_SYNC_AT /\ x' = 0))
  BY DEF Running, InSync
<1>5. (y < LINES \/ InSync) /\ (y' >= V_SYNC_AT => y >= V_SYNC_AT)
  BY <1>1, <1>3, <1>4 DEF InSync
<1>6. ~cold
  <2>1. cold' = (cold /\ y # V_SYNC_AT)
    BY DEF Around, Vc2
  <2>2. y = V_SYNC_AT /\ x > 0 => ~cold
    BY DEF PacedInv, ColdInv
  <2>3. ~cold'
    BY DEF Running
  <2>4. y = V_SYNC_AT => x > 0
    BY <1>1, <1>3
  <2> QED BY <2>1, <2>2, <2>3, <2>4
<1> QED BY <1>2, <1>5, <1>6 DEF Running

\* The first clock of the fill in a frame.
LEMMA PaceAtRestart ==
    ASSUME PacedInv, Around, GoRestart, ~cold'
    PROVE  PaceInv'
<1>1. /\ V_SYNC_AT \in Nat /\ y \in Nat /\ x \in Nat /\ V_TOTAL \in Nat
      /\ TimeInv /\ Vc2
      /\ \/ x < H_TOTAL - 1 /\ x' = x + 1 /\ y' = y
         \/ x = H_TOTAL - 1 /\ x' = 0 /\ y < V_TOTAL - 1 /\ y' = y + 1
         \/ x = H_TOTAL - 1 /\ x' = 0 /\ y = V_TOTAL - 1 /\ y' = 0
  BY Positions
<1>2. ~Booting
  <2>1. cold' = (cold /\ y # V_SYNC_AT)
    BY DEF Around, Vc2
  <2> QED BY <2>1 DEF Booting
<1>3. fst = "F_IDLE" /\ restart
  BY DEF GoRestart
<1>4. InSync /\ Rem + 1 + (LineTime + 1) <= Clocks
  BY <1>2, <1>3 DEF PacedInv, TimedInv, RestartInv
<1>5. Rem = 0 /\ LineTime \in Nat /\ Clocks \in Nat
  BY <1>1, <1>3, Times, ClocksGo DEF Rem
<1>6. LineTime + 2 <= Clocks
  BY <1>4, <1>5
<1>7. ToAt(0, x', y') = Clocks - 1
  <2>1. y >= V_SYNC_AT
    BY <1>4 DEF InSync
  <2> QED BY <1>1, <2>1, ToNext, 0 \in Nat
<1>8. y' >= V_SYNC_AT
  <2>1. Clocks # 1
    BY <1>5, <1>6
  <2>2. IF y = V_TOTAL - 1 /\ x = H_TOTAL - 1 THEN Clocks = 1 ELSE Clocks' = Clocks - 1
    BY <1>1, ClocksGo
  <2>3. y >= V_SYNC_AT
    BY <1>4 DEF InSync
  <2> QED BY <1>1, <2>1, <2>2, <2>3
<1>9. LineTime + 1 <= ToAt(0, x', y')
  BY <1>5, <1>6, <1>7
<1>10. LineTime' = LineTime
  BY DEF LineTime, TimeOf, BurstsOf
<1>11. fill_idx' = 0 /\ fill_line' = 0 /\ disp_line' = 0 /\ fst' = "F_IDLE"
  BY <1>3 DEF GoRestart
<1>12. 0 % 4 = 0 /\ 0 <= LINES /\ ~\E l \in Nat : 0 <= l /\ l < 0
  BY Sizes
<1> QED BY <1>8, <1>9, <1>10, <1>11, <1>12 DEF PaceInv, Room

\* The display shows the line it is at.
LEMMA DisplayGoes ==
    ASSUME PacedInv, Around, Goes, ~GoRestart, Running'
    PROVE  /\ disp_line \in Nat /\ disp_line' \in Nat
           /\ disp_line' = IF y' >= V_SYNC_AT THEN 0 ELSE IF x' = 0 /\ y' > 0 THEN y' - 1 ELSE y'
           /\ \/ disp_line' = disp_line
              \/ disp_line' = disp_line + 1 /\ disp_line' = y /\ x = 0 /\ y < LINES
<1>1. /\ LINES \in Nat /\ V_SYNC_AT \in Nat /\ LINES < V_SYNC_AT
      /\ V_TOTAL \in Nat /\ V_SYNC_AT < V_TOTAL /\ H_TOTAL \in Nat \ {0, 1}
      /\ VIS_WORDS \in Nat \ {0} /\ VIS_WORDS < H_TOTAL
      /\ x \in 0..(H_TOTAL - 1) /\ y \in 0..(V_TOTAL - 1)
      /\ \/ x < H_TOTAL - 1 /\ x' = x + 1 /\ y' = y
         \/ x = H_TOTAL - 1 /\ x' = 0 /\ y < V_TOTAL - 1 /\ y' = y + 1
         \/ x = H_TOTAL - 1 /\ x' = 0 /\ y = V_TOTAL - 1 /\ y' = 0
  BY Positions
<1>2. Running /\ (y' >= V_SYNC_AT => y >= V_SYNC_AT)
  BY Ran
<1>3. disp_line = IF y >= V_SYNC_AT THEN 0 ELSE IF x = 0 /\ y > 0 THEN y - 1 ELSE y
  BY <1>2 DEF PacedInv, PaceInv
<1>4. disp_line' = IF y < LINES /\ x < VIS_WORDS THEN y ELSE disp_line
  BY DEF Goes, GoPublish, GoStart, GoRest, GoAsk, GoWait, GoTake, GoEnd, Takes, Going, Shown
<1>5. y < LINES \/ y >= V_SYNC_AT
  BY <1>2 DEF Running, InSync
<1>6. CASE y >= V_SYNC_AT
  <2>1. disp_line = 0 /\ disp_line' = 0
    BY <1>1, <1>3, <1>4, <1>6
  <2>2. y' >= V_SYNC_AT \/ (y' = 0 /\ x' = 0)
    BY <1>1, <1>6
  <2> QED BY <2>1, <2>2
<1>7. CASE y < LINES
  <2>1. ~(y >= V_SYNC_AT) /\ ~(y' >= V_SYNC_AT)
    BY <1>1, <1>2, <1>7
  <2>2. CASE x = 0
    <3>1. disp_line' = y /\ x' = 1 /\ y' = y
      BY <1>1, <1>4, <1>7, <2>2
    <3> QED BY <1>1, <1>3, <1>7, <2>1, <2>2, <3>1
  <2>3. CASE x # 0
    <3>1. disp_line = y /\ disp_line' = y
      BY <1>1, <1>3, <1>4, <2>1, <2>3
    <3>2. (x' # 0 /\ y' = y) \/ (x' = 0 /\ y' = y + 1)
      BY <1>1, <1>7
    <3> QED BY <1>1, <2>1, <3>1, <3>2
  <2> QED BY <2>2, <2>3
<1> QED BY <1>5, <1>6, <1>7

\* A line more in the ring leaves the others there.
LEMMA RingGoes ==
    ASSUME PacedInv, Around, Goes, ~GoRestart, Running', NEW l \in Nat, disp_line <= l, l < fill_line
    PROVE  l % 4 \in val' /\ tag'[l % 4] = l
<1>1. Running /\ KindInv /\ RangeInv /\ fill_line \in Nat
  BY Ran, Positions
<1>2. disp_line \in Nat
  BY DisplayGoes
<1>3. l % 4 \in val /\ tag[l % 4] = l /\ fill_idx = fill_line % 4
  BY <1>1 DEF PacedInv, PaceInv
<1>4. fill_idx \in 0..3 /\ l % 4 \in 0..3 /\ tag \in [0..3 -> Nat]
  BY <1>1, Ring DEF RangeInv
<1>5. Room => l % 4 # fill_idx
  BY <1>1, <1>2, <1>3, Ring DEF Room
<1>6. CASE GoPublish
  <2>1. Room
    BY <1>1, <1>2, <1>6 DEF GoPublish, Cache!MayFill, Cache!Ahead, Cache!NBUF, Room
  <2> QED BY <1>3, <1>4, <1>5, <1>6, <2>1 DEF GoPublish
<1>7. CASE GoStart
  <2>1. Room
    BY <1>1, <1>2, <1>7 DEF GoStart, Cache!MayFill, Cache!Ahead, Cache!NBUF, Room
  <2> QED BY <1>3, <1>4, <1>5, <1>7, <2>1 DEF GoStart
<1>8. CASE GoRest \/ GoAsk \/ GoWait \/ \E word : GoTake(word)
  BY <1>3, <1>8 DEF GoRest, GoAsk, GoWait, GoTake
<1>9. ASSUME NEW word, GoEnd(word) PROVE l % 4 \in val' /\ tag'[l % 4] = l
  <2>1. Room
    BY <1>1, <1>9 DEF GoEnd, Takes, PacedInv, PaceInv
  <2> QED BY <1>3, <1>4, <1>5, <1>9, <2>1 DEF GoEnd
<1> QED BY <1>6, <1>7, <1>8, <1>9 DEF Goes

\* The times left, of the line in hand and of the next.
LEMMA TimeLeft ==
    ASSUME Fast, PacedInv, Around, Goes, ~GoRestart, Running'
    PROVE  /\ fst' # "F_IDLE" => Rem' <= ToAt(fill_line', x', y') /\ Room'
           /\ fst' = "F_IDLE" /\ Room' /\ fill_line' < LINES =>
                  LineTime + 1 <= ToAt(fill_line', x', y')
<1>1. Running /\ KindInv /\ RangeInv /\ fill_line \in Nat /\ TimeInv /\ Vc2
      /\ H_TOTAL \in Nat \ {0, 1} /\ y \in Nat
  BY Ran, Positions
<1>2. /\ disp_line \in Nat /\ disp_line' \in Nat
      /\ \/ disp_line' = disp_line
         \/ disp_line' = disp_line + 1 /\ disp_line' = y /\ x = 0 /\ y < LINES
  BY DisplayGoes
<1> DEFINE t == ToAt(fill_line, x, y)
<1>3. /\ t \in Int /\ ToAt(fill_line, x', y') = t - 1
      /\ ToAt(fill_line + 1, x', y') = t - 1 + H_TOTAL
  <2>1. y < LINES \/ y >= V_SYNC_AT
    BY <1>1 DEF Running, InSync
  <2>2. fill_line + 1 \in Nat
    BY <1>1
  <2>3. /\ t \in Int /\ ToAt(fill_line + 1, x, y) = t + H_TOTAL
        /\ ToAt(fill_line, x', y') = t - 1
        /\ ToAt(fill_line + 1, x', y') = ToAt(fill_line + 1, x, y) - 1
    BY <1>1, <2>1, <2>2, ToNext
  <2> HIDE DEF t
  <2> QED BY <1>1, <2>3
<1>4. /\ fill_line <= disp_line + 4 /\ fill_line <= LINES
      /\ fst # "F_IDLE" => Rem <= t /\ Room
      /\ fst = "F_IDLE" /\ Room /\ fill_line < LINES => LineTime + 1 <= t
  BY <1>1 DEF PacedInv, PaceInv
<1>5. /\ Rem \in Nat /\ (fst # "F_IDLE" => Rem >= 1 /\ Rem' \in Int /\ Rem' <= Rem - 1)
      /\ fst = "F_IDLE" => Rem' = IF fst' = "F_IDLE" THEN 0 ELSE LineTime
  BY <1>1, RemIs, RemGoes
<1>6. LineTime \in Nat /\ LineTime + 1 <= H_TOTAL /\ LineTime' = LineTime
  BY DEF Fast, LineTime, TimeOf, BurstsOf
<1>7. Room => Room' \/ fill_line' = fill_line + 1
  BY <1>1, <1>2
     DEF Room, Goes, GoPublish, GoStart, GoRest, GoAsk, GoWait, GoTake, GoEnd, Takes
<1> HIDE DEF t
<1>8. CASE GoPublish
  <2>1. Room /\ fill_line < LINES /\ fst = "F_IDLE" /\ fst' = "F_IDLE" /\ fill_line' = fill_line + 1
    BY <1>1, <1>2, <1>8 DEF GoPublish, Cache!MayFill, Cache!Ahead, Cache!NBUF, Room
  <2>2. LineTime + 1 <= t - 1 + H_TOTAL
    BY <1>1, <1>3, <1>4, <1>6, <2>1
  <2> QED BY <1>3, <2>1, <2>2
<1>9. CASE GoStart
  <2>1. Room /\ fill_line < LINES /\ fst = "F_IDLE" /\ fst' # "F_IDLE" /\ fill_line' = fill_line
    BY <1>1, <1>2, <1>9 DEF GoStart, Cache!MayFill, Cache!Ahead, Cache!NBUF, Room
  <2>2. Rem' <= t - 1
    BY <1>3, <1>4, <1>5, <1>6, <2>1
  <2>3. Room'
    BY <1>1, <1>7, <2>1
  <2> QED BY <1>3, <2>1, <2>2, <2>3
<1>10. CASE GoRest
  <2>1. fst = "F_IDLE" /\ fst' = "F_IDLE" /\ fill_line' = fill_line /\ ~(Room /\ fill_line < LINES)
    BY <1>1, <1>2, <1>10 DEF GoRest, Cache!MayFill, Cache!Ahead, Cache!NBUF, Room
  <2>2. ASSUME Room', fill_line < LINES PROVE LineTime + 1 <= t - 1
    <3>1. ~Room /\ fill_line < disp_line' + 4
      BY <2>1, <2>2 DEF Room
    <3>2. fill_line = y + 3 /\ x = 0 /\ y < LINES
      <4>1. ~(fill_line < disp_line + 4) /\ fill_line <= disp_line + 4
        BY <1>4, <3>1 DEF Room
      <4>2. fill_line = disp_line + 4
        BY <1>1, <1>2, <4>1
      <4>3. disp_line' # disp_line
        BY <3>1, <4>1
      <4>4. disp_line' = disp_line + 1 /\ disp_line' = y /\ x = 0 /\ y < LINES
        BY <1>2, <4>3
      <4> QED BY <1>1, <1>2, <4>2, <4>4
    <3>3. /\ ToAt(y, x, y) = -x /\ ToAt(y, x, y) \in Int
          /\ ToAt(y + 1, x, y) = ToAt(y, x, y) + H_TOTAL
          /\ ToAt(y + 1 + 1, x, y) = ToAt(y + 1, x, y) + H_TOTAL
          /\ ToAt(y + 1 + 1 + 1, x, y) = ToAt(y + 1 + 1, x, y) + H_TOTAL
      <4>1. y + 1 \in Nat /\ y + 1 + 1 \in Nat
        BY <1>1
      <4> QED BY <1>1, <3>2, <4>1, ToNext
    <3>4. y + 1 + 1 + 1 = fill_line
      BY <1>1, <3>2
    <3>5. t = H_TOTAL + H_TOTAL + H_TOTAL
      BY <1>1, <3>2, <3>3, <3>4 DEF t
    <3> QED BY <1>1, <1>6, <3>5
  <2> QED BY <1>3, <2>1, <2>2
<1>11. CASE GoAsk \/ GoWait \/ \E word : GoTake(word)
  <2>1. fst # "F_IDLE" /\ fst' # "F_IDLE" /\ fill_line' = fill_line
    BY <1>11 DEF GoAsk, GoWait, GoTake, Takes
  <2>2. Rem' <= t - 1 /\ Room'
    BY <1>1, <1>3, <1>4, <1>5, <1>7, <2>1
  <2> QED BY <1>3, <2>1, <2>2
<1>12. ASSUME NEW word, GoEnd(word), fill_line' < LINES
       PROVE  LineTime + 1 <= ToAt(fill_line', x', y')
  <2>1. fst # "F_IDLE" /\ fst' = "F_IDLE" /\ fill_line' = fill_line + 1
    BY <1>12 DEF GoEnd, Takes
  <2>2. t >= 1
    BY <1>3, <1>4, <1>5, <2>1
  <2> QED BY <1>1, <1>3, <1>6, <2>1, <2>2
<1>13. ASSUME NEW word, GoEnd(word) PROVE fst' = "F_IDLE"
  BY <1>13 DEF GoEnd
<1> QED BY <1>8, <1>9, <1>10, <1>11, <1>12, <1>13 DEF Goes

LEMMA PaceStep ==
    ASSUME Fast, PacedInv, Around, Goes
    PROVE  PaceInv'
<1>1. CASE GoRestart
  BY <1>1, PaceAtRestart DEF PaceInv, Running
<1>2. CASE ~GoRestart
  <2> SUFFICES ASSUME Running' PROVE PaceInv'
    BY DEF PaceInv
  <2>1. Running /\ KindInv /\ RangeInv /\ fill_line \in Nat /\ LINES \in Nat
    BY <1>2, Ran, Positions
  <2>2. /\ disp_line \in Nat /\ disp_line' \in Nat /\ disp_line <= disp_line'
        /\ disp_line' = IF y' >= V_SYNC_AT THEN 0 ELSE IF x' = 0 /\ y' > 0 THEN y' - 1 ELSE y'
    <3>1. disp_line \in Nat /\ disp_line' \in Nat
          /\ (disp_line' = disp_line \/ disp_line' = disp_line + 1)
          /\ disp_line' = IF y' >= V_SYNC_AT THEN 0 ELSE IF x' = 0 /\ y' > 0 THEN y' - 1 ELSE y'
      BY <1>2, DisplayGoes
    <3> QED BY <3>1
  <2>3. /\ fill_idx = fill_line % 4 /\ fill_line <= disp_line + 4 /\ fill_line <= LINES
        /\ fst # "F_IDLE" => Room
    BY <2>1 DEF PacedInv, PaceInv
  <2>4. \/ fill_line' = fill_line /\ fill_idx' = fill_idx
        \/ /\ fill_line' = fill_line + 1 /\ fill_idx' = (fill_idx + 1) % 4
           /\ Room /\ fill_line < LINES
           /\ fill_idx \in val' /\ tag' = [tag EXCEPT ![fill_idx] = fill_line]
    <3>1. CASE GoPublish
      BY <2>1, <2>2, <3>1 DEF GoPublish, Cache!MayFill, Cache!Ahead, Cache!NBUF, Room
    <3>2. CASE GoStart \/ GoRest \/ GoAsk \/ GoWait \/ \E word : GoTake(word)
      BY <3>2 DEF GoStart, GoRest, GoAsk, GoWait, GoTake
    <3>3. ASSUME NEW word, GoEnd(word)
          PROVE  /\ fill_line' = fill_line + 1 /\ fill_idx' = (fill_idx + 1) % 4
                 /\ Room /\ fill_line < LINES
                 /\ fill_idx \in val' /\ tag' = [tag EXCEPT ![fill_idx] = fill_line]
      BY <2>1, <2>3, <3>3 DEF GoEnd, Takes, KindInv
    <3> QED BY <1>2, <3>1, <3>2, <3>3 DEF Goes
  <2>5. fill_idx' = fill_line' % 4
    BY <2>1, <2>3, <2>4, Ring
  <2>6. fill_line' <= disp_line' + 4 /\ fill_line' <= LINES
    BY <2>1, <2>2, <2>3, <2>4 DEF Room
  <2>7. ASSUME NEW l \in Nat, disp_line' <= l, l < fill_line'
        PROVE  l % 4 \in val' /\ tag'[l % 4] = l
    <3>1. CASE l < fill_line
      <4>1. disp_line <= l
        BY <2>2, <2>7
      <4> QED BY <1>2, <3>1, <4>1, RingGoes
    <3>2. CASE ~(l < fill_line)
      <4>1. l = fill_line /\ fill_idx \in val' /\ tag' = [tag EXCEPT ![fill_idx] = fill_line]
        BY <2>1, <2>4, <2>7, <3>2
      <4>2. l % 4 = fill_idx /\ tag \in [0..3 -> Nat] /\ fill_idx \in 0..3
        BY <2>1, <2>3, <4>1 DEF RangeInv
      <4> QED BY <4>1, <4>2
    <3> QED BY <3>1, <3>2
  <2>8. /\ fst' # "F_IDLE" => Rem' <= ToAt(fill_line', x', y') /\ Room'
        /\ fst' = "F_IDLE" /\ Room' /\ fill_line' < LINES =>
               LineTime' + 1 <= ToAt(fill_line', x', y')
    <3>1. LineTime' = LineTime
      BY DEF LineTime, TimeOf, BurstsOf
    <3> QED BY <1>2, <3>1, TimeLeft
  <2> QED BY <2>2, <2>5, <2>6, <2>7, <2>8 DEF PaceInv
<1> QED BY <1>1, <1>2

\* A line is in the ring before it is shown.
LEMMA MissStep ==
    ASSUME PacedInv, Around, Goes
    PROVE  PxInv' /\ NoMissAfterFirst'
<1>1. /\ LINES \in Nat /\ V_SYNC_AT \in Nat /\ LINES < V_SYNC_AT /\ x \in Nat /\ y \in Nat
      /\ fill_line \in Nat /\ TimeInv /\ Vc2 /\ KindInv /\ RangeInv /\ H_TOTAL \in Nat
  BY Positions
<1>2. CASE Shown
  <2>1. /\ px_out'.miss = (Hits = {}) /\ DOMAIN px_out' = {"ack", "miss", "read", "word"}
    BY <1>2 DEF Around, ReadOut
  <2>2. PxInv'
    BY <2>1 DEF PxInv
  <2>3. ASSUME ~cold' PROVE Hits # {}
    <3>1. ~cold /\ y < LINES
      <4>1. cold' = (cold /\ y # V_SYNC_AT)
        BY DEF Around, Vc2
      <4>2. y < LINES /\ y # V_SYNC_AT
        BY <1>1, <1>2 DEF Shown
      <4> QED BY <2>3, <4>1, <4>2
    <3>2. ~restart
      BY <1>1, <3>1 DEF PacedInv, TimedInv, RestartInv, Booting, InSync
    <3>3. /\ fill_line <= disp_line + 4
          /\ disp_line = IF y >= V_SYNC_AT THEN 0 ELSE IF x = 0 /\ y > 0 THEN y - 1 ELSE y
          /\ fst # "F_IDLE" => Rem <= ToAt(fill_line, x, y) /\ Room
          /\ fst = "F_IDLE" /\ Room /\ fill_line < LINES => LineTime + 1 <= ToAt(fill_line, x, y)
          /\ \A l \in Nat : disp_line <= l /\ l < fill_line => l % 4 \in val /\ tag[l % 4] = l
      BY <3>1, <3>2 DEF PacedInv, PaceInv, Running
    <3>4. disp_line \in Nat /\ disp_line <= y /\ y <= disp_line + 1
      BY <1>1, <3>1, <3>3
    <3>5. y < fill_line
      <4> SUFFICES ASSUME fill_line <= y PROVE FALSE
        BY <1>1
      <4>1. ToAt(fill_line, x, y) <= 0
        <5> DEFINE d == fill_line - y
        <5>1. ToAt(fill_line, x, y) = d * H_TOTAL - x
          BY <1>1, <3>1 DEF ToAt
        <5>2. d \in Int /\ d <= 0
          BY <1>1
        <5> HIDE DEF d
        <5>3. d * H_TOTAL <= 0 /\ d * H_TOTAL \in Int
          BY <1>1, <5>2
        <5> QED BY <1>1, <5>1, <5>3
      <4>2. ToAt(fill_line, x, y) \in Int
        BY <1>1, ToNext
      <4>3. Room /\ fill_line < LINES
        BY <1>1, <3>1, <3>4 DEF Room
      <4>4. Rem \in Nat /\ (fst # "F_IDLE" => Rem >= 1) /\ LineTime \in Nat
        BY <1>1, RemIs, Times
      <4> QED BY <3>3, <4>1, <4>2, <4>3, <4>4
    <3>6. y % 4 \in val /\ tag[y % 4] = y
      BY <1>1, <3>3, <3>4, <3>5
    <3> QED BY <3>6 DEF Hits
  <2>4. NoMissAfterFirst'
    BY <2>1, <2>3 DEF NoMissAfterFirst
  <2> QED BY <2>2, <2>4
<1>3. CASE ~Shown
  <2>1. px_out' = [px_out EXCEPT !.ack = FALSE, !.miss = FALSE]
    BY <1>3 DEF Around
  <2>2. DOMAIN px_out' = DOMAIN px_out /\ px_out'.miss = FALSE
    BY <2>1 DEF PacedInv, PxInv
  <2> QED BY <2>2 DEF PacedInv, PxInv, NoMissAfterFirst
<1> QED BY <1>2, <1>3

\* The kinds of values alone: KindInv is inductive without the flags.
LEMMA KindStep ==
    ASSUME KindInv, Clock
    PROVE  KindInv'
<1>1. Around /\ Goes
  BY ClockGoes
<1>2. memory' \subseteq Words /\ watch' \in 0..(LINES - 1)
  BY <1>1, Arrivals DEF Around, KindInv
<1>3. /\ fill_pos' \in Nat /\ fill_line' \in Nat /\ fst' \in {"F_IDLE", "F_REQ", "F_DATA"}
      /\ fst' # "F_IDLE" => fill_line' < LINES
  BY <1>1 DEF KindInv, Goes, GoRestart, GoPublish, GoStart, GoRest, GoAsk, GoWait, GoTake, GoEnd, Takes, Cache!MayFill
<1> QED BY <1>2, <1>3 DEF KindInv, Words

LEMMA PacedStep ==
    ASSUME KeepsUp, PacedInv, [Clock]_vars
    PROVE  PacedInv'
<1>1. LineTime' = LineTime
  BY DEF LineTime, TimeOf, BurstsOf
<1>2. Fast /\ LineTime + 1 \in Nat
  BY Times DEF KeepsUp, Fast
<1>3. CASE UNCHANGED vars
  <2>1. TimedInv(LineTime + 1)'
    BY <1>1, <1>2, <1>3, TimedStutter DEF PacedInv, TimedInv, RestartInv
  <2>2. ColdInv' /\ PxInv' /\ NoMissAfterFirst'
    BY <1>3 DEF vars, Cache!cacheVars, PacedInv, ColdInv, PxInv, NoMissAfterFirst
  <2>3. PaceInv'
    BY <1>3 DEF vars, Cache!cacheVars, PacedInv, PaceInv, Running, InSync, Rem, Room, ToAt,
                LineTime, TimeOf, BurstsOf
  <2> QED BY <2>1, <2>2, <2>3 DEF PacedInv
<1>4. CASE Clock
  <2>1. KindInv /\ KindInv'
    <3>1. KindInv
      BY DEF PacedInv, TimedInv
    <3>2. KindInv'
      BY <1>4, <3>1, KindStep
    <3> QED BY <3>1, <3>2
  <2>2. Around /\ Goes
    BY <1>4, <2>1, ClockGoes
  <2>3. LineTime + 2 + (LineTime + 1) <= Blank
    <3>1. 2 * LineTime + 3 <= Blank
      BY DEF KeepsUp, Blank
    <3>2. Blank \in Int
      <4>1. V_TOTAL - V_SYNC_AT \in Int
        BY Sizes
      <4> QED BY <4>1, Lines DEF Blank
    <3>3. \A a, b \in Int : 2 * a + 3 <= b => a + 2 + (a + 1) <= b
      OBVIOUS
    <3>4. LineTime \in Int
      BY Times
    <3> QED BY <3>1, <3>2, <3>3, <3>4
  <2>4. TimedInv(LineTime + 1)'
    <3> DEFINE m == LineTime + 1
    <3>1. m' = m
      BY <1>1
    <3>2. TimedInv(m)
      BY DEF PacedInv
    <3> QED BY <1>1, <1>2, <2>1, <2>2, <2>3, <3>2, TimedStep DEF TimedInv, RestartInv
  <2>5. ColdInv'
    <3>1. cold' = (cold /\ y # V_SYNC_AT)
      BY <2>2 DEF Around, Vc2
    <3>2. y' = V_SYNC_AT /\ x' > 0 => y = V_SYNC_AT
      BY <2>2, Positions
    <3> QED BY <3>1, <3>2 DEF ColdInv
  <2>6. PaceInv' /\ PxInv' /\ NoMissAfterFirst'
    BY <1>2, <2>2, PaceStep, MissStep
  <2> QED BY <2>4, <2>5, <2>6 DEF PacedInv
<1> QED BY <1>3, <1>4

\* With a bridge that fetches a line in the time of a line, and two in the
\* blanking, no pixel misses after the first vertical sync.
THEOREM NoMisses == ASSUME KeepsUp PROVE Spec => []NoMissAfterFirst
<1>1. Init => PacedInv
  BY PacedAtFirst
<1>2. PacedInv /\ [Clock]_vars => PacedInv'
  BY PacedStep
<1>3. PacedInv => NoMissAfterFirst
  BY DEF PacedInv
<1> QED BY <1>1, <1>2, <1>3, PTL DEF Spec

=============================================================================
