--------------------------- MODULE ScsiDmaProofs ----------------------------
(***************************************************************************)
(* The HPC3's SCSI channel, for any chains, words of any width, any number *)
(* of commands and stops, memory and a target of any pace: no interrupt is *)
(* lost to a read of the control register; and for a driver that comes     *)
(* when the engine has nothing to do but wait, a channel that was stopped  *)
(* stays stopped, every byte is where its chain has it, before the         *)
(* interrupt that tells of it, and a target is given none that is stale.   *)
(***************************************************************************)
EXTENDS ScsiDmaPath, WellFoundedInduction, TLAPS

(* A driver that waits for the engine to settle.                           *)
Patient == ~Hasty

Pios == {NoPio, ReadCtrl, Nbdp, Start, Release, Stop, Flush, Reset}

-----------------------------------------------------------------------------
(* Every step is a clock with one of the driver's accesses.                *)

\* The register write of a step, and when the driver makes it.
LEMMA StepIsClock ==
    ASSUME Next
    PROVE  \E pio \in Pios :
              /\ Clock(pio)
              /\ pio \in {Stop, Flush, Reset, Release, Start} => Comes
<1>1. CASE Tick
  BY <1>1 DEF Tick, Pios, NoPio, Stop, Flush, Reset, Release, Start, Ctrl
<1>2. CASE ReadsCtrl
  BY <1>2 DEF ReadsCtrl, Pios, ReadCtrl, Stop, Flush, Reset, Release, Start, Ctrl
<1>3. CASE Releases
  BY <1>3 DEF Releases, Pios
<1>4. CASE Prepares
  BY <1>4 DEF Prepares, Pios
<1>5. CASE Starts
  BY <1>5 DEF Starts, Pios
<1>6. CASE TearsDown(Stop) \/ TearsDown(Flush) \/ TearsDown(Reset)
  BY <1>6 DEF TearsDown, Pios
<1>7. QED BY <1>1, <1>2, <1>3, <1>4, <1>5, <1>6 DEF Next

-----------------------------------------------------------------------------
(* Interrupts.                                                             *)

LEMMA InterruptStep ==
    ASSUME InterruptOwed, NEW pio, Clock(pio)
    PROVE  InterruptOwed'
<1> DEFINE in == Inputs(pio)
           raised == desc_xie /\ (Ch!At("D_DESC_END")
                                  \/ (Ch!At("D_EVAL") /\ count = 0 /\ desc_eox))
<1>1. in.pio = pio
  BY DEF Inputs
<1>2. ctrl_int' = (raised \/ (ctrl_int /\ in.pio.kind # "read"))
  BY DEF Clock, Ch!Clock, Ch!Descriptor, Ch!Int
<1>3. owed' = (raised \/ (owed /\ ~(pio.kind = "read" /\ ctrl_int)))
  BY DEF Clock, Ch!At
<1>4. QED BY <1>1, <1>2, <1>3 DEF InterruptOwed

\* Every interrupt a descriptor promised stays up until a read of the control
\* register has shown it, the read in the clock in which it is raised included
\* (hpc3_scsi_dma.sv:428).
THEOREM InterruptsKept == Spec => []InterruptOwed
<1>1. Init => InterruptOwed
  BY DEF Init, InterruptOwed
<1>2. InterruptOwed /\ [Next]_vars => InterruptOwed'
  <2>1. CASE Next
    BY <2>1, StepIsClock, InterruptStep
  <2>2. CASE UNCHANGED vars
    BY <2>2 DEF vars, Ch!chVars, InterruptOwed
  <2>3. QED BY <2>1, <2>2
<1>3. QED BY <1>1, <1>2, PTL DEF Spec

-----------------------------------------------------------------------------
(* Stops.                                                                  *)

\* What the engine does next does not depend on the register write.
LEMMA MovesApart ==
    ASSUME NEW pio
    PROVE  Ch!Moves(Inputs(pio)) = Ch!Moves(Inputs(NoPio))
<1>1. /\ Inputs(pio).ack = Inputs(NoPio).ack /\ Inputs(pio).req = Inputs(NoPio).req
      /\ Inputs(pio).dir_in = Inputs(NoPio).dir_in
  BY DEF Inputs
<1>2. QED
  BY <1>1 DEF Ch!Moves, Ch!Answered, Ch!Takes, Ch!GivesHeld, Ch!Tires

\* The accesses that end a command.
LEMMA WhoStops ==
    ASSUME NEW pio \in Pios, Ch!Stops(Inputs(pio)) \/ Ch!Resets(Inputs(pio))
    PROVE  pio \in {Stop, Flush, Reset}
<1>1. Inputs(pio).pio = pio
  BY DEF Inputs
<1>2. QED
  BY <1>1 DEF Pios, NoPio, ReadCtrl, Nbdp, Start, Release, Stop, Flush, Reset, Ctrl,
     Ch!Stops, Ch!Resets, Ch!WritesCtrl

\* A stop of an engine that waits: it goes idle, or writes what it holds and
\* goes idle then.
LEMMA StopStops ==
    ASSUME NEW in, Ch!Sequencer(in), Ch!Stops(in) \/ Ch!Resets(in),
           Ch!Moves(in) = "stays"
    PROVE  \/ dstate' = "D_IDLE"
           \/ dstate' \in {"D_FLUSH", "D_FLUSH_W"} /\ fl_next' = "FN_IDLE"
<1>1. dstate' = Ch!PioState(in) /\ fl_next' = Ch!AfterFlush(in)
  BY DEF Ch!Sequencer
<1>2. CASE Ch!Resets(in)
  BY <1>1, <1>2 DEF Ch!PioState
<1>3. CASE ~Ch!Resets(in) /\ ~Ch!StopInFlush /\ wbe = {}
  BY <1>1, <1>3 DEF Ch!PioState
<1>4. CASE ~Ch!Resets(in) /\ (Ch!StopInFlush \/ wbe # {})
  <2>1. ~Ch!TakesIn(in)
    <3>1. SUFFICES ASSUME Ch!TakesIn(in) PROVE FALSE
      OBVIOUS
    <3>2. Ch!Moves(in) \in {"D_FLUSH", "D_DESC_END", "D_ADVANCE"}
      BY <3>1 DEF Ch!TakesIn, Ch!Takes, Ch!Moves, Ch!At, Ch!Answered, Ch!EndOfChain,
         Ch!Links, Ch!EndsPhase
    <3>3. QED BY <3>2
  <2>2. fl_next' = "FN_IDLE"
    BY <1>1, <1>4, <2>1 DEF Ch!AfterFlush
  <2>3. dstate' \in {"D_FLUSH", "D_FLUSH_W"}
    BY <1>1, <1>4 DEF Ch!PioState, Ch!StopInFlush
  <2>4. QED BY <2>2, <2>3
<1>5. QED BY <1>2, <1>3, <1>4

\* An engine whose channel is not active goes on with its last write, or with
\* nothing.
LEMMA StaysStopped ==
    ASSUME NEW in, Ch!Sequencer(in), ~Ch!Stops(in), ~Ch!Resets(in), ~Ch!Goes(in),
           \/ dstate = "D_IDLE"
           \/ dstate \in {"D_FLUSH", "D_FLUSH_W"} /\ fl_next = "FN_IDLE"
    PROVE  \/ dstate' = "D_IDLE"
           \/ dstate' \in {"D_FLUSH", "D_FLUSH_W"} /\ fl_next' = "FN_IDLE"
<1>1. /\ dstate' = IF Ch!Moves(in) = "stays" THEN dstate ELSE Ch!Moves(in)
      /\ fl_next' = Ch!AfterFlush(in)
  BY DEF Ch!Sequencer, Ch!PioState
<1>2. fl_next' = fl_next
  BY <1>1 DEF Ch!AfterFlush, Ch!TakesIn, Ch!Takes, Ch!At
<1>3. CASE dstate = "D_IDLE"
  <2>1. Ch!Moves(in) = "stays"
    BY <1>3 DEF Ch!Moves, Ch!At, Ch!Answered, Ch!EndOfChain, Ch!Links, Ch!EndsPhase,
       Ch!Takes, Ch!Tires
  <2>2. QED BY <1>1, <1>3, <2>1
<1>4. CASE dstate = "D_FLUSH" /\ fl_next = "FN_IDLE"
  <2>1. Ch!Moves(in) = "D_FLUSH_W"
    BY <1>4 DEF Ch!Moves, Ch!At, Ch!Answered, Ch!EndOfChain, Ch!Links, Ch!EndsPhase,
       Ch!Takes, Ch!Tires
  <2>2. QED BY <1>1, <1>2, <1>4, <2>1
<1>5. CASE dstate = "D_FLUSH_W" /\ fl_next = "FN_IDLE"
  <2>1. Ch!Moves(in) \in {"D_IDLE", "stays"}
    BY <1>5 DEF Ch!Moves, Ch!At, Ch!Answered, Ch!EndOfChain, Ch!Links, Ch!EndsPhase,
       Ch!Takes, Ch!Tires
  <2>2. QED BY <1>1, <1>2, <1>5, <2>1
<1>6. QED BY <1>3, <1>4, <1>5

LEMMA StopStep ==
    ASSUME Patient, StopWins, NEW pio \in Pios, Clock(pio),
           pio \in {Stop, Flush, Reset, Release, Start} => Comes
    PROVE  StopWins'
<1> DEFINE in == Inputs(pio)
<1>1. Ch!Sequencer(in)
  BY DEF Clock, Ch!Clock
<1>2. CASE Ch!Stops(in) \/ Ch!Resets(in)
  <2>1. Comes
    BY <1>2, WhoStops
  <2>2. Ch!Moves(in) = "stays"
    BY <2>1, MovesApart DEF Comes, Settled, Patient
  <2>3. QED BY <1>1, <1>2, <2>2, StopStops DEF StopWins
<1>3. CASE ~Ch!Stops(in) /\ ~Ch!Resets(in)
  <2>1. ctrl_active' = IF Ch!At("D_COMPLETE") THEN FALSE ELSE ctrl_active \/ Ch!Goes(in)
    BY <1>1, <1>3 DEF Ch!Sequencer
  <2>2. CASE dstate = "D_COMPLETE"
    <3>1. Ch!Moves(in) = "D_IDLE"
      BY <2>2 DEF Ch!Moves, Ch!At, Ch!Answered, Ch!EndOfChain, Ch!Links, Ch!EndsPhase,
         Ch!Takes, Ch!Tires
    <3>2. QED BY <1>1, <3>1 DEF Ch!Sequencer, StopWins
  <2>3. CASE dstate # "D_COMPLETE" /\ (ctrl_active \/ Ch!Goes(in))
    BY <2>1, <2>3 DEF StopWins, Ch!At
  <2>4. CASE ~ctrl_active /\ ~Ch!Goes(in)
    BY <1>1, <1>3, <2>4, StaysStopped DEF StopWins
  <2>5. QED BY <2>2, <2>3, <2>4
<1>4. QED BY <1>2, <1>3

\* A channel that was stopped, flushed or reset by a driver that waits for the
\* engine to settle starts nothing more: it writes the bytes it holds and is
\* idle (hpc3_scsi_dma.sv:347-372).
THEOREM StoppedStays == Patient => (Spec => []StopWins)
<1> SUFFICES ASSUME Patient PROVE Spec => []StopWins
  OBVIOUS
<1>1. Init => StopWins
  BY DEF Init, Ch!Init, StopWins
<1>2. StopWins /\ [Next]_vars => StopWins'
  <2>1. CASE Next
    BY <2>1, StepIsClock, StopStep
  <2>2. CASE UNCHANGED vars
    BY <2>2 DEF vars, Ch!chVars, StopWins
  <2>3. QED BY <2>1, <2>2
<1>3. QED BY <1>1, <1>2, PTL DEF Spec

-----------------------------------------------------------------------------
(* Sequences of pieces: where each lies in the whole.                      *)

\* A set of numbers has a least one.
LEMMA NatMin ==
    ASSUME NEW T \in SUBSET Nat, T # {}
    PROVE  \E x \in T : \A y \in T : ~(y < x)
<1> DEFINE R == OpToRel(<, Nat)
<1>1. IsWellFoundedOn(R, Nat)
  BY NatLessThanWellFounded
<1>2. \E x \in T : \A y \in T : ~(<<y, x>> \in R)
  <2> HIDE DEF R
  <2> QED BY <1>1, WFMin
<1>3. \A x, y \in Nat : y < x => <<y, x>> \in R
  BY DEF OpToRel
<1> QED BY <1>2, <1>3

\* Induction: a set of numbers with zero and every successor has them all.
LEMMA NatSet ==
    ASSUME NEW S \in SUBSET Nat, 0 \in S, \A n \in S : n + 1 \in S
    PROVE  S = Nat
<1> SUFFICES ASSUME S # Nat PROVE FALSE
  OBVIOUS
<1> DEFINE T == Nat \ S
<1>1. T \in SUBSET Nat /\ T # {}
  OBVIOUS
<1>2. PICK x \in T : \A y \in T : ~(y < x)
  <2> HIDE DEF T
  <2> QED BY <1>1, NatMin
<1>3. x # 0 /\ x - 1 \in Nat /\ x - 1 < x
  OBVIOUS
<1>4. x - 1 \in S
  BY <1>2, <1>3
<1>5. (x - 1) + 1 \in S
  BY <1>4
<1> QED BY <1>2, <1>5

\* A recursive function of the pieces of a sequence is one.
LEMMA FlattenSteps ==
    ASSUME NEW s, Len(s) \in Nat, Len(s) # 0
    PROVE  \E g : /\ FlattenSeq(s) = g[Len(s)]
                  /\ \A i \in 1..Len(s) : g[i] = IF i = 1 THEN s[i] ELSE g[i - 1] \o s[i]
<1> DEFINE N == Len(s)
           Step(g, i) == IF i = 1 THEN s[i] ELSE g[i - 1] \o s[i]
           Full(g, n) == g = [i \in 1..n |-> Step(g, i)]
           T == {n \in Nat : \E g : Full(g, n)}
<1>1. 0 \in T
  <2> DEFINE g == [i \in 1..0 |-> <<>>]
  <2>1. Full(g, 0)
    OBVIOUS
  <2> HIDE DEF Full, g
  <2> QED BY <2>1
<1>2. ASSUME NEW n \in T PROVE n + 1 \in T
  <2>1. PICK g : Full(g, n)
    OBVIOUS
  <2> DEFINE h == [i \in 1..(n + 1) |-> Step(g, i)]
  <2>2. \A i \in 1..n : g[i] = Step(g, i)
    BY <2>1
  <2>3. ASSUME NEW i \in 1..(n + 1) PROVE Step(h, i) = Step(g, i)
    <3>1. CASE i = 1
      BY <3>1
    <3>2. CASE i # 1
      <4>1. i - 1 \in 1..n /\ i - 1 \in 1..(n + 1)
        BY <3>2
      <4>2. h[i - 1] = g[i - 1]
        BY <4>1, <2>2
      <4> HIDE DEF h
      <4> QED BY <3>2, <4>2
    <3> QED BY <3>1, <3>2
  <2>4. Full(h, n + 1)
    BY <2>3
  <2> HIDE DEF Full, h
  <2> QED BY <2>4
<1>3. \E g : Full(g, N)
  <2>1. T = Nat
    <3> HIDE DEF T
    <3>1. T \in SUBSET Nat
      BY DEF T
    <3> QED BY <1>1, <1>2, <3>1, NatSet
  <2> HIDE DEF Full
  <2> QED BY <2>1
<1> DEFINE f == CHOOSE g : Full(g, N)
<1>4. Full(f, N)
  <2> HIDE DEF Full
  <2> QED BY <1>3
<1>5. FlattenSeq(s) = f[N]
  BY DEF FlattenSeq
<1>6. \A i \in 1..N : f[i] = Step(f, i)
  <2> HIDE DEF f
  <2> QED BY <1>4
<1> HIDE DEF f
<1> QED BY <1>5, <1>6

\* Where each piece of a sequence of sequences begins in the whole.
Begins(s, off) ==
    /\ off \in [1..(Len(s) + 1) -> Nat] /\ off[1] = 0
    /\ \A d \in 1..Len(s) : off[d + 1] = off[d] + Len(s[d])
    /\ Len(FlattenSeq(s)) = off[Len(s) + 1]
    /\ \A d \in 1..Len(s) : \A i \in 1..Len(s[d]) :
          off[d] + i \in 1..Len(FlattenSeq(s)) /\ FlattenSeq(s)[off[d] + i] = s[d][i]

LEMMA Flattening ==
    ASSUME NEW S, NEW s \in Seq(Seq(S)), s # <<>>
    PROVE  FlattenSeq(s) \in Seq(S) /\ \E off : Begins(s, off)
<1> DEFINE N == Len(s)
<1>1. N \in Nat /\ N # 0 /\ \A d \in 1..N : s[d] \in Seq(S) /\ Len(s[d]) \in Nat
  OBVIOUS
<1>2. PICK g : /\ FlattenSeq(s) = g[N]
               /\ \A i \in 1..N : g[i] = IF i = 1 THEN s[i] ELSE g[i - 1] \o s[i]
  BY <1>1, FlattenSteps
<1> DEFINE off == [d \in 1..(N + 1) |-> IF d = 1 THEN 0 ELSE Len(g[d - 1])]
           Good(n) == /\ \A k \in 1..n : g[k] \in Seq(S)
                      /\ \A d \in 1..n : off[d + 1] = off[d] + Len(s[d])
                      /\ \A d \in 1..n : \A i \in 1..Len(s[d]) :
                            off[d] + i \in 1..Len(g[n]) /\ g[n][off[d] + i] = s[d][i]
           T == {n \in Nat : n \in 1..N => Good(n)}
<1>3. 0 \in T
  OBVIOUS
<1>4. ASSUME NEW n \in T PROVE n + 1 \in T
  <2>1. n \in Nat
    OBVIOUS
  <2> SUFFICES ASSUME n + 1 \in 1..N PROVE Good(n + 1)
    <3> HIDE DEF Good
    <3> QED BY <2>1
  <2>2. CASE n = 0
    <3>1. g[1] = s[1] /\ off[1] = 0 /\ off[2] = Len(g[1])
      BY <1>1, <1>2
    <3> HIDE DEF off
    <3>2. s[1] \in Seq(S) /\ Len(s[1]) \in Nat
      BY <1>1
    <3> QED BY <2>2, <3>1, <3>2
  <2>3. CASE n # 0
    <3> DEFINE m == n + 1
    <3>9. Good(n)
      <4>1. n \in 1..N
        BY <1>1, <2>1, <2>3
      <4> HIDE DEF Good
      <4> QED BY <4>1
    <3>1. /\ n \in 1..N /\ m \in 1..N /\ m - 1 = n /\ m # 1
          /\ m \in 1..(N + 1) /\ m + 1 \in 1..(N + 1) /\ (m + 1) - 1 = m /\ m + 1 # 1
          /\ \A d \in 1..m : d # m => d \in 1..n
      <4> HIDE DEF Good, T
      <4> QED BY <1>1, <2>1, <2>3
    <3> HIDE DEF m, T, Good
    <3>2. g[m] = g[n] \o s[m] /\ off[m + 1] = Len(g[m]) /\ off[m] = Len(g[n])
      BY <1>2, <3>1
    <3> HIDE DEF off
    <3>3. g[n] \in Seq(S) /\ s[m] \in Seq(S)
      BY <1>1, <3>1, <3>9 DEF Good
    <3>4. PICK a, b, c : a = g[n] /\ b = s[m] /\ c = g[m]
      OBVIOUS
    <3>5. /\ a \in Seq(S) /\ b \in Seq(S) /\ c = a \o b
          /\ Len(a) \in Nat /\ Len(b) \in Nat
      BY <3>2, <3>3, <3>4
    <3>6. /\ c \in Seq(S) /\ Len(c) = Len(a) + Len(b)
          /\ \A j \in 1..Len(a) : c[j] = a[j]
          /\ \A j \in 1..Len(b) : c[Len(a) + j] = b[j]
      BY <3>5
    <3>7. \A k \in 1..m : g[k] \in Seq(S)
      BY <3>1, <3>4, <3>6, <3>9 DEF Good
    <3>8. \A d \in 1..m : off[d + 1] = off[d] + Len(s[d])
      BY <3>1, <3>2, <3>4, <3>6, <3>9 DEF Good
    <3>10. ASSUME NEW d \in 1..m, NEW i \in 1..Len(s[d])
           PROVE  off[d] + i \in 1..Len(g[m]) /\ g[m][off[d] + i] = s[d][i]
      <4>1. CASE d = m
        <5>1. i \in 1..Len(b) /\ s[d][i] = b[i] /\ off[d] = Len(a)
          BY <3>2, <3>4, <4>1
        <5>2. c[Len(a) + i] = b[i] /\ Len(a) + i \in 1..Len(c)
          BY <3>5, <3>6, <5>1
        <5> QED BY <3>4, <5>1, <5>2
      <4>2. CASE d # m
        <5>1. d \in 1..n
          BY <3>1, <4>2
        <5>2. off[d] + i \in 1..Len(a) /\ a[off[d] + i] = s[d][i]
          BY <3>4, <3>9, <5>1 DEF Good
        <5>3. PICK k : k = off[d] + i
          OBVIOUS
        <5>4. k \in 1..Len(c) /\ c[k] = s[d][i]
          BY <3>5, <3>6, <5>2, <5>3
        <5> QED BY <3>4, <5>3, <5>4
      <4> QED BY <4>1, <4>2
    <3> QED BY <3>7, <3>8, <3>10 DEF m, Good
  <2> QED BY <2>1, <2>2, <2>3
<1>5. Good(N)
  <2>1. T = Nat
    <3>1. T \in SUBSET Nat
      OBVIOUS
    <3> HIDE DEF T
    <3> QED BY <1>3, <1>4, <3>1, NatSet
  <2>2. N \in T /\ N \in 1..N
    <3> HIDE DEF T
    <3> QED BY <1>1, <2>1
  <2> HIDE DEF Good
  <2> QED BY <2>2
<1>6. off \in [1..(N + 1) -> Nat] /\ off[1] = 0
  <2>1. \A d \in 1..(N + 1) : d # 1 => d - 1 \in 1..N
    BY <1>1
  <2>2. \A d \in 1..N : Len(g[d]) \in Nat
    BY <1>5
  <2> QED BY <1>1, <2>1, <2>2
<1>7. off[N + 1] = Len(g[N])
  BY <1>1
<1> HIDE DEF off
<1>8. Begins(s, off)
  BY <1>2, <1>5, <1>6, <1>7 DEF Begins
<1>9. FlattenSeq(s) \in Seq(S)
  BY <1>1, <1>2, <1>5
<1> QED BY <1>8, <1>9

\* Empty pieces take no place.
LEMMA EmptyPieces ==
    ASSUME NEW s, NEW off, Begins(s, off), Len(s) \in Nat,
           NEW a \in 1..(Len(s) + 1), NEW b \in 1..(Len(s) + 1), a <= b,
           \A e \in 1..Len(s) : a <= e /\ e < b => Len(s[e]) = 0
    PROVE  off[a] = off[b]
<1> DEFINE T == {k \in Nat : a + k <= b => off[a + k] = off[a]}
<1>1. 0 \in T
  OBVIOUS
<1>2. ASSUME NEW k \in T PROVE k + 1 \in T
  <2>1. k \in Nat
    OBVIOUS
  <2> SUFFICES ASSUME a + (k + 1) <= b PROVE off[a + (k + 1)] = off[a]
    BY <2>1
  <2>2. a + k \in 1..Len(s) /\ a + k < b /\ off[a + k] = off[a]
    BY <2>1
  <2>3. off[(a + k) + 1] = off[a + k] /\ off[a + k] \in Nat
    <3>1. Len(s[a + k]) = 0
      BY <2>1, <2>2
    <3>2. off[(a + k) + 1] = off[a + k] + Len(s[a + k]) /\ off[a + k] \in Nat
      BY <2>2 DEF Begins
    <3> QED BY <3>1, <3>2
  <2>4. a + (k + 1) = (a + k) + 1
    BY <2>1
  <2> QED BY <2>2, <2>3, <2>4
<1>3. T = Nat
  <2>1. T \in SUBSET Nat
    OBVIOUS
  <2> HIDE DEF T
  <2> QED BY <1>1, <1>2, <2>1, NatSet
<1>4. b - a \in T
  <2>1. b - a \in Nat
    OBVIOUS
  <2> HIDE DEF T
  <2> QED BY <1>3, <2>1
<1>5. a + (b - a) = b
  OBVIOUS
<1> QED BY <1>4, <1>5

-----------------------------------------------------------------------------
(* The invariant.                                                          *)

\* Where the bytes of each descriptor of a chain begin among them.
Offsets(ch) == CHOOSE off : Begins(Buffers(ch), off)
Cur == chain[fetch_ptr]
Begun == Offsets(chain)[fetch_ptr]

\* Where the engine waits for memory, and where it is at a descriptor.
Waits == {"D_FETCH_LO_W", "D_FETCH_HI_W", "D_MEM_RD_W", "D_FLUSH_W"}
Fetches == {"D_FETCH_LO", "D_FETCH_LO_W"}
Serves == {"D_RUN", "D_MEM_RD", "D_MEM_RD_W", "D_FLUSH", "D_FLUSH_W", "D_ADVANCE"}
Loaded == Serves \union {"D_FETCH_HI", "D_FETCH_HI_W", "D_EVAL", "D_DESC_END"}
Flushing == {"D_FLUSH", "D_FLUSH_W"}

\* A byte was moved that the cursor has yet to pass.
Pending == dstate = "D_ADVANCE" \/ (dstate \in Flushing /\ fl_next = "FN_ADVANCE")

\* The request in the memory is the one the engine waits for.
MemInv ==
    /\ DOMAIN dma = {"req", "we", "addr", "data", "be"}
    /\ DOMAIN mem = {"st", "we", "addr", "data", "be"}
    /\ dma.req <=> dstate \in Waits
    /\ mem.st \in {"idle", "busy", "answers"}
    /\ mem.st # "idle" =>
          /\ dma.req /\ mem.we = dma.we /\ mem.addr = dma.addr /\ mem.data = dma.data
          /\ dma.we => mem.be = dma.be
    /\ dstate = "D_FETCH_LO_W" => ~dma.we /\ dma.addr = <<"lo", fetch_ptr>>
    /\ dstate = "D_FETCH_HI_W" => ~dma.we /\ dma.addr = <<"hi", fetch_ptr>>
    /\ dstate = "D_MEM_RD_W" => ~dma.we /\ dma.addr = <<"word", Ch!Word>>
    /\ dstate = "D_FLUSH_W" =>
          dma.we /\ dma.addr = <<"word", waddr>> /\ dma.data = wbuf /\ dma.be = wbe

\* The engine works for a driver that runs it, and rests without one.
DrvInv ==
    /\ drv \in {"idle", "armed", "run", "reset"}
    /\ ctrl_active => drv = "run"
    /\ drv = "run" => ~ctrl_reset /\ ~dev_reset
    /\ drv # "run" => dstate = "D_IDLE"
    /\ drv = "armed" => nbdp = 1 /\ \A a \in Addrs : ram[a] = 10 * cmd + a
    /\ dstate \in Loaded \union Fetches \union {"D_IDLE", "D_COMPLETE"}

\* The target asks while its phase is open and there are bytes left, and an
\* acknowledgement comes in the clock after the byte.
DevInv ==
    /\ DOMAIN dev = {"open", "req", "taken", "eop", "dir_in"}
    /\ dev.req \in BOOLEAN /\ dev.dir_in \in BOOLEAN /\ dev_ack \in BOOLEAN
    /\ dev.req => dev.open
    /\ eop_lat \/ dev.eop => ~dev.open
    /\ drv = "run" => dev.taken \in 0..Total /\ (dev.req => dev.taken < Total)
    /\ dev_ack => dev.req /\ dstate \in {"D_ADVANCE", "D_FLUSH"}
    /\ dstate \in {"D_MEM_RD", "D_MEM_RD_W"} => dev.req /\ ~dev.dir_in

\* The cursor is where the bytes that were moved end, until the target leaves.
WalkInv ==
    /\ chain \in Chains
    /\ dstate \in Fetches \union Loaded => fetch_ptr \in DOMAIN chain
    /\ dstate \in Loaded =>
          /\ count \in 0..Cur.count /\ cbp = Cur.bp + (Cur.count - count)
          /\ desc_eox = Cur.eox
    /\ dstate \in Loaded \ {"D_FETCH_HI", "D_FETCH_HI_W"} => nbdp = Cur.next
    /\ dstate \in Serves => count # 0
    /\ dstate \in Fetches /\ dev.open => Moved = Begun
    /\ dstate \in Loaded /\ dev.open =>
          Moved = Begun + (Cur.count - count) + (IF Pending THEN 1 ELSE 0)
    /\ dstate = "D_DESC_END" /\ dev.open => count = 0

\* Bytes are held where they can still be written.
HeldInv ==
    /\ DOMAIN wbuf = Ch!Lanes /\ wbe \subseteq Ch!Lanes
    /\ wbe # {} => dstate \in {"D_RUN", "D_FLUSH", "D_FLUSH_W", "D_ADVANCE"}
    /\ wbe # {} \/ dstate \in Flushing => dev.dir_in
    /\ dstate = "D_ADVANCE" /\ count = 1 => wbe = {}

\* What memory holds.
RamInv ==
    drv = "run" =>
        IF dev.dir_in
        THEN /\ \A a \in Addrs :
                   (\A n \in 1..Moved : Places[n] # a) => ram[a] = 10 * cmd + a /\ ~HeldAt(a)
             /\ \A a \in Addrs : \A n \in 1..Moved :
                   Places[n] = a => IF HeldAt(a) THEN wbuf[a % LANES] = In(n)
                                    ELSE ram[a] = In(n)
        ELSE \A a \in Addrs : ram[a] = 10 * cmd + a

\* What the engine read of it.
ReadInv ==
    drv = "run" /\ ~dev.dir_in =>
        /\ rvalid => \A l \in Ch!Lanes :
              raddr * LANES + l \in Addrs => rbuf[l] = 10 * cmd + (raddr * LANES + l)
        /\ dev_ack => dev_rdata = 10 * cmd + Places[dev.taken + 1]

IInv == MemInv /\ DrvInv /\ DevInv /\ WalkInv /\ HeldInv /\ RamInv /\ ReadInv

-----------------------------------------------------------------------------
(* Chains.                                                                 *)

LEMMA Division ==
    ASSUME NEW a \in Nat, NEW b \in Nat \ {0}
    PROVE  /\ a \div b \in Nat /\ (a % b) \in 0..(b - 1)
           /\ a = (a \div b) * b + (a % b)
  OBVIOUS

\* An address is its word's and its lane's.
LEMMA Divides ==
    ASSUME NEW a \in Nat
    PROVE  /\ a \div LANES \in Nat /\ a % LANES \in Ch!Lanes
           /\ a = (a \div LANES) * LANES + (a % LANES)
<1>1. LANES \in Nat \ {0}
  BY ChannelAssumption
<1>2. \A b \in Nat \ {0} : a \div b \in Nat /\ (a % b) \in 0..(b - 1) /\ a = (a \div b) * b + (a % b)
  BY Division
<1>3. a \div LANES \in Nat /\ a = (a \div LANES) * LANES + (a % LANES)
  BY <1>1, <1>2, Zenon
<1>4. a % LANES \in 0..(LANES - 1)
  BY <1>1, <1>2
<1>5. a % LANES \in Ch!Lanes
  BY <1>4 DEF Ch!Lanes
<1> QED BY <1>3, <1>5

\* An address is a word and a lane of it.
LEMMA SameAddress ==
    ASSUME NEW a \in Nat, NEW b \in Nat, a \div LANES = b \div LANES, a % LANES = b % LANES
    PROVE  a = b
<1> DEFINE at(q, r) == q * LANES + r
<1>1. a = at(a \div LANES, a % LANES) /\ b = at(b \div LANES, b % LANES)
  BY Divides, Zenon
<1> HIDE DEF at
<1> QED BY <1>1

\* The bytes of a chain, descriptor after descriptor.
LEMMA ChainOffsets ==
    ASSUME NEW ch \in Chains
    PROVE  /\ Begins(Buffers(ch), Offsets(ch)) /\ PlacesOf(ch) \in Seq(Addrs)
           /\ Len(Buffers(ch)) = Len(ch)
           /\ \A d \in DOMAIN ch : Len(Buffers(ch)[d]) = ch[d].count
<1>1. Len(ch) \in Nat \ {0} /\ DOMAIN ch = 1..Len(ch)
  BY PathAssumption
<1>2. \A d \in DOMAIN ch :
         /\ ch[d].bp \in Nat /\ ch[d].count \in Nat
         /\ ch[d].bp + ch[d].count <= Words * LANES
  BY PathAssumption
<1>3. Words * LANES \in Nat
  BY PathAssumption, ChannelAssumption
<1>4. \A d \in DOMAIN ch :
         /\ Buffers(ch)[d] \in Seq(Addrs) /\ Len(Buffers(ch)[d]) = ch[d].count
  <2> TAKE d \in DOMAIN ch
  <2> DEFINE top == Words * LANES
  <2>1. Buffers(ch)[d] = [i \in 1..ch[d].count |-> ch[d].bp + i - 1]
    BY DEF Buffers
  <2>2. top \in Nat /\ ch[d].bp + ch[d].count <= top /\ Addrs = 0..(top - 1)
    BY <1>2, <1>3 DEF Addrs
  <2> HIDE DEF top
  <2>3. \A i \in 1..ch[d].count : ch[d].bp + i - 1 \in Addrs
    BY <1>2, <2>2
  <2> QED BY <1>2, <2>1, <2>3
<1>5. Buffers(ch) \in Seq(Seq(Addrs)) /\ Len(Buffers(ch)) = Len(ch)
  BY <1>1, <1>4 DEF Buffers
<1>6. Buffers(ch) # <<>>
  BY <1>1, <1>5
<1>7. FlattenSeq(Buffers(ch)) \in Seq(Addrs) /\ \E off : Begins(Buffers(ch), off)
  BY <1>5, <1>6, Flattening
<1> QED BY <1>4, <1>5, <1>7 DEF Offsets, PlacesOf

\* Where the bytes of a descriptor go, and where its link leads.
LEMMA ChainWalk ==
    ASSUME InOrder, NEW ch \in Chains, NEW d \in DOMAIN ch
    PROVE  LET off == Offsets(ch)
           IN  /\ off[d] \in Nat
               /\ \A k \in 0..(ch[d].count - 1) :
                     /\ off[d] + k + 1 \in 1..Len(PlacesOf(ch))
                     /\ PlacesOf(ch)[off[d] + k + 1] = ch[d].bp + k
                     /\ ch[d].bp + k \in Addrs
               /\ ~ch[d].eox => off[ch[d].next] = off[d] + ch[d].count
<1> DEFINE s == Buffers(ch)
           off == Offsets(ch)
<1>1. /\ Begins(s, off) /\ PlacesOf(ch) \in Seq(Addrs) /\ Len(s) = Len(ch)
      /\ \A e \in DOMAIN ch : Len(s[e]) = ch[e].count
  BY ChainOffsets
<1>2. /\ Len(ch) \in Nat /\ DOMAIN ch = 1..Len(ch) /\ ch[d].count \in Nat /\ ch[d].bp \in Nat
      /\ ch[d].next \in DOMAIN ch /\ \A e \in DOMAIN ch : ch[e].count \in Nat
  BY PathAssumption
<1>3. s[d] = [i \in 1..ch[d].count |-> ch[d].bp + i - 1]
  BY DEF Buffers
<1>4. off[d] \in Nat /\ off[d + 1] = off[d] + ch[d].count
  BY <1>1, <1>2 DEF Begins
<1>5. ASSUME NEW k \in 0..(ch[d].count - 1)
      PROVE  /\ off[d] + k + 1 \in 1..Len(PlacesOf(ch))
             /\ PlacesOf(ch)[off[d] + k + 1] = ch[d].bp + k
             /\ ch[d].bp + k \in Addrs
  <2>1. PICK i : i = k + 1
    OBVIOUS
  <2>2. i \in 1..ch[d].count /\ s[d][i] = ch[d].bp + k
    <3>1. i \in 1..ch[d].count /\ ch[d].bp + i - 1 = ch[d].bp + k
      BY <1>2, <2>1
    <3> HIDE DEF s
    <3> QED BY <1>3, <3>1
  <2>3. off[d] + i \in 1..Len(PlacesOf(ch)) /\ PlacesOf(ch)[off[d] + i] = s[d][i]
    BY <1>1, <1>2, <2>2 DEF Begins, PlacesOf
  <2>4. off[d] + k + 1 = off[d] + i
    BY <1>4, <2>1
  <2>5. PlacesOf(ch)[off[d] + i] \in Addrs
    BY <1>1, <2>3
  <2> QED BY <2>2, <2>3, <2>4, <2>5
<1>6. ASSUME ~ch[d].eox PROVE off[ch[d].next] = off[d + 1]
  <2>1. PICK t, o, m, n : t = s /\ o = off /\ m = d + 1 /\ n = ch[d].next
    OBVIOUS
  <2>2. /\ Begins(t, o) /\ Len(t) = Len(ch) /\ \A e \in DOMAIN ch : Len(t[e]) = ch[e].count
    BY <1>1, <2>1
  <2>3. /\ m \in 1..(Len(t) + 1) /\ n \in 1..(Len(t) + 1) /\ Len(t) \in Nat
    BY <1>2, <2>1, <2>2
  <2> HIDE DEF s, off
  <2>4. \A e \in 1..Len(t) : (e < m /\ ~(e < n)) \/ (~(e < m) /\ e < n) => Len(t[e]) = 0
    <3> TAKE e \in 1..Len(t)
    <3>1. e \in DOMAIN ch /\ Len(t[e]) = ch[e].count /\ ch[e].count \in Nat
      BY <1>2, <2>2
    <3>2. ch[e].count > 0 => (e <= d <=> e < n)
      BY <1>6, <2>1, <3>1 DEF InOrder
    <3> QED BY <1>2, <2>1, <3>1, <3>2
  <2>5. CASE m <= n
    <3>1. \A e \in 1..Len(t) : m <= e /\ e < n => Len(t[e]) = 0
      BY <2>3, <2>4
    <3>2. o[m] = o[n]
      BY <2>2, <2>3, <2>5, <3>1, EmptyPieces
    <3> QED BY <2>1, <3>2
  <2>6. CASE n <= m
    <3>1. \A e \in 1..Len(t) : n <= e /\ e < m => Len(t[e]) = 0
      BY <2>3, <2>4
    <3>2. o[n] = o[m]
      BY <2>2, <2>3, <2>6, <3>1, EmptyPieces
    <3> QED BY <2>1, <3>2
  <2> QED BY <2>3, <2>5, <2>6
<1> QED BY <1>4, <1>5, <1>6

-----------------------------------------------------------------------------
(* Clocks of the engine.                                                   *)

\* Accesses in which the driver neither stops, starts nor programs it.
Plain == {NoPio, ReadCtrl, Release}

LEMMA InputsAre ==
    ASSUME NEW pio
    PROVE  /\ Inputs(pio).pio = pio /\ Inputs(pio).ack = (mem.st = "answers")
           /\ Inputs(pio).rdata = Read /\ Inputs(pio).req = dev.req
           /\ Inputs(pio).dir_in = dev.dir_in /\ Inputs(pio).byte = In(dev.taken + 1)
           /\ Inputs(pio).eop = dev.eop
  BY DEF Inputs

LEMMA PlainAccess ==
    ASSUME NEW pio \in Plain
    PROVE  /\ ~Ch!Stops(Inputs(pio)) /\ ~Ch!Resets(Inputs(pio)) /\ ~Ch!Goes(Inputs(pio))
           /\ pio.kind # "nbdp" /\ (pio # Release => pio.kind # "ctrl")
  BY InputsAre DEF Plain, NoPio, ReadCtrl, Release, Ctrl, Ch!Stops, Ch!Resets, Ch!Goes,
     Ch!WritesCtrl

\* A driver that waits comes to an engine that is idle or waits for a byte.
LEMMA ComesToRest ==
    ASSUME Patient, MemInv, DrvInv, Comes, NEW pio
    PROVE  /\ mem.st = "idle" /\ ~dma.req /\ dstate \in {"D_RUN", "D_IDLE"}
           /\ Ch!Moves(Inputs(pio)) = "stays"
<1>1. mem.st = "idle" /\ ~dma.req /\ Ch!Moves(Inputs(NoPio)) = "stays"
  BY DEF Comes, Settled, Patient
<1>2. Ch!Moves(Inputs(pio)) = "stays"
  BY <1>1, MovesApart
<1>3. dstate \notin Waits
  BY <1>1 DEF MemInv
<1>4. dstate \notin {"D_FETCH_LO", "D_FETCH_HI", "D_MEM_RD", "D_FLUSH", "D_ADVANCE",
                     "D_DESC_END", "D_COMPLETE", "D_EVAL"}
  BY <1>1 DEF Ch!Moves, Ch!At, Ch!Answered, Ch!EndOfChain, Ch!Links, Ch!EndsPhase, Ch!Takes,
     Ch!Tires
<1>5. dstate \in {"D_RUN", "D_IDLE"}
  BY <1>3, <1>4 DEF DrvInv, Loaded, Serves, Fetches, Waits
<1> QED BY <1>1, <1>2, <1>5

\* An engine that stays where it is moves no byte and keeps what it knows.
LEMMA EngineRests ==
    ASSUME NEW pio, Clock(pio), Ch!Moves(Inputs(pio)) = "stays", dstate \in {"D_RUN", "D_IDLE"}
    PROVE  /\ dstate = "D_RUN" => ~eop_lat /\ ~dev.req
           /\ UNCHANGED <<cbp, count, desc_eox, wbuf, waddr, rbuf, raddr, dev_rdata>>
           /\ wbe' = IF Ch!Resets(Inputs(pio)) THEN {} ELSE wbe
           /\ rvalid' = (rvalid /\ ~Ch!Goes(Inputs(pio)) /\ ~Ch!Resets(Inputs(pio)))
           /\ fetch_ptr' = IF Ch!Goes(Inputs(pio)) THEN nbdp ELSE fetch_ptr
           /\ nbdp' = IF pio.kind = "nbdp" THEN pio.value ELSE nbdp
           /\ dev_ack' = FALSE
           /\ dma' = [dma EXCEPT !.req = dma.req /\ mem.st # "answers"]
           /\ eop_lat' => dev.eop \/ eop_lat
           /\ Ch!Goes(Inputs(pio)) => ~eop_lat'
<1> DEFINE in == Inputs(pio)
<1>1. dstate = "D_RUN" => ~eop_lat /\ ~dev.req
  <2> SUFFICES ASSUME dstate = "D_RUN" PROVE ~eop_lat /\ ~dev.req
    OBVIOUS
  <2>1. ~eop_lat
    BY DEF Ch!Moves, Ch!At, Ch!Answered, Ch!EndOfChain, Ch!Links, Ch!EndsPhase
  <2>2. ~Ch!Takes(in)
    BY <2>1 DEF Ch!Moves, Ch!At, Ch!Answered, Ch!EndOfChain, Ch!Links, Ch!EndsPhase,
       Ch!GivesHeld
  <2> QED BY <2>1, <2>2, InputsAre DEF Ch!Takes, Ch!At
<1>2. /\ ~Ch!TakesIn(in) /\ ~Ch!GivesHeld(in) /\ ~Ch!EndsPhase
      /\ \A st : Ch!Answered(st, in) => st \in {"D_RUN", "D_IDLE"}
      /\ \A st : Ch!At(st) <=> dstate = st
  BY <1>1, InputsAre DEF Ch!TakesIn, Ch!GivesHeld, Ch!Takes, Ch!At, Ch!Answered, Ch!EndsPhase
<1>3. /\ Ch!Descriptor(in) /\ Ch!Bytes(in) /\ Ch!Master(in)
      /\ in.pio = pio /\ in.eop = dev.eop /\ in.ack = (mem.st = "answers")
  BY InputsAre DEF Clock, Ch!Clock
<1> HIDE DEF in
<1>7. /\ ~Ch!Answered("D_FETCH_LO_W", in) /\ ~Ch!Answered("D_FETCH_HI_W", in)
      /\ ~Ch!Answered("D_MEM_RD_W", in) /\ ~Ch!Answered("D_FLUSH_W", in)
      /\ ~Ch!At("D_ADVANCE") /\ ~Ch!At("D_DESC_END") /\ ~Ch!Links
  BY DEF Ch!At, Ch!Answered, Ch!Links
<1>4. /\ UNCHANGED <<cbp, count, desc_eox>>
      /\ fetch_ptr' = IF Ch!Goes(in) THEN nbdp ELSE fetch_ptr
      /\ nbdp' = IF pio.kind = "nbdp" THEN pio.value ELSE nbdp
      /\ eop_lat' = IF Ch!Goes(in) THEN FALSE ELSE Ch!Eop(in)
  BY <1>2, <1>3, <1>7 DEF Ch!Descriptor
<1>8. Ch!Eop(in) => dev.eop \/ eop_lat
  BY <1>3 DEF Ch!Eop
<1>5. /\ UNCHANGED <<wbuf, waddr, rbuf, raddr, dev_rdata>>
      /\ wbe' = IF Ch!Resets(in) THEN {} ELSE wbe
      /\ rvalid' = (rvalid /\ ~Ch!Goes(in) /\ ~Ch!Resets(in))
      /\ dev_ack' = FALSE
  BY <1>2, <1>3, <1>7 DEF Ch!Bytes, Ch!Forgets
<1>6. dma' = [dma EXCEPT !.req = dma.req /\ mem.st # "answers"]
  BY <1>3 DEF Ch!Master, Ch!Held, Ch!At
<1> QED BY <1>1, <1>4, <1>5, <1>6, <1>8 DEF in

\* Where the engine goes from a place other than D_RUN.
LEMMA EngineGoes ==
    ASSUME NEW pio \in Plain, Clock(pio), dstate # "D_RUN"
    PROVE  LET answered == mem.st = "answers"
           IN  /\ fl_next' = fl_next
               /\ dstate = "D_IDLE" => dstate' = "D_IDLE"
               /\ dstate = "D_FETCH_LO" => dstate' = "D_FETCH_LO_W"
               /\ dstate = "D_FETCH_LO_W" =>
                     dstate' = IF answered THEN "D_FETCH_HI" ELSE "D_FETCH_LO_W"
               /\ dstate = "D_FETCH_HI" => dstate' = "D_FETCH_HI_W"
               /\ dstate = "D_FETCH_HI_W" =>
                     dstate' = IF answered THEN "D_EVAL" ELSE "D_FETCH_HI_W"
               /\ dstate = "D_EVAL" =>
                     \/ count = 0 /\ dstate' = "D_COMPLETE"
                     \/ count = 0 /\ ~desc_eox /\ dstate' = "D_FETCH_LO"
                     \/ count # 0 /\ dstate' = "D_RUN"
               /\ dstate = "D_MEM_RD" => dstate' = "D_MEM_RD_W"
               /\ dstate = "D_MEM_RD_W" =>
                     dstate' = IF answered THEN "D_ADVANCE" ELSE "D_MEM_RD_W"
               /\ dstate = "D_FLUSH" => dstate' = "D_FLUSH_W"
               /\ dstate = "D_FLUSH_W" =>
                     dstate' = IF ~answered THEN "D_FLUSH_W"
                               ELSE IF fl_next = "FN_ADVANCE" THEN "D_ADVANCE"
                               ELSE IF fl_next = "FN_RUN" THEN "D_RUN" ELSE "D_IDLE"
               /\ dstate = "D_ADVANCE" =>
                     dstate' = IF count = 1 THEN "D_DESC_END" ELSE "D_RUN"
               /\ dstate = "D_DESC_END" =>
                     dstate' = IF desc_eox THEN "D_COMPLETE" ELSE "D_FETCH_LO"
               /\ dstate = "D_COMPLETE" => dstate' = "D_IDLE"
<1> DEFINE in == Inputs(pio)
<1>1. /\ dstate' = IF Ch!Moves(in) = "stays" THEN dstate ELSE Ch!Moves(in)
      /\ fl_next' = fl_next
  BY PlainAccess DEF Clock, Ch!Clock, Ch!Sequencer, Ch!PioState, Ch!AfterFlush, Ch!TakesIn,
     Ch!Takes, Ch!At
<1>2. in.ack = (mem.st = "answers")
  BY InputsAre
<1> HIDE DEF in
<1> QED
  BY <1>1, <1>2 DEF Ch!Moves, Ch!At, Ch!Answered, Ch!EndOfChain, Ch!Links, Ch!EndsPhase,
     Ch!Takes, Ch!Tires

\* What a clock leaves of the bytes when none moves.
LEMMA BytesRest ==
    ASSUME NEW pio \in Plain, Clock(pio), dstate \notin {"D_RUN", "D_MEM_RD_W"}
    PROVE  /\ UNCHANGED <<wbuf, waddr, rbuf, raddr, dev_rdata>>
           /\ dev_ack' = FALSE /\ (rvalid' => rvalid)
           /\ wbe' = IF dstate = "D_FLUSH_W" /\ mem.st = "answers" THEN {} ELSE wbe
<1> DEFINE in == Inputs(pio)
<1>1. /\ ~Ch!TakesIn(in) /\ ~Ch!GivesHeld(in) /\ ~Ch!Answered("D_MEM_RD_W", in)
      /\ Ch!Answered("D_FLUSH_W", in) <=> dstate = "D_FLUSH_W" /\ mem.st = "answers"
  BY InputsAre DEF Ch!TakesIn, Ch!GivesHeld, Ch!Takes, Ch!At, Ch!Answered
<1>2. Ch!Bytes(in) /\ ~Ch!Resets(in)
  BY PlainAccess DEF Clock, Ch!Clock
<1> QED BY <1>1, <1>2 DEF Ch!Bytes

\* What it leaves of the cursor.
LEMMA CursorRest ==
    ASSUME NEW pio \in Plain, Clock(pio)
    PROVE  /\ dstate \notin {"D_FETCH_LO_W", "D_ADVANCE"} => UNCHANGED <<cbp, count>>
           /\ dstate = "D_ADVANCE" => cbp' = cbp + 1 /\ count' = count - 1
           /\ dstate # "D_FETCH_LO_W" => UNCHANGED desc_eox
           /\ dstate = "D_FETCH_LO_W" =>
                 IF mem.st = "answers"
                 THEN cbp' = Read.bp /\ count' = Read.count /\ desc_eox' = Read.eox
                 ELSE UNCHANGED <<cbp, count, desc_eox>>
           /\ dstate # "D_FETCH_HI_W" \/ mem.st # "answers" => UNCHANGED nbdp
           /\ dstate = "D_FETCH_HI_W" /\ mem.st = "answers" => nbdp' = Read.next
           /\ fetch_ptr' = fetch_ptr \/ (dstate \in {"D_EVAL", "D_DESC_END"} /\ fetch_ptr' = nbdp)
           /\ dstate \in {"D_EVAL", "D_DESC_END"} /\ dstate' = "D_FETCH_LO" => fetch_ptr' = nbdp
           /\ eop_lat' => dev.eop \/ eop_lat
<1> DEFINE in == Inputs(pio)
<1>1. /\ \A st : Ch!Answered(st, in) <=> dstate = st /\ mem.st = "answers"
      /\ \A st : Ch!At(st) <=> dstate = st
  BY InputsAre DEF Ch!At, Ch!Answered
<1>2. Ch!Descriptor(in) /\ ~Ch!Goes(in) /\ pio.kind # "nbdp" /\ in.pio = pio
      /\ in.rdata = Read /\ in.eop = dev.eop
  BY PlainAccess, InputsAre DEF Clock, Ch!Clock
<1>3. /\ cbp' = IF dstate = "D_FETCH_LO_W" /\ mem.st = "answers" THEN Read.bp
                ELSE IF dstate = "D_ADVANCE" THEN cbp + 1 ELSE cbp
      /\ count' = IF dstate = "D_FETCH_LO_W" /\ mem.st = "answers" THEN Read.count
                  ELSE IF dstate = "D_ADVANCE" THEN count - 1 ELSE count
      /\ desc_eox' = IF dstate = "D_FETCH_LO_W" /\ mem.st = "answers" THEN Read.eox
                     ELSE desc_eox
      /\ nbdp' = IF dstate = "D_FETCH_HI_W" /\ mem.st = "answers" THEN Read.next ELSE nbdp
      /\ eop_lat' => dev.eop \/ eop_lat
  BY <1>1, <1>2 DEF Ch!Descriptor, Ch!Eop
<1>4. fetch_ptr' = IF Ch!Links \/ (Ch!At("D_DESC_END") /\ ~desc_eox) THEN nbdp ELSE fetch_ptr
  BY <1>2 DEF Ch!Descriptor
<1>5. CASE dstate \in {"D_EVAL", "D_DESC_END"} /\ dstate' = "D_FETCH_LO"
  <2>1. Ch!Links \/ (Ch!At("D_DESC_END") /\ ~desc_eox)
    <3>1. dstate' = IF Ch!Moves(in) = "stays" THEN dstate ELSE Ch!Moves(in)
      BY PlainAccess DEF Clock, Ch!Clock, Ch!Sequencer, Ch!PioState
    <3> HIDE DEF in
    <3> QED
      BY <1>5, <3>1 DEF Ch!Moves, Ch!At, Ch!Answered, Ch!EndOfChain, Ch!Links, Ch!EndsPhase,
         Ch!Takes, Ch!Tires
  <2> QED BY <1>3, <1>4, <1>5, <2>1
<1>6. CASE ~(dstate \in {"D_EVAL", "D_DESC_END"} /\ dstate' = "D_FETCH_LO")
  <2>1. Ch!Links \/ (Ch!At("D_DESC_END") /\ ~desc_eox) => dstate \in {"D_EVAL", "D_DESC_END"}
    BY DEF Ch!Links, Ch!At
  <2> QED BY <1>3, <1>4, <1>6, <2>1
<1> QED BY <1>5, <1>6

\* What is asked of memory.
LEMMA MasterStep ==
    ASSUME NEW pio \in Plain, Clock(pio), MemInv
    PROVE  /\ DOMAIN dma' = {"req", "we", "addr", "data", "be"}
           /\ dstate = "D_FETCH_LO" => dma'.req /\ ~dma'.we /\ dma'.addr = <<"lo", fetch_ptr>>
           /\ dstate = "D_FETCH_HI" => dma'.req /\ ~dma'.we /\ dma'.addr = <<"hi", fetch_ptr>>
           /\ dstate = "D_MEM_RD" => dma'.req /\ ~dma'.we /\ dma'.addr = <<"word", Ch!Word>>
           /\ dstate = "D_FLUSH" => /\ dma'.req /\ dma'.we /\ dma'.addr = <<"word", waddr>>
                                    /\ dma'.data = wbuf /\ dma'.be = wbe
           /\ dstate \notin {"D_FETCH_LO", "D_FETCH_HI", "D_MEM_RD", "D_FLUSH"} =>
                 /\ dma'.req = (dma.req /\ mem.st # "answers")
                 /\ dma'.we = dma.we /\ dma'.addr = dma.addr /\ dma'.data = dma.data
                 /\ dma'.be = dma.be
<1> DEFINE in == Inputs(pio)
<1>1. Ch!Master(in) /\ in.ack = (mem.st = "answers")
  BY InputsAre DEF Clock, Ch!Clock
<1>2. DOMAIN dma = {"req", "we", "addr", "data", "be"}
  BY DEF MemInv
<1> HIDE DEF in
<1>3. CASE dstate = "D_FETCH_LO"
  BY <1>1, <1>2, <1>3 DEF Ch!Master, Ch!At
<1>4. CASE dstate = "D_FETCH_HI"
  BY <1>1, <1>2, <1>4 DEF Ch!Master, Ch!At
<1>5. CASE dstate = "D_MEM_RD"
  BY <1>1, <1>2, <1>5 DEF Ch!Master, Ch!At
<1>6. CASE dstate = "D_FLUSH"
  BY <1>1, <1>2, <1>6 DEF Ch!Master, Ch!At
<1>7. CASE dstate \notin {"D_FETCH_LO", "D_FETCH_HI", "D_MEM_RD", "D_FLUSH"}
  <2>1. dma' = [dma EXCEPT !.req = dma.req /\ mem.st # "answers"]
    BY <1>1, <1>7 DEF Ch!Master, Ch!At, Ch!Held
  <2> QED BY <1>2, <1>7, <2>1
<1> QED BY <1>3, <1>4, <1>5, <1>6, <1>7

\* What an engine at work on a descriptor does: the end of the phase, a byte to
\* memory, a word to be written first, a byte or a word for the target, held
\* bytes that have waited enough, or nothing.
LEMMA EngineRuns ==
    ASSUME NEW pio \in Plain, Clock(pio), dstate = "D_RUN"
    PROVE  LET keeps == UNCHANGED <<wbuf, wbe, waddr>> /\ dev_ack' = FALSE
           IN  /\ UNCHANGED <<rbuf, raddr>> /\ (rvalid' => rvalid)
               /\ \/ /\ eop_lat /\ keeps
                     /\ \/ wbe # {} /\ dstate' = "D_FLUSH" /\ fl_next' = "FN_RUN"
                        \/ wbe = {} /\ dstate' = "D_DESC_END"
                  \/ /\ dev.req /\ dev.dir_in /\ (wbe = {} \/ Ch!Word = waddr)
                     /\ wbuf' = [wbuf EXCEPT ![Ch!Lane] = In(dev.taken + 1)]
                     /\ wbe' = wbe \union {Ch!Lane} /\ waddr' = Ch!Word /\ dev_ack' = TRUE
                     /\ \/ dstate' = "D_FLUSH" /\ fl_next' = "FN_ADVANCE"
                        \/ count # 1 /\ dstate' = "D_ADVANCE"
                  \/ /\ dev.req /\ dev.dir_in /\ wbe # {} /\ keeps
                     /\ dstate' = "D_FLUSH" /\ fl_next' = "FN_RUN"
                  \/ /\ dev.req /\ ~dev.dir_in /\ rvalid /\ raddr = Ch!Word
                     /\ UNCHANGED <<wbuf, wbe, waddr>> /\ dev_ack' = TRUE
                     /\ dev_rdata' = rbuf[Ch!Lane] /\ dstate' = "D_ADVANCE"
                  \/ dev.req /\ ~dev.dir_in /\ keeps /\ dstate' = "D_MEM_RD"
                  \/ /\ wbe # {} /\ keeps
                     /\ dstate' = "D_FLUSH" /\ fl_next' = "FN_RUN"
                  \/ keeps /\ dstate' = "D_RUN" /\ fl_next' = fl_next
<1> DEFINE in == Inputs(pio)
<1>1. /\ dstate' = IF Ch!Moves(in) = "stays" THEN dstate ELSE Ch!Moves(in)
      /\ fl_next' = IF Ch!TakesIn(in) /\ Ch!WordEnds THEN "FN_ADVANCE"
                    ELSE IF Ch!Moves(in) = "D_FLUSH" THEN "FN_RUN" ELSE fl_next
  BY PlainAccess DEF Clock, Ch!Clock, Ch!Sequencer, Ch!PioState, Ch!AfterFlush, Ch!At
<1>2. /\ wbuf' = IF Ch!TakesIn(in) THEN [wbuf EXCEPT ![Ch!Lane] = In(dev.taken + 1)] ELSE wbuf
      /\ wbe' = IF Ch!TakesIn(in) THEN wbe \union {Ch!Lane} ELSE wbe
      /\ waddr' = IF Ch!TakesIn(in) THEN Ch!Word ELSE waddr
      /\ UNCHANGED <<rbuf, raddr>> /\ (rvalid' => rvalid)
      /\ dev_ack' = (Ch!TakesIn(in) \/ Ch!GivesHeld(in))
      /\ Ch!GivesHeld(in) => dev_rdata' = rbuf[Ch!Lane]
  BY PlainAccess, InputsAre DEF Clock, Ch!Clock, Ch!Bytes, Ch!Answered
<1>3. /\ (Ch!EndsPhase <=> eop_lat) /\ (Ch!Takes(in) <=> ~eop_lat /\ dev.req)
      /\ in.dir_in = dev.dir_in
  BY InputsAre DEF Ch!EndsPhase, Ch!Takes, Ch!At
<1> HIDE DEF in
<1>4. /\ Ch!EndsPhase =>
            Ch!Moves(in) = IF wbe # {} THEN "D_FLUSH" ELSE "D_DESC_END"
      /\ ~Ch!EndsPhase /\ Ch!Takes(in) /\ in.dir_in =>
            Ch!Moves(in) = IF Ch!OtherWord \/ Ch!WordEnds THEN "D_FLUSH" ELSE "D_ADVANCE"
      /\ ~Ch!EndsPhase /\ Ch!Takes(in) /\ ~in.dir_in =>
            Ch!Moves(in) = IF Ch!GivesHeld(in) THEN "D_ADVANCE" ELSE "D_MEM_RD"
      /\ ~Ch!EndsPhase /\ ~Ch!Takes(in) =>
            Ch!Moves(in) = IF Ch!Tires(in) THEN "D_FLUSH" ELSE "stays"
  BY DEF Ch!Moves, Ch!At, Ch!Answered, Ch!EndOfChain, Ch!Links, Ch!EndsPhase, Ch!Takes,
     Ch!Tires
<1>5. /\ Ch!TakesIn(in) = (Ch!Takes(in) /\ in.dir_in /\ ~Ch!OtherWord)
      /\ Ch!GivesHeld(in) = (Ch!Takes(in) /\ ~in.dir_in /\ rvalid /\ raddr = Ch!Word)
      /\ Ch!OtherWord = (wbe # {} /\ Ch!Word # waddr)
  BY DEF Ch!TakesIn, Ch!GivesHeld, Ch!OtherWord
<1>6. /\ ~Ch!WordEnds => count # 1
      /\ Ch!Tires(in) => wbe # {}
  BY DEF Ch!WordEnds, Ch!Tires
<1>7. CASE eop_lat
  BY <1>1, <1>2, <1>3, <1>4, <1>5, <1>7
<1>8. CASE ~eop_lat /\ dev.req /\ dev.dir_in /\ ~Ch!OtherWord
  BY <1>1, <1>2, <1>3, <1>4, <1>5, <1>6, <1>8
<1>9. CASE ~eop_lat /\ dev.req /\ dev.dir_in /\ Ch!OtherWord
  BY <1>1, <1>2, <1>3, <1>4, <1>5, <1>9
<1>10. CASE ~eop_lat /\ dev.req /\ ~dev.dir_in
  BY <1>1, <1>2, <1>3, <1>4, <1>5, <1>10
<1>11. CASE ~eop_lat /\ ~dev.req
  BY <1>1, <1>2, <1>3, <1>4, <1>5, <1>6, <1>11
<1> QED BY <1>7, <1>8, <1>9, <1>10, <1>11

\* An acknowledgement follows a byte that was taken or given, or the word that
\* was read for one.
LEMMA AckStep ==
    ASSUME NEW pio \in Plain, Clock(pio), dstate = "D_MEM_RD_W"
    PROVE  /\ UNCHANGED <<wbuf, wbe, waddr>>
           /\ dev_ack' = (mem.st = "answers")
           /\ IF mem.st = "answers"
              THEN /\ rbuf' = Read.word /\ raddr' = Ch!Word
                   /\ dev_rdata' = Read.word[Ch!Lane]
              ELSE UNCHANGED <<rbuf, raddr, dev_rdata>> /\ (rvalid' => rvalid)
<1> DEFINE in == Inputs(pio)
<1>1. /\ ~Ch!TakesIn(in) /\ ~Ch!GivesHeld(in) /\ ~Ch!Answered("D_FLUSH_W", in)
      /\ Ch!Answered("D_MEM_RD_W", in) <=> mem.st = "answers"
      /\ in.rdata = Read
  BY InputsAre DEF Ch!TakesIn, Ch!GivesHeld, Ch!Takes, Ch!At, Ch!Answered
<1>2. Ch!Bytes(in) /\ ~Ch!Resets(in)
  BY PlainAccess DEF Clock, Ch!Clock
<1> QED BY <1>1, <1>2 DEF Ch!Bytes

-----------------------------------------------------------------------------
(* Clocks of memory and of the target.                                     *)

\* The memory takes the request that waits, and answers it.
LEMMA MemoryStep ==
    ASSUME MemClock, MemInv
    PROVE  /\ DOMAIN mem' = {"st", "we", "addr", "data", "be"}
           /\ mem'.st \in {"idle", "busy", "answers"}
           /\ mem.st = "idle" /\ ~dma.req => mem'.st = "idle"
           /\ mem.st = "answers" => mem'.st = "idle"
           /\ mem'.st # "idle" =>
                 /\ dma.req /\ mem'.we = dma.we /\ mem'.addr = dma.addr /\ mem'.data = dma.data
                 /\ dma.we => mem'.be = dma.be
<1>1. DOMAIN mem = {"st", "we", "addr", "data", "be"}
  BY DEF MemInv
<1>2. CASE Grant
  <2>1. mem' = [st |-> "busy", we |-> dma.we, addr |-> dma.addr, data |-> dma.data,
                be |-> IF dma.we THEN dma.be ELSE {}]
        /\ mem.st = "idle" /\ dma.req
    BY <1>2 DEF Grant
  <2> QED BY <2>1
<1>3. CASE Answer
  <2>1. mem.st = "busy" /\ mem' = [mem EXCEPT !.st = "answers"]
    BY <1>3 DEF Answer
  <2> QED BY <1>1, <2>1 DEF MemInv
<1>4. CASE mem.st = "answers" /\ mem' = Idle
  BY <1>4 DEF Idle
<1>5. CASE mem.st # "answers" /\ mem' = mem
  BY <1>1, <1>5 DEF MemInv
<1> QED BY <1>2, <1>3, <1>4, <1>5 DEF MemClock

\* What memory holds after a clock.
LEMMA RamStep ==
    ASSUME ram' = Written, MemInv, NEW a \in Addrs
    PROVE  /\ ~(dstate = "D_FLUSH_W" /\ mem.st = "answers") => ram'[a] = ram[a]
           /\ dstate = "D_FLUSH_W" /\ mem.st = "answers" =>
                 ram'[a] = IF HeldAt(a) THEN wbuf[a % LANES] ELSE ram[a]
<1>1. ram'[a] = IF mem.st = "answers" /\ mem.we /\ mem.addr[2] = a \div LANES
                   /\ a % LANES \in mem.be
                THEN mem.data[a % LANES] ELSE ram[a]
  BY DEF Written
<1>2. mem.st = "answers" => dma.req /\ dstate \in Waits /\ mem.we = dma.we
  BY DEF MemInv
<1>3. dstate # "D_FLUSH_W" /\ mem.st = "answers" => ~mem.we
  BY <1>2 DEF MemInv, Waits
<1>4. dstate = "D_FLUSH_W" /\ mem.st = "answers" =>
         mem.we /\ mem.addr[2] = waddr /\ mem.data = wbuf /\ mem.be = wbe
  BY <1>2 DEF MemInv
<1> QED BY <1>1, <1>3, <1>4 DEF HeldAt

\* The target keeps its request up until it is answered.
LEMMA TargetStep ==
    ASSUME DevClock, DevInv
    PROVE  /\ DOMAIN dev' = {"open", "req", "taken", "eop", "dir_in"}
           /\ dev'.dir_in = dev.dir_in /\ (dev'.open => dev.open)
           /\ dev'.req \in BOOLEAN /\ (dev'.req => dev'.open)
           /\ dev'.eop => ~dev'.open
           /\ dev'.taken = IF dev.req /\ dev_ack /\ ~dev_reset THEN dev.taken + 1 ELSE dev.taken
           /\ dev'.req => /\ ~dev_ack \/ ~dev.req
                          /\ dev.req \/ dev.taken < Total
           /\ ~dev_reset /\ ctrl_active /\ dev.req /\ ~dev_ack => dev'.req
<1>1. DOMAIN dev = {"open", "req", "taken", "eop", "dir_in"}
  BY DEF DevInv
<1>2. CASE dev_reset
  <2>1. dev' = [dev EXCEPT !.open = FALSE, !.req = FALSE, !.eop = FALSE]
    BY <1>2 DEF DevClock, DevReset
  <2> QED BY <1>1, <1>2, <2>1
<1>3. CASE ~dev_reset /\ DevTakes
  <2>1. dev.req /\ dev_ack /\ dev' = [dev EXCEPT !.req = FALSE, !.taken = @ + 1]
    BY <1>3 DEF DevTakes
  <2> QED BY <1>1, <1>3, <2>1 DEF DevInv
<1>4. CASE ~dev_reset /\ DevAsks
  <2>1. dev.open /\ ~dev.req /\ dev.taken < Total /\ dev' = [dev EXCEPT !.req = TRUE]
    BY <1>4 DEF DevAsks
  <2> QED BY <1>1, <1>4, <2>1 DEF DevInv
<1>5. CASE ~dev_reset /\ DevEnds
  <2>1. dev.open /\ ~dev.req /\ dev' = [dev EXCEPT !.open = FALSE, !.eop = TRUE]
    BY <1>5 DEF DevEnds
  <2> QED BY <1>1, <1>5, <2>1 DEF DevInv
<1>6. CASE ~dev_reset /\ DevWaits
  <2>1. ~(dev.req /\ dev_ack) /\ dev' = [dev EXCEPT !.eop = FALSE]
    BY <1>6 DEF DevWaits
  <2> QED BY <1>1, <1>6, <2>1 DEF DevInv
<1>7. CASE ~dev_reset /\ DevReset
  <2>1. /\ dev' = [dev EXCEPT !.open = FALSE, !.req = FALSE, !.eop = FALSE]
        /\ ~ctrl_active /\ ~dev_ack
    BY <1>7 DEF DevReset
  <2> QED BY <1>1, <1>7, <2>1
<1> QED BY <1>2, <1>3, <1>4, <1>5, <1>6, <1>7 DEF DevClock

-----------------------------------------------------------------------------
(* Clocks in which the driver looks on, or lets a channel out of reset.    *)

PlainStep(pio) ==
    /\ Clock(pio) /\ DevClock /\ ram' = Written /\ UNCHANGED <<drv, cmd, chain>>
    /\ pio = Release => ctrl_reset

\* A channel in use is in no reset.
LEMMA RegistersStep ==
    ASSUME NEW pio \in Plain, PlainStep(pio), DrvInv
    PROVE  /\ ctrl_active' => ctrl_active
           /\ drv = "run" => ~ctrl_reset' /\ ~dev_reset'
<1> DEFINE in == Inputs(pio)
<1>1. Ch!Sequencer(in) /\ in.pio = pio
  BY InputsAre DEF PlainStep, Clock, Ch!Clock
<1>2. ~Ch!Stops(in) /\ ~Ch!Resets(in) /\ ~Ch!Goes(in)
  BY PlainAccess
<1> HIDE DEF in
<1>3. ctrl_active' => ctrl_active
  BY <1>1, <1>2 DEF Ch!Sequencer
<1>4. ASSUME drv = "run" PROVE ~ctrl_reset' /\ ~dev_reset'
  <2>1. ~ctrl_reset /\ pio # Release
    BY <1>4 DEF DrvInv, PlainStep
  <2>2. ~Ch!WritesCtrl(in)
    BY <1>1, <2>1, PlainAccess DEF Ch!WritesCtrl
  <2> QED BY <1>1, <2>1, <2>2 DEF Ch!Sequencer
<1> QED BY <1>3, <1>4

\* An acknowledgement comes to a request that waits for one.
LEMMA Acks ==
    ASSUME NEW pio \in Plain, PlainStep(pio), DrvInv, DevInv
    PROVE  /\ dev_ack' \in BOOLEAN
           /\ dev_ack' => /\ dev.req /\ ~dev_ack /\ drv = "run"
                          /\ dstate \in {"D_RUN", "D_MEM_RD_W"}
                          /\ dstate' \in {"D_ADVANCE", "D_FLUSH"}
<1>1. Clock(pio)
  BY DEF PlainStep
<1>2. CASE dstate \notin {"D_RUN", "D_MEM_RD_W"}
  BY <1>1, <1>2, BytesRest
<1>3. CASE dstate = "D_RUN"
  <2>1. dev_ack' \in BOOLEAN /\ (dev_ack' => dev.req /\ dstate' \in {"D_ADVANCE", "D_FLUSH"})
    BY <1>1, <1>3, EngineRuns
  <2> QED BY <1>3, <2>1 DEF DrvInv, DevInv
<1>4. CASE dstate = "D_MEM_RD_W"
  <2>1. dev_ack' = (mem.st = "answers")
    BY <1>1, <1>4, AckStep
  <2>2. dstate' = IF mem.st = "answers" THEN "D_ADVANCE" ELSE "D_MEM_RD_W"
    BY <1>1, <1>4, EngineGoes
  <2> QED BY <1>4, <2>1, <2>2 DEF DrvInv, DevInv
<1> QED BY <1>2, <1>3, <1>4

\* The memory goes on with the request it has, and the engine with its wait.
LEMMA MemPlain ==
    ASSUME NEW pio \in Plain, PlainStep(pio), IInv
    PROVE  MemInv'
<1>0. MemInv /\ DrvInv /\ Clock(pio) /\ MemClock
  BY DEF IInv, PlainStep, Clock
<1>1. /\ DOMAIN mem' = {"st", "we", "addr", "data", "be"}
      /\ DOMAIN dma' = {"req", "we", "addr", "data", "be"}
      /\ mem'.st \in {"idle", "busy", "answers"}
  BY <1>0, MemoryStep, MasterStep
<1>2. CASE dstate \in {"D_FETCH_LO", "D_FETCH_HI", "D_MEM_RD", "D_FLUSH"}
  <2>1. mem'.st = "idle"
    BY <1>0, <1>2, MemoryStep DEF MemInv, Waits
  <2>2. /\ fetch_ptr' = fetch_ptr /\ cbp' = cbp
        /\ wbuf' = wbuf /\ waddr' = waddr /\ wbe' = wbe
    BY <1>0, <1>2, CursorRest, BytesRest
  <2>3. /\ dstate = "D_FETCH_LO" => dstate' = "D_FETCH_LO_W"
        /\ dstate = "D_FETCH_HI" => dstate' = "D_FETCH_HI_W"
        /\ dstate = "D_MEM_RD" => dstate' = "D_MEM_RD_W"
        /\ dstate = "D_FLUSH" => dstate' = "D_FLUSH_W"
    BY <1>0, <1>2, EngineGoes
  <2>4. dma'.req /\ dstate' \in Waits
    BY <1>0, <1>2, <2>3, MasterStep DEF Waits
  <2>5. Ch!Word' = Ch!Word
    BY <2>2 DEF Ch!Word
  <2>7. CASE dstate = "D_FETCH_LO"
    BY <1>0, <1>1, <2>1, <2>2, <2>3, <2>4, <2>7, MasterStep DEF MemInv
  <2>8. CASE dstate = "D_FETCH_HI"
    BY <1>0, <1>1, <2>1, <2>2, <2>3, <2>4, <2>8, MasterStep DEF MemInv
  <2>9. CASE dstate = "D_MEM_RD"
    BY <1>0, <1>1, <2>1, <2>2, <2>3, <2>4, <2>5, <2>9, MasterStep DEF MemInv
  <2>10. CASE dstate = "D_FLUSH"
    BY <1>0, <1>1, <2>1, <2>2, <2>3, <2>4, <2>10, MasterStep DEF MemInv
  <2> QED BY <1>2, <2>7, <2>8, <2>9, <2>10
<1>3. CASE dstate \in Waits /\ mem.st # "answers"
  <2>1. dstate' = dstate
    BY <1>0, <1>3, EngineGoes DEF Waits
  <2>2. /\ fetch_ptr' = fetch_ptr /\ cbp' = cbp
        /\ wbuf' = wbuf /\ waddr' = waddr /\ wbe' = wbe
    BY <1>0, <1>3, CursorRest, BytesRest, AckStep DEF Waits
  <2>3. /\ dma'.req /\ dma'.we = dma.we /\ dma'.addr = dma.addr /\ dma'.data = dma.data
        /\ dma'.be = dma.be
    BY <1>0, <1>3, MasterStep DEF MemInv, Waits
  <2>4. mem'.st # "idle" =>
           /\ mem'.we = dma.we /\ mem'.addr = dma.addr /\ mem'.data = dma.data
           /\ dma.we => mem'.be = dma.be
    BY <1>0, MemoryStep
  <2> QED BY <1>0, <1>1, <1>3, <2>1, <2>2, <2>3, <2>4 DEF MemInv, Ch!Word
<1>4. CASE /\ dstate \notin {"D_FETCH_LO", "D_FETCH_HI", "D_MEM_RD", "D_FLUSH"}
           /\ dstate \in Waits => mem.st = "answers"
  <2>1. mem'.st = "idle"
    BY <1>0, <1>4, MemoryStep DEF MemInv
  <2>2. dma'.req = FALSE
    BY <1>0, <1>4, MasterStep DEF MemInv
  <2>3. dstate' \notin Waits
    <3>1. CASE dstate = "D_RUN"
      BY <1>0, <3>1, EngineRuns DEF Waits
    <3>2. CASE dstate # "D_RUN"
      BY <1>0, <1>4, <3>2, EngineGoes DEF Waits, DrvInv, Loaded, Serves, Fetches
    <3> QED BY <3>1, <3>2
  <2>4. dma'.req <=> dstate' \in Waits
    BY <2>2, <2>3
  <2>5. dstate' \notin {"D_FETCH_LO_W", "D_FETCH_HI_W", "D_MEM_RD_W", "D_FLUSH_W"}
    BY <2>3 DEF Waits
  <2> QED BY <1>1, <2>1, <2>4, <2>5 DEF MemInv
<1> QED BY <1>2, <1>3, <1>4

\* The engine goes on only for the driver that runs it.
LEMMA DrvPlain ==
    ASSUME NEW pio \in Plain, PlainStep(pio), IInv
    PROVE  DrvInv'
<1>0. MemInv /\ DrvInv /\ Clock(pio) /\ drv' = drv /\ cmd' = cmd
  BY DEF IInv, PlainStep
<1>1. /\ ctrl_active' => drv = "run"
      /\ drv = "run" => ~ctrl_reset' /\ ~dev_reset'
  BY <1>0, RegistersStep DEF DrvInv
<1>2. drv # "run" => dstate = "D_IDLE" /\ dstate' = "D_IDLE"
  BY <1>0, EngineGoes DEF DrvInv
<1>3. ASSUME drv = "armed" PROVE nbdp' = 1 /\ \A a \in Addrs : ram'[a] = 10 * cmd + a
  <2>1. nbdp' = nbdp
    BY <1>0, <1>2, <1>3, CursorRest
  <2>2. \A a \in Addrs : ram'[a] = ram[a]
    BY <1>0, <1>2, <1>3, RamStep DEF PlainStep
  <2> QED BY <1>0, <1>3, <2>1, <2>2 DEF DrvInv
<1>4. dstate' \in Loaded \union Fetches \union {"D_IDLE", "D_COMPLETE"}
  <2>1. CASE dstate = "D_RUN"
    BY <1>0, <2>1, EngineRuns DEF Loaded, Serves, Fetches
  <2>2. CASE dstate # "D_RUN"
    BY <1>0, <2>2, EngineGoes DEF DrvInv, Loaded, Serves, Fetches
  <2> QED BY <2>1, <2>2
<1> QED BY <1>0, <1>1, <1>2, <1>3, <1>4 DEF DrvInv

\* An acknowledged byte is still asked for, and no byte past the last.
LEMMA DevPlain ==
    ASSUME NEW pio \in Plain, PlainStep(pio), IInv, StopWins
    PROVE  DevInv'
<1>0. DrvInv /\ DevInv /\ WalkInv /\ Clock(pio) /\ DevClock /\ drv' = drv /\ chain' = chain
  BY DEF IInv, PlainStep
<1>1. /\ DOMAIN dev' = {"open", "req", "taken", "eop", "dir_in"}
      /\ dev'.req \in BOOLEAN /\ dev'.dir_in \in BOOLEAN /\ (dev'.req => dev'.open)
      /\ dev'.eop => ~dev'.open
      /\ dev_ack' \in BOOLEAN
  BY <1>0, TargetStep, Acks DEF DevInv
<1>2. eop_lat' => ~dev'.open
  BY <1>0, CursorRest, TargetStep DEF DevInv
<1>3. Total \in Nat /\ Total' = Total
  BY <1>0, ChainOffsets DEF Total, Places, WalkInv
<1>4. drv' = "run" => dev'.taken \in 0..Total' /\ (dev'.req => dev'.taken < Total')
  BY <1>0, <1>3, TargetStep DEF DevInv
<1>5. dev.req /\ ~dev_ack /\ drv = "run" /\ ctrl_active => dev'.req
  BY <1>0, TargetStep DEF DrvInv
<1>6. dev_ack' => dev'.req /\ dstate' \in {"D_ADVANCE", "D_FLUSH"}
  BY <1>0, <1>5, Acks DEF StopWins
<1>7. dstate' \in {"D_MEM_RD", "D_MEM_RD_W"} => dev'.req /\ ~dev'.dir_in
  <2> SUFFICES ASSUME dstate' \in {"D_MEM_RD", "D_MEM_RD_W"} PROVE dev'.req /\ ~dev'.dir_in
    OBVIOUS
  <2>1. dstate \in {"D_RUN", "D_MEM_RD", "D_MEM_RD_W"} /\ dev.req /\ ~dev.dir_in
    <3>1. CASE dstate = "D_RUN"
      BY <1>0, <3>1, EngineRuns
    <3>2. CASE dstate # "D_RUN"
      BY <1>0, <3>2, EngineGoes DEF DevInv, DrvInv, Loaded, Serves, Fetches
    <3> QED BY <3>1, <3>2
  <2>2. ~dev_ack /\ drv = "run" /\ ctrl_active
    BY <1>0, <2>1 DEF DevInv, DrvInv, StopWins
  <2> QED BY <1>0, <1>5, <2>1, <2>2, TargetStep
<1> QED BY <1>1, <1>2, <1>4, <1>6, <1>7 DEF DevInv

\* What has been acknowledged grows with each acknowledgement.
LEMMA MovedPlain ==
    ASSUME NEW pio \in Plain, PlainStep(pio), IInv, drv = "run"
    PROVE  /\ Moved \in Nat
           /\ Moved' = IF dev_ack' THEN Moved + 1 ELSE Moved
           /\ dev_ack' => Moved = dev.taken /\ dev'.taken = dev.taken
<1>0. DrvInv /\ DevInv /\ WalkInv /\ DevClock
  BY DEF IInv, PlainStep
<1>1. Total \in Nat
  BY <1>0, ChainOffsets DEF Total, Places, WalkInv
<1>2. dev.taken \in Nat /\ ~dev_reset /\ (dev_ack => dev.req)
  BY <1>0, <1>1 DEF DrvInv, DevInv
<1>3. dev'.taken = IF dev_ack THEN dev.taken + 1 ELSE dev.taken
  BY <1>0, <1>2, TargetStep
<1>4. dev_ack' => ~dev_ack
  BY <1>0, Acks
<1> QED BY <1>2, <1>3, <1>4 DEF Moved

\* An engine that goes to work on a descriptor stays at it.
LEMMA RunsOn ==
    ASSUME NEW pio \in Plain, Clock(pio), dstate \in {"D_EVAL", "D_DESC_END"},
           dstate' = "D_RUN"
    PROVE  fetch_ptr' = fetch_ptr
<1>1. dstate = "D_EVAL" /\ count # 0
  BY EngineGoes
<1>2. fetch_ptr' = IF Ch!Links \/ (Ch!At("D_DESC_END") /\ ~desc_eox) THEN nbdp ELSE fetch_ptr
  BY PlainAccess DEF Clock, Ch!Clock, Ch!Descriptor
<1> QED BY <1>1, <1>2 DEF Ch!Links, Ch!At

\* The cursor is an address of the descriptor's buffer.
LEMMA CursorIsNat ==
    ASSUME WalkInv, dstate \in Serves
    PROVE  cbp \in Nat /\ count \in Nat \ {0} /\ Cur.count \in Nat /\ count <= Cur.count
<1>1. /\ chain \in Chains /\ fetch_ptr \in DOMAIN chain
      /\ count \in 0..Cur.count /\ cbp = Cur.bp + (Cur.count - count) /\ count # 0
  BY DEF WalkInv, Loaded
<1>2. Cur.bp \in Nat /\ Cur.count \in Nat
  BY <1>1, PathAssumption DEF Cur
<1> QED BY <1>1, <1>2

\* The cursor follows what has been acknowledged, and a link leads to where the
\* bytes so far end.
LEMMA WalkPlain ==
    ASSUME InOrder, NEW pio \in Plain, PlainStep(pio), IInv
    PROVE  WalkInv'
<1>0. /\ MemInv /\ DrvInv /\ DevInv /\ WalkInv /\ Clock(pio)
      /\ chain' = chain /\ chain \in Chains /\ (dev'.open => dev.open)
  BY TargetStep DEF IInv, PlainStep, WalkInv
<1>1. CASE dstate \in {"D_IDLE", "D_COMPLETE"}
  <2>1. dstate' = "D_IDLE"
    BY <1>0, <1>1, EngineGoes
  <2> QED BY <1>0, <2>1 DEF WalkInv, Loaded, Serves, Fetches
<1>2. CASE dstate \notin {"D_IDLE", "D_COMPLETE"}
  <2>1. drv = "run" /\ fetch_ptr \in DOMAIN chain
    BY <1>0, <1>2 DEF DrvInv, WalkInv
  <2>2. Moved \in Nat /\ Moved' = IF dev_ack' THEN Moved + 1 ELSE Moved
    BY <2>1, MovedPlain
  <2>3. /\ Cur.count \in Nat /\ Cur.bp \in Nat /\ Cur.next \in DOMAIN chain
        /\ Begun \in Nat /\ (~Cur.eox => Offsets(chain)[Cur.next] = Begun + Cur.count)
    BY <1>0, <2>1, ChainWalk, PathAssumption DEF Cur, Begun
  <2>4. fetch_ptr' = fetch_ptr => Cur' = Cur /\ Begun' = Begun
    BY <1>0 DEF Cur, Begun
  <2>5. CASE dstate = "D_FETCH_LO"
    <3>1. dstate' = "D_FETCH_LO_W" /\ fetch_ptr' = fetch_ptr /\ dev_ack' = FALSE
      BY <1>0, <2>5, EngineGoes, CursorRest, BytesRest
    <3> QED BY <1>0, <2>1, <2>2, <2>4, <2>5, <3>1 DEF WalkInv, Loaded, Serves, Fetches
  <2>6. CASE dstate = "D_FETCH_LO_W"
    <3>1. /\ dstate' = IF mem.st = "answers" THEN "D_FETCH_HI" ELSE "D_FETCH_LO_W"
          /\ fetch_ptr' = fetch_ptr /\ dev_ack' = FALSE
          /\ mem.st = "answers" =>
                cbp' = Read.bp /\ count' = Read.count /\ desc_eox' = Read.eox
      BY <1>0, <2>6, EngineGoes, CursorRest, BytesRest
    <3>2. mem.st = "answers" => Read = Cur
      BY <1>0, <2>6 DEF Read, Cur, MemInv
    <3>3. ~Pending'
      BY <3>1 DEF Pending, Flushing
    <3>4. CASE mem.st = "answers"
      BY <1>0, <2>1, <2>2, <2>3, <2>4, <2>6, <3>1, <3>2, <3>3, <3>4
         DEF WalkInv, Loaded, Serves, Fetches
    <3>5. CASE mem.st # "answers"
      BY <1>0, <2>1, <2>2, <2>4, <2>6, <3>1, <3>5 DEF WalkInv, Loaded, Serves, Fetches
    <3> QED BY <3>4, <3>5
  <2>7. CASE dstate \in {"D_FETCH_HI", "D_FETCH_HI_W"}
    <3>1. /\ dstate' \in {"D_FETCH_HI_W", "D_EVAL"} /\ UNCHANGED <<cbp, count, desc_eox>>
          /\ fetch_ptr' = fetch_ptr /\ dev_ack' = FALSE
          /\ dstate' = "D_EVAL" => nbdp' = Read.next /\ mem.st = "answers"
      BY <1>0, <2>7, EngineGoes, CursorRest, BytesRest
    <3>2. dstate' = "D_EVAL" => nbdp' = Cur.next
      <4>1. dstate' = "D_EVAL" => dstate = "D_FETCH_HI_W"
        BY <1>0, <2>7, EngineGoes
      <4> QED BY <1>0, <3>1, <4>1 DEF Read, Cur, MemInv
    <3>3. ~Pending /\ ~Pending'
      BY <2>7, <3>1 DEF Pending, Flushing
    <3> QED BY <1>0, <2>1, <2>2, <2>4, <2>7, <3>1, <3>2, <3>3 DEF WalkInv, Loaded, Serves, Fetches
  <2>8. CASE dstate \in {"D_EVAL", "D_DESC_END"}
    <3>1. /\ dstate' \in {"D_FETCH_LO", "D_COMPLETE", "D_RUN"}
          /\ dstate' = "D_FETCH_LO" => /\ fetch_ptr' = nbdp /\ ~desc_eox
                                       /\ dstate = "D_EVAL" => count = 0
          /\ dstate' = "D_RUN" => dstate = "D_EVAL" /\ count # 0
          /\ dev_ack' = FALSE /\ UNCHANGED <<cbp, count, desc_eox, nbdp>>
      BY <1>0, <2>8, EngineGoes, CursorRest, BytesRest
    <3>2. nbdp = Cur.next /\ desc_eox = Cur.eox /\ ~Pending
      BY <1>0, <2>8 DEF WalkInv, Loaded, Serves, Pending, Flushing
    <3>3. CASE dstate' = "D_FETCH_LO"
      <4>1. dev.open => Moved = Begun + Cur.count
        <5>1. dev.open => Moved = Begun + (Cur.count - count) + 0 /\ count = 0
          BY <1>0, <2>8, <3>1, <3>2, <3>3 DEF WalkInv, Loaded, Serves
        <5> QED BY <2>3, <5>1
      <4>2. fetch_ptr' \in DOMAIN chain /\ Begun' = Begun + Cur.count
        BY <1>0, <2>3, <3>1, <3>2, <3>3 DEF Begun
      <4> QED BY <1>0, <2>2, <3>1, <3>3, <4>1, <4>2 DEF WalkInv, Loaded, Serves, Fetches
    <3>4. CASE dstate' = "D_COMPLETE"
      BY <1>0, <3>4 DEF WalkInv, Loaded, Serves, Fetches
    <3>5. CASE dstate' = "D_RUN"
      <4>1. fetch_ptr' = fetch_ptr
        BY <1>0, <3>1, <3>5, RunsOn
      <4>2. ~Pending'
        BY <3>5 DEF Pending, Flushing
      <4> QED BY <1>0, <2>1, <2>2, <2>4, <3>1, <3>2, <3>5, <4>1, <4>2
              DEF WalkInv, Loaded, Serves, Fetches
    <3> QED BY <3>1, <3>3, <3>4, <3>5
  <2>9. CASE dstate = "D_RUN"
    <3>1. UNCHANGED <<cbp, count, desc_eox, nbdp, fetch_ptr>>
      BY <1>0, <2>9, CursorRest
    <3>2. /\ dstate' \in {"D_RUN", "D_FLUSH", "D_ADVANCE", "D_MEM_RD", "D_DESC_END"}
          /\ dev_ack' => Pending'
          /\ ~dev_ack' => ~Pending'
          /\ dstate' = "D_DESC_END" => eop_lat
      BY <1>0, <2>9, EngineRuns DEF Pending, Flushing
    <3>3. dstate' = "D_DESC_END" => ~dev'.open
      BY <1>0, <3>2 DEF DevInv
    <3>4. ~Pending
      BY <2>9 DEF Pending, Flushing
    <3> QED BY <1>0, <2>1, <2>2, <2>3, <2>4, <2>9, <3>1, <3>2, <3>3, <3>4
            DEF WalkInv, Loaded, Serves, Fetches
  <2>10. CASE dstate \in {"D_MEM_RD", "D_MEM_RD_W"}
    <3>1. /\ UNCHANGED <<cbp, count, desc_eox, nbdp, fetch_ptr>>
          /\ dstate' \in {"D_MEM_RD_W", "D_ADVANCE"}
          /\ dev_ack' <=> dstate' = "D_ADVANCE"
      BY <1>0, <2>10, EngineGoes, CursorRest, BytesRest, AckStep
    <3>2. ~Pending /\ (Pending' <=> dstate' = "D_ADVANCE")
      BY <2>10, <3>1 DEF Pending, Flushing
    <3> QED BY <1>0, <2>1, <2>2, <2>3, <2>4, <2>10, <3>1, <3>2 DEF WalkInv, Loaded, Serves, Fetches
  <2>11. CASE dstate \in Flushing
    <3>1. /\ UNCHANGED <<cbp, count, desc_eox, nbdp, fetch_ptr, fl_next>> /\ dev_ack' = FALSE
          /\ \/ dstate' = "D_FLUSH_W"
             \/ fl_next = "FN_ADVANCE" /\ dstate' = "D_ADVANCE"
             \/ fl_next # "FN_ADVANCE" /\ dstate' \in {"D_RUN", "D_IDLE"}
      BY <1>0, <2>11, EngineGoes, CursorRest, BytesRest DEF Flushing
    <3>2. Pending' <=> Pending
      BY <2>11, <3>1 DEF Pending, Flushing
    <3> QED BY <1>0, <2>1, <2>2, <2>3, <2>4, <2>11, <3>1, <3>2
            DEF WalkInv, Loaded, Serves, Fetches, Flushing
  <2>12. CASE dstate = "D_ADVANCE"
    <3>1. /\ cbp' = cbp + 1 /\ count' = count - 1 /\ UNCHANGED <<desc_eox, nbdp, fetch_ptr>>
          /\ dstate' = IF count = 1 THEN "D_DESC_END" ELSE "D_RUN"
          /\ dev_ack' = FALSE
      BY <1>0, <2>12, EngineGoes, CursorRest, BytesRest
    <3>2. Pending /\ ~Pending'
      BY <2>12, <3>1 DEF Pending, Flushing
    <3> QED BY <1>0, <2>1, <2>2, <2>3, <2>4, <2>12, <3>1, <3>2
            DEF WalkInv, Loaded, Serves, Fetches
  <2> QED
    BY <1>0, <1>2, <2>5, <2>6, <2>7, <2>8, <2>9, <2>10, <2>11, <2>12
       DEF DrvInv, Loaded, Serves, Fetches, Flushing
<1> QED BY <1>1, <1>2

\* Held bytes stay where they can be written.
LEMMA HeldPlain ==
    ASSUME NEW pio \in Plain, PlainStep(pio), IInv
    PROVE  HeldInv'
<1>0. /\ DrvInv /\ DevInv /\ WalkInv /\ HeldInv /\ Clock(pio)
      /\ dev'.dir_in = dev.dir_in /\ Ch!Lanes' = Ch!Lanes
  BY TargetStep DEF IInv, PlainStep, Ch!Lanes
<1>1. CASE dstate \notin {"D_RUN", "D_MEM_RD_W"}
  <2>1. /\ wbuf' = wbuf
        /\ wbe' = IF dstate = "D_FLUSH_W" /\ mem.st = "answers" THEN {} ELSE wbe
    BY <1>0, <1>1, BytesRest
  <2>2. wbe' # {} => dstate' \in {"D_RUN", "D_FLUSH", "D_FLUSH_W"} \/ (dstate' = "D_ADVANCE" /\ wbe' = {})
    BY <1>0, <1>1, <2>1, EngineGoes DEF HeldInv
  <2>3. dstate' \in Flushing => dstate \in Flushing
    BY <1>0, <1>1, EngineGoes DEF Flushing, DrvInv, Loaded, Serves, Fetches
  <2> QED BY <1>0, <1>1, <2>1, <2>2, <2>3 DEF HeldInv
<1>2. CASE dstate = "D_MEM_RD_W"
  <2>1. wbe' = wbe /\ wbuf' = wbuf /\ dstate' \in {"D_ADVANCE", "D_MEM_RD_W"}
    BY <1>0, <1>2, AckStep, EngineGoes
  <2> QED BY <1>0, <1>2, <2>1 DEF HeldInv, Flushing
<1>3. CASE dstate = "D_RUN"
  <2>1. cbp \in Nat /\ count' = count
    BY <1>0, <1>3, CursorRest, CursorIsNat DEF Serves
  <2>2. Ch!Lane \in Ch!Lanes
    BY <2>1, Divides DEF Ch!Lane
  <2>3. DOMAIN wbuf' = Ch!Lanes /\ wbe' \subseteq Ch!Lanes
    BY <1>0, <1>3, <2>2, EngineRuns DEF HeldInv
  <2>4. /\ wbe' # {} => dstate' \in {"D_RUN", "D_FLUSH", "D_ADVANCE"}
        /\ wbe' # {} \/ dstate' \in Flushing => dev.dir_in
        /\ dstate' = "D_ADVANCE" /\ count = 1 => wbe' = {}
    BY <1>0, <1>3, EngineRuns DEF HeldInv, Flushing
  <2> QED BY <1>0, <2>1, <2>3, <2>4 DEF HeldInv
<1> QED BY <1>1, <1>2, <1>3

\* The cursor is at the place of the byte that is moved next.
LEMMA NextPlace ==
    ASSUME InOrder, WalkInv, dstate \in {"D_RUN", "D_MEM_RD", "D_MEM_RD_W"}, dev.open
    PROVE  /\ Moved + 1 \in 1..Total /\ Places[Moved + 1] = cbp /\ cbp \in Addrs
<1>1. /\ chain \in Chains /\ fetch_ptr \in DOMAIN chain /\ count # 0
      /\ count \in 0..Cur.count /\ cbp = Cur.bp + (Cur.count - count)
  BY DEF WalkInv, Loaded, Serves
<1>2. Moved = Begun + (Cur.count - count)
  <2>1. ~Pending
    BY DEF Pending, Flushing
  <2>2. Moved = Begun + (Cur.count - count) + 0
    BY <2>1 DEF WalkInv, Loaded, Serves
  <2>3. Begun \in Nat /\ Cur.count \in Nat
    BY <1>1, ChainWalk, PathAssumption DEF Begun, Cur
  <2> QED BY <1>1, <2>2, <2>3
<1>3. PICK k : k = Cur.count - count
  OBVIOUS
<1>4. k \in 0..(Cur.count - 1)
  <2>1. Cur.count \in Nat
    BY <1>1, PathAssumption DEF Cur
  <2> QED BY <1>1, <1>3, <2>1
<1>5. /\ Begun + k + 1 \in 1..Total /\ Places[Begun + k + 1] = Cur.bp + k
      /\ Cur.bp + k \in Addrs
  BY <1>1, <1>4, ChainWalk DEF Begun, Cur, Places, Total
<1> QED BY <1>1, <1>2, <1>3, <1>5

\* The places of a chain's bytes are addresses, each used once.
LEMMA PlacesAre ==
    ASSUME InOrder, chain \in Chains
    PROVE  /\ Total \in Nat /\ \A n \in 1..Total : Places[n] \in Addrs
           /\ \A m, n \in 1..Total : Places[m] = Places[n] => m = n
<1>1. Places \in Seq(Addrs)
  BY ChainOffsets DEF Places
<1>2. \A m, n \in 1..Total : Places[m] = Places[n] => m = n
  BY DEF InOrder, Places, Total
<1> QED BY <1>1, <1>2 DEF Total

\* Every byte that was moved has a place.
LEMMA MovedHavePlaces ==
    ASSUME DrvInv, DevInv, WalkInv, InOrder, drv = "run"
    PROVE  Moved \in 0..Total
<1>1. Total \in Nat
  BY PlacesAre DEF WalkInv
<1>2. dev.taken \in 0..Total /\ (dev_ack => dev.taken < Total)
  BY DEF DevInv
<1> QED BY <1>1, <1>2 DEF Moved

\* A byte that is taken for memory is held where the next one belongs.
LEMMA RamTakes ==
    ASSUME InOrder, NEW pio \in Plain, PlainStep(pio), IInv, drv = "run", dev.dir_in,
           dstate = "D_RUN", dev_ack'
    PROVE  RamInv'
<1>0. /\ MemInv /\ DrvInv /\ DevInv /\ WalkInv /\ HeldInv /\ RamInv /\ Clock(pio)
      /\ chain \in Chains /\ UNCHANGED <<drv, cmd, chain>> /\ dev'.dir_in = dev.dir_in
  BY TargetStep DEF IInv, PlainStep, WalkInv
<1>1. PICK p : p = cbp
  OBVIOUS
<1>2. /\ dev.req /\ dev.open /\ Moved \in Nat /\ Moved' = Moved + 1 /\ dev.taken = Moved
  BY <1>0, Acks, MovedPlain DEF DevInv
<1>3. Moved + 1 \in 1..Total /\ Places[Moved + 1] = p /\ p \in Addrs
  BY <1>0, <1>1, <1>2, NextPlace
<1>4. /\ wbe = {} \/ Ch!Word = waddr
      /\ wbuf' = [wbuf EXCEPT ![Ch!Lane] = In(Moved + 1)]
      /\ wbe' = wbe \union {Ch!Lane} /\ waddr' = Ch!Word
  BY <1>0, <1>2, EngineRuns
<1>5. Ch!Word = p \div LANES /\ Ch!Lane = p % LANES
  BY <1>1 DEF Ch!Word, Ch!Lane
<1>6. p \in Nat /\ p % LANES \in Ch!Lanes /\ \A a \in Addrs : a \in Nat
  <2>1. \A a \in Addrs : a \in Nat
    BY DEF Addrs
  <2> QED BY <1>3, <2>1, Divides
<1>7. \A a \in Addrs : ram'[a] = ram[a]
  BY <1>0, RamStep DEF PlainStep
<1>8. Places' = Places /\ \A n \in Nat : In(n)' = In(n)
  BY <1>0 DEF Places, In
<1>9. HeldAt(p)' /\ wbuf'[p % LANES] = In(Moved + 1)
  BY <1>0, <1>4, <1>5, <1>6 DEF HeldAt, HeldInv
<1>10. ASSUME NEW a \in Addrs, a # p
       PROVE  (HeldAt(a)' <=> HeldAt(a)) /\ (HeldAt(a) => wbuf'[a % LANES] = wbuf[a % LANES])
  <2>1. ~(a \div LANES = p \div LANES /\ a % LANES = p % LANES)
    BY <1>6, <1>10, SameAddress
  <2>2. PICK w, l, v, k : w = a \div LANES /\ l = a % LANES /\ v = p \div LANES /\ k = p % LANES
    OBVIOUS
  <2>3. HeldAt(a)' <=> w = v /\ l \in wbe \union {k}
    BY <1>4, <1>5, <2>2 DEF HeldAt
  <2>4. HeldAt(a) <=> w = waddr /\ l \in wbe
    BY <2>2 DEF HeldAt
  <2>5. wbe = {} \/ v = waddr
    BY <1>4, <1>5, <2>2
  <2>6. ~(w = v /\ l = k)
    BY <2>1, <2>2
  <2>7. l # k => wbuf'[l] = wbuf[l]
    BY <1>4, <1>5, <2>2
  <2> QED BY <2>2, <2>3, <2>4, <2>5, <2>6, <2>7
<1>11. ASSUME NEW a \in Addrs, \A n \in 1..Moved' : Places'[n] # a
       PROVE  ram'[a] = 10 * cmd' + a /\ ~HeldAt(a)'
  <2>1. a # p /\ \A n \in 1..Moved : Places[n] # a
    BY <1>2, <1>3, <1>8, <1>11
  <2>2. ram[a] = 10 * cmd + a /\ ~HeldAt(a)
    BY <1>0, <2>1 DEF RamInv
  <2> QED BY <1>0, <1>7, <1>10, <2>1, <2>2
<1>12. ASSUME NEW a \in Addrs, NEW n \in 1..Moved', Places[n] = a
       PROVE  IF HeldAt(a)' THEN wbuf'[a % LANES] = In(n) ELSE ram'[a] = In(n)
  <2>1. CASE n = Moved + 1
    BY <1>3, <1>9, <1>12, <2>1
  <2>2. CASE n # Moved + 1
    <3>1. n \in 1..Moved
      BY <1>2, <2>2
    <3>2. a # p
      <4>1. n \in 1..Total
        BY <1>0, <1>2, <1>3, <3>1, PlacesAre
      <4> QED BY <1>0, <1>3, <1>12, <2>2, <4>1, PlacesAre
    <3>3. IF HeldAt(a) THEN wbuf[a % LANES] = In(n) ELSE ram[a] = In(n)
      BY <1>0, <1>12, <3>1 DEF RamInv
    <3> QED BY <1>7, <1>10, <3>2, <3>3
  <2> QED BY <2>1, <2>2
<1> QED BY <1>0, <1>2, <1>8, <1>11, <1>12 DEF RamInv

\* Bytes get to their places.
LEMMA RamPlain ==
    ASSUME InOrder, NEW pio \in Plain, PlainStep(pio), IInv
    PROVE  RamInv'
<1>0. /\ MemInv /\ DrvInv /\ DevInv /\ WalkInv /\ HeldInv /\ RamInv /\ Clock(pio)
      /\ chain \in Chains /\ UNCHANGED <<drv, cmd, chain>> /\ dev'.dir_in = dev.dir_in
  BY TargetStep DEF IInv, PlainStep, WalkInv
<1> SUFFICES ASSUME drv = "run" PROVE RamInv'
  BY <1>0 DEF RamInv
<1>1. CASE dev.dir_in /\ dstate = "D_RUN" /\ dev_ack'
  BY <1>1, RamTakes
<1>2. CASE ~dev.dir_in
  <2>1. dstate # "D_FLUSH_W"
    BY <1>0, <1>2 DEF HeldInv, Flushing
  <2>2. \A a \in Addrs : ram'[a] = ram[a]
    BY <1>0, <2>1, RamStep DEF PlainStep
  <2> QED BY <1>0, <1>2, <2>2 DEF RamInv
<1>3. CASE dev.dir_in /\ ~(dstate = "D_RUN" /\ dev_ack')
  <2>1. Moved' = Moved
    <3>1. dstate # "D_MEM_RD_W"
      BY <1>0, <1>3 DEF DevInv
    <3> QED BY <1>0, <1>3, <3>1, Acks, MovedPlain
  <2>2. Places' = Places /\ \A n \in Nat : In(n)' = In(n)
    BY <1>0 DEF Places, In
  <2>3. Moved \in Nat
    BY MovedPlain
  <2>4. CASE dstate = "D_FLUSH_W" /\ mem.st = "answers"
    <3>1. wbe' = {}
      BY <1>0, <2>4, BytesRest
    <3>2. \A a \in Addrs : /\ ~HeldAt(a)'
                           /\ ram'[a] = IF HeldAt(a) THEN wbuf[a % LANES] ELSE ram[a]
      BY <1>0, <2>4, <3>1, RamStep DEF PlainStep, HeldAt
    <3>3. ASSUME NEW a \in Addrs, \A n \in 1..Moved' : Places'[n] # a
          PROVE  ram'[a] = 10 * cmd' + a /\ ~HeldAt(a)'
      <4>1. ram[a] = 10 * cmd + a /\ ~HeldAt(a)
        BY <1>0, <1>3, <2>1, <2>2, <3>3 DEF RamInv
      <4> QED BY <1>0, <3>2, <4>1
    <3>4. ASSUME NEW a \in Addrs, NEW n \in 1..Moved', Places[n] = a
          PROVE  IF HeldAt(a)' THEN wbuf'[a % LANES] = In(n) ELSE ram'[a] = In(n)
      <4>1. IF HeldAt(a) THEN wbuf[a % LANES] = In(n) ELSE ram[a] = In(n)
        BY <1>0, <1>3, <2>1, <3>4 DEF RamInv
      <4> QED BY <3>2, <4>1
    <3> QED BY <1>0, <1>3, <2>2, <2>3, <3>3, <3>4 DEF RamInv
  <2>5. CASE ~(dstate = "D_FLUSH_W" /\ mem.st = "answers")
    <3>1. wbuf' = wbuf /\ wbe' = wbe /\ waddr' = waddr
      <4>1. CASE dstate = "D_RUN"
        BY <1>0, <1>3, <4>1, EngineRuns
      <4>2. CASE dstate = "D_MEM_RD_W"
        BY <1>0, <4>2, AckStep
      <4>3. CASE dstate \notin {"D_RUN", "D_MEM_RD_W"}
        BY <1>0, <2>5, <4>3, BytesRest
      <4> QED BY <4>1, <4>2, <4>3
    <3>2. \A a \in Addrs : ram'[a] = ram[a] /\ (HeldAt(a)' <=> HeldAt(a))
      BY <1>0, <2>5, <3>1, RamStep DEF PlainStep, HeldAt
    <3>3. ASSUME NEW a \in Addrs, \A n \in 1..Moved' : Places'[n] # a
          PROVE  ram'[a] = 10 * cmd' + a /\ ~HeldAt(a)'
      <4>1. ram[a] = 10 * cmd + a /\ ~HeldAt(a)
        BY <1>0, <1>3, <2>1, <2>2, <3>3 DEF RamInv
      <4> QED BY <1>0, <3>2, <4>1
    <3>4. ASSUME NEW a \in Addrs, NEW n \in 1..Moved', Places[n] = a
          PROVE  IF HeldAt(a)' THEN wbuf'[a % LANES] = In(n) ELSE ram'[a] = In(n)
      <4>1. IF HeldAt(a) THEN wbuf[a % LANES] = In(n) ELSE ram[a] = In(n)
        BY <1>0, <1>3, <2>1, <3>4 DEF RamInv
      <4> QED BY <3>1, <3>2, <4>1
    <3> QED BY <1>0, <1>3, <2>2, <2>3, <3>3, <3>4 DEF RamInv
  <2> QED BY <2>4, <2>5
<1> QED BY <1>1, <1>2, <1>3

\* What was read of memory is still what memory holds.
LEMMA ReadPlain ==
    ASSUME InOrder, NEW pio \in Plain, PlainStep(pio), IInv
    PROVE  ReadInv'
<1>0. /\ MemInv /\ DrvInv /\ DevInv /\ WalkInv /\ HeldInv /\ RamInv /\ ReadInv /\ Clock(pio)
      /\ chain \in Chains /\ UNCHANGED <<drv, cmd, chain>> /\ dev'.dir_in = dev.dir_in
      /\ Ch!Lanes' = Ch!Lanes
  BY TargetStep DEF IInv, PlainStep, WalkInv, Ch!Lanes
<1> SUFFICES ASSUME drv = "run", ~dev.dir_in PROVE ReadInv'
  BY <1>0 DEF ReadInv
<1>1. Places' = Places
  BY <1>0 DEF Places
<1>2. /\ dev_ack' => /\ dev.open /\ dev'.taken + 1 = Moved + 1
                     /\ dstate \in {"D_RUN", "D_MEM_RD_W"}
  BY <1>0, Acks, MovedPlain DEF DevInv
<1>3. PICK p : p = cbp
  OBVIOUS
<1>4. dev_ack' => p \in Addrs /\ Places[dev'.taken + 1] = p
  BY <1>0, <1>2, <1>3, NextPlace
<1>5. p \in Addrs => /\ Ch!Lane \in Ch!Lanes
                     /\ Ch!Word * LANES + Ch!Lane = p
  <2> SUFFICES ASSUME p \in Addrs
               PROVE  Ch!Lane \in Ch!Lanes /\ Ch!Word * LANES + Ch!Lane = p
    OBVIOUS
  <2>1. p \in Nat
    BY DEF Addrs
  <2>2. p % LANES \in Ch!Lanes /\ p = (p \div LANES) * LANES + (p % LANES)
    BY <2>1, Divides
  <2> QED BY <1>3, <2>2, Zenon DEF Ch!Word, Ch!Lane
<1>6. \A a \in Addrs : ram[a] = 10 * cmd + a
  BY <1>0 DEF RamInv
<1>7. CASE dstate = "D_MEM_RD_W" /\ mem.st = "answers"
  <2>1. mem.addr = <<"word", Ch!Word>>
    BY <1>0, <1>7 DEF MemInv
  <2>2. Read.word = WordOf(Ch!Word)
    BY <2>1 DEF Read
  <2>3. /\ rbuf' = WordOf(Ch!Word) /\ raddr' = Ch!Word
        /\ dev_rdata' = WordOf(Ch!Word)[Ch!Lane] /\ dev_ack'
    BY <1>0, <1>7, <2>2, AckStep
  <2>4. \A l \in Ch!Lanes : WordOf(Ch!Word)[l] = ram[Ch!Word * LANES + l]
    BY DEF WordOf
  <2>5. \A l \in Ch!Lanes :
           raddr' * LANES + l \in Addrs => rbuf'[l] = 10 * cmd + (raddr' * LANES + l)
    BY <1>6, <2>3, <2>4
  <2>6. dev_rdata' = 10 * cmd + p
    BY <1>4, <1>5, <1>6, <2>3, <2>4
  <2> QED BY <1>0, <1>1, <1>4, <2>3, <2>5, <2>6 DEF ReadInv, Addrs
<1>8. CASE ~(dstate = "D_MEM_RD_W" /\ mem.st = "answers")
  <2>1. rbuf' = rbuf /\ raddr' = raddr /\ (rvalid' => rvalid)
    <3>1. CASE dstate = "D_RUN"
      BY <1>0, <3>1, EngineRuns
    <3>2. CASE dstate = "D_MEM_RD_W"
      BY <1>0, <1>8, <3>2, AckStep
    <3>3. CASE dstate \notin {"D_RUN", "D_MEM_RD_W"}
      BY <1>0, <3>3, BytesRest
    <3> QED BY <3>1, <3>2, <3>3
  <2>2. ASSUME dev_ack' PROVE dev_rdata' = 10 * cmd + Places[dev'.taken + 1]
    <3>1. dstate = "D_RUN"
      BY <1>0, <1>2, <1>8, <2>2, AckStep
    <3>2. dev_rdata' = rbuf[Ch!Lane] /\ rvalid /\ raddr = Ch!Word
      BY <1>0, <2>2, <3>1, EngineRuns
    <3>3. PICK w, l : w = Ch!Word /\ l = Ch!Lane
      OBVIOUS
    <3>4. l \in Ch!Lanes /\ raddr * LANES + l = p
      BY <1>4, <1>5, <2>2, <3>2, <3>3
    <3>5. rbuf[l] = 10 * cmd + (raddr * LANES + l)
      BY <1>0, <1>4, <2>2, <3>2, <3>4 DEF ReadInv
    <3> QED BY <1>4, <2>2, <3>2, <3>3, <3>4, <3>5
  <2>3. rvalid' => \A l \in Ch!Lanes :
           raddr' * LANES + l \in Addrs => rbuf'[l] = 10 * cmd + (raddr' * LANES + l)
    BY <1>0, <2>1 DEF ReadInv
  <2> QED BY <1>0, <1>1, <2>2, <2>3 DEF ReadInv, Addrs
<1> QED BY <1>7, <1>8

-----------------------------------------------------------------------------
(* The accesses of a driver that waits for the engine to settle.           *)

\* What an access to an engine that waits leaves as it is.
LEMMA AtRest ==
    ASSUME Patient, IInv, Comes, NEW pio, Clock(pio)
    PROVE  /\ dstate \in {"D_RUN", "D_IDLE"} /\ dstate' = Ch!PioState(Inputs(pio))
           /\ Ch!Moves(Inputs(pio)) = "stays"
           /\ dev_ack = FALSE /\ dev_ack' = FALSE
           /\ dstate = "D_RUN" => ~eop_lat /\ ~dev.req
           /\ UNCHANGED <<cbp, count, desc_eox, wbuf, waddr, rbuf, raddr>>
           /\ wbe' = IF Ch!Resets(Inputs(pio)) THEN {} ELSE wbe
           /\ rvalid' => rvalid
           /\ fetch_ptr' = IF Ch!Goes(Inputs(pio)) THEN nbdp ELSE fetch_ptr
           /\ nbdp' = IF pio.kind = "nbdp" THEN pio.value ELSE nbdp
           /\ eop_lat' => dev.eop \/ eop_lat
           /\ Ch!Goes(Inputs(pio)) => ~eop_lat'
           /\ dstate' \notin Waits => MemInv'
           /\ ram' = Written => \A a \in Addrs : ram'[a] = ram[a]
<1>0. MemInv /\ DrvInv /\ DevInv /\ MemClock /\ Ch!Sequencer(Inputs(pio))
  BY DEF IInv, Clock, Ch!Clock
<1>1. /\ mem.st = "idle" /\ ~dma.req /\ dstate \in {"D_RUN", "D_IDLE"}
      /\ Ch!Moves(Inputs(pio)) = "stays"
  BY <1>0, ComesToRest
<1>2. /\ dstate' = Ch!PioState(Inputs(pio)) /\ dev_ack = FALSE
  BY <1>0, <1>1 DEF Ch!Sequencer, DevInv
<1>3. dstate' \notin Waits => MemInv'
  <2>1. DOMAIN mem' = {"st", "we", "addr", "data", "be"} /\ mem'.st = "idle"
    BY <1>0, <1>1, MemoryStep
  <2>2. dma' = [dma EXCEPT !.req = dma.req /\ mem.st # "answers"]
    BY <1>1, EngineRests
  <2>3. DOMAIN dma' = {"req", "we", "addr", "data", "be"} /\ ~dma'.req
    BY <1>0, <1>1, <2>2 DEF MemInv
  <2>4. ASSUME dstate' \notin Waits PROVE MemInv'
    <3>1. dstate' \notin {"D_FETCH_LO_W", "D_FETCH_HI_W", "D_MEM_RD_W", "D_FLUSH_W"}
      BY <2>4 DEF Waits
    <3>2. dma'.req <=> dstate' \in Waits
      BY <2>3, <2>4
    <3> QED BY <2>1, <2>3, <3>1, <3>2 DEF MemInv
  <2> QED BY <2>4
<1>4. ram' = Written => \A a \in Addrs : ram'[a] = ram[a]
  BY <1>0, <1>1, RamStep
<1> QED BY <1>1, <1>2, <1>3, <1>4, EngineRests

\* The driver rewrites buffers that no engine uses.
LEMMA PreparesStep ==
    ASSUME Patient, IInv, StopWins, Prepares
    PROVE  IInv'
<1> DEFINE in == Inputs(Nbdp)
<1>0. /\ DrvInv /\ DevInv /\ WalkInv /\ HeldInv
      /\ Comes /\ Clock(Nbdp) /\ DevClock /\ ~ctrl_active /\ ~dev.open
      /\ drv' = "armed" /\ cmd' = cmd + 1 /\ chain' \in Chains /\ ram' = Prepared(cmd + 1)
  BY DEF IInv, Prepares
<1>1. /\ ~Ch!Stops(in) /\ ~Ch!Resets(in) /\ ~Ch!Goes(in) /\ in.pio = Nbdp
      /\ Nbdp.kind = "nbdp" /\ Nbdp.value = 1
  BY InputsAre DEF Nbdp, Ch!Stops, Ch!Resets, Ch!Goes, Ch!WritesCtrl
<1>2. Ch!Sequencer(in)
  BY <1>0 DEF Clock, Ch!Clock
<1> HIDE DEF in
<1>3. dstate = "D_IDLE" /\ dstate' = "D_IDLE"
  <2>1. dstate \in {"D_RUN", "D_IDLE"} /\ dstate' = Ch!PioState(in)
    BY <1>0, AtRest DEF in
  <2> QED BY <1>0, <1>1, <2>1 DEF Ch!PioState, StopWins
<1>4. MemInv'
  BY <1>0, <1>3, AtRest DEF Waits
<1>5. nbdp' = 1 /\ wbe' = wbe /\ wbuf' = wbuf /\ dev_ack' = FALSE
      /\ (eop_lat' => dev.eop \/ eop_lat)
  BY <1>0, <1>1, AtRest DEF in
<1>6. DrvInv'
  <2>1. ~ctrl_active'
    BY <1>0, <1>1, <1>2 DEF Ch!Sequencer
  <2>2. \A a \in Addrs : ram'[a] = 10 * cmd' + a
    BY <1>0 DEF Prepared
  <2> QED BY <1>0, <1>3, <1>5, <2>1, <2>2 DEF DrvInv, Loaded, Serves, Fetches
<1>7. DevInv'
  BY <1>0, <1>3, <1>5, TargetStep DEF DevInv
<1>8. WalkInv'
  BY <1>0, <1>3 DEF WalkInv, Loaded, Serves, Fetches
<1>9. HeldInv'
  <2>1. wbe = {} /\ Ch!Lanes' = Ch!Lanes
    BY <1>0, <1>3 DEF HeldInv, Ch!Lanes
  <2> QED BY <1>0, <1>3, <1>5, <2>1 DEF HeldInv, Flushing
<1>10. RamInv' /\ ReadInv'
  BY <1>0 DEF RamInv, ReadInv
<1> QED BY <1>4, <1>6, <1>7, <1>8, <1>9, <1>10 DEF IInv

\* A command begins with its chain and no byte of it moved.
LEMMA StartsStep ==
    ASSUME InOrder, Patient, IInv, Starts
    PROVE  IInv'
<1> DEFINE in == Inputs(Start)
<1>0. /\ DrvInv /\ WalkInv /\ HeldInv
      /\ Comes /\ Clock(Start) /\ drv = "armed" /\ ~ctrl_reset /\ drv' = "run"
      /\ cmd' = cmd /\ chain' = chain /\ chain \in Chains /\ ram' = Written
      /\ dstate = "D_IDLE" /\ nbdp = 1 /\ ~ctrl_active
  BY DEF IInv, Starts, DrvInv, WalkInv
<1>1. PICK dir \in BOOLEAN : dev' = [Closed EXCEPT !.open = TRUE, !.dir_in = dir]
  BY DEF Starts
<1>2. /\ DOMAIN dev' = {"open", "req", "taken", "eop", "dir_in"}
      /\ dev'.open = TRUE /\ dev'.req = FALSE /\ dev'.taken = 0 /\ dev'.eop = FALSE
      /\ dev'.dir_in = dir
  BY <1>1 DEF Closed
<1>3. /\ ~Ch!Stops(in) /\ ~Ch!Resets(in) /\ Ch!Goes(in) /\ in.pio = Start
      /\ Start.reset = FALSE /\ Start.kind = "ctrl"
  BY <1>0, InputsAre DEF Start, Ctrl, Ch!Stops, Ch!Resets, Ch!Goes, Ch!WritesCtrl
<1>4. Ch!Sequencer(in)
  BY <1>0 DEF Clock, Ch!Clock
<1> HIDE DEF in
<1>5. dstate' = "D_FETCH_LO"
  <2>1. dstate' = Ch!PioState(in)
    BY <1>0, AtRest DEF in
  <2> QED BY <1>3, <2>1 DEF Ch!PioState
<1>6. MemInv'
  BY <1>0, <1>5, AtRest DEF Waits
<1>7. /\ wbe' = wbe /\ wbuf' = wbuf /\ dev_ack' = FALSE /\ fetch_ptr' = 1 /\ ~eop_lat'
      /\ \A a \in Addrs : ram'[a] = ram[a]
  BY <1>0, <1>3, AtRest DEF in
<1>8. ~rvalid'
  <2>1. rvalid' = (rvalid /\ ~Ch!Goes(in) /\ ~Ch!Resets(in))
    BY <1>0, AtRest, EngineRests DEF in
  <2> QED BY <1>3, <2>1
<1>9. Moved' = 0
  BY <1>2, <1>7 DEF Moved
<1>10. /\ 1 \in DOMAIN chain /\ Offsets(chain)[1] = 0 /\ Total \in Nat
  <2>1. Len(chain) \in Nat \ {0} /\ DOMAIN chain = 1..Len(chain)
    BY <1>0, PathAssumption
  <2>2. Begins(Buffers(chain), Offsets(chain))
    BY <1>0, ChainOffsets
  <2> QED BY <1>0, <2>1, <2>2, PlacesAre DEF Begins
<1>11. DrvInv'
  <2>1. ~ctrl_reset' /\ ~dev_reset'
    BY <1>0, <1>3, <1>4 DEF Ch!Sequencer, Ch!WritesCtrl
  <2> QED BY <1>0, <1>5, <2>1 DEF DrvInv, Fetches
<1>12. DevInv'
  <2>1. Total' = Total
    BY <1>0 DEF Total, Places
  <2>2. dev'.taken \in 0..Total' /\ ~dev'.req
    BY <1>2, <1>10, <2>1
  <2>3. ~dev'.eop /\ dev'.req \in BOOLEAN /\ dev'.dir_in \in BOOLEAN /\ ~dev_ack'
        /\ dev_ack' \in BOOLEAN
    BY <1>2, <1>7
  <2>4. dstate' \notin {"D_MEM_RD", "D_MEM_RD_W"}
    BY <1>5
  <2> QED BY <1>2, <1>7, <2>2, <2>3, <2>4 DEF DevInv
<1>13. WalkInv'
  BY <1>0, <1>5, <1>7, <1>9, <1>10 DEF WalkInv, Begun, Fetches, Loaded, Serves
<1>14. wbe = {} /\ Ch!Lanes' = Ch!Lanes
  BY <1>0 DEF HeldInv, Ch!Lanes
<1>15. HeldInv'
  BY <1>0, <1>5, <1>7, <1>14 DEF HeldInv, Flushing
<1>16. RamInv'
  <2>1. \A a \in Addrs : ram'[a] = 10 * cmd' + a /\ ~HeldAt(a)'
    BY <1>0, <1>7, <1>14 DEF DrvInv, HeldAt
  <2> QED BY <1>9, <2>1 DEF RamInv
<1>17. ReadInv'
  BY <1>7, <1>8 DEF ReadInv
<1> QED BY <1>6, <1>11, <1>12, <1>13, <1>15, <1>16, <1>17 DEF IInv

\* A stop leaves what was moved where it is, a reset drops what is held.
LEMMA TearsDownStep ==
    ASSUME InOrder, Patient, IInv, NEW pio \in {Stop, Flush, Reset}, TearsDown(pio)
    PROVE  IInv'
<1> DEFINE in == Inputs(pio)
<1>0. /\ MemInv /\ DrvInv /\ DevInv /\ WalkInv /\ HeldInv /\ RamInv /\ ReadInv
      /\ Comes /\ Clock(pio) /\ DevClock /\ drv = "run" /\ ctrl_active
      /\ drv' = (IF pio = Reset THEN "reset" ELSE drv)
      /\ cmd' = cmd /\ chain' = chain /\ chain \in Chains /\ ram' = Written
      /\ ~ctrl_reset /\ ~dev_reset
  BY DEF IInv, TearsDown, DrvInv, WalkInv
<1>1. /\ ~Ch!Goes(in) /\ pio.kind # "nbdp" /\ in.pio = pio /\ pio.kind = "ctrl"
      /\ Ch!Stops(in) \/ Ch!Resets(in)
      /\ pio # Reset => ~Ch!Resets(in) /\ pio.reset = FALSE
      /\ pio = Reset => Ch!Resets(in)
  BY <1>0, InputsAre DEF Stop, Flush, Reset, Ctrl, Ch!Stops, Ch!Resets, Ch!Goes, Ch!WritesCtrl
<1>2. Ch!Sequencer(in)
  BY <1>0 DEF Clock, Ch!Clock
<1> HIDE DEF in
<1>3. /\ dstate \in {"D_RUN", "D_IDLE"} /\ dstate' = Ch!PioState(in) /\ Ch!Moves(in) = "stays"
      /\ dev_ack = FALSE /\ dev_ack' = FALSE /\ (dstate = "D_RUN" => ~eop_lat /\ ~dev.req)
      /\ UNCHANGED <<cbp, count, desc_eox, wbuf, waddr, rbuf, raddr, fetch_ptr, nbdp>>
      /\ wbe' = (IF Ch!Resets(in) THEN {} ELSE wbe) /\ (rvalid' => rvalid)
      /\ eop_lat' => dev.eop \/ eop_lat
      /\ \A a \in Addrs : ram'[a] = ram[a]
  BY <1>0, <1>1, AtRest DEF in
<1>4. dstate' \in {"D_IDLE", "D_FLUSH"} /\ (pio = Reset => dstate' = "D_IDLE")
      /\ (dstate' = "D_FLUSH" => dstate = "D_RUN" /\ wbe # {})
  <2>1. ~Ch!StopInFlush
    BY <1>3 DEF Ch!StopInFlush
  <2>2. wbe # {} => dstate = "D_RUN"
    BY <1>0, <1>3 DEF HeldInv
  <2> QED BY <1>1, <1>3, <2>1, <2>2 DEF Ch!PioState
<1>5. dstate' = "D_FLUSH" => fl_next' = "FN_IDLE"
  BY <1>1, <1>2, <1>3, <1>4, StopStops
<1>6. MemInv'
  BY <1>0, <1>4, AtRest DEF Waits
<1>7. /\ DOMAIN dev' = {"open", "req", "taken", "eop", "dir_in"}
      /\ dev'.dir_in = dev.dir_in /\ (dev'.open => dev.open)
      /\ dev'.req \in BOOLEAN /\ (dev'.req => dev'.open) /\ (dev'.eop => ~dev'.open)
      /\ dev'.taken = dev.taken /\ (dev'.req => dev.req \/ dev.taken < Total)
  BY <1>0, <1>3, TargetStep
<1>8. /\ Moved' = Moved /\ Moved \in Nat /\ Places' = Places /\ Total' = Total
      /\ \A n \in Nat : In(n)' = In(n)
  <2>1. Total \in Nat
    BY <1>0, PlacesAre
  <2>2. dev.taken \in Nat
    BY <1>0, <2>1 DEF DevInv
  <2> QED BY <1>0, <1>3, <1>7, <2>2 DEF Moved, Places, Total, In
<1>9. DrvInv'
  <2>1. pio # Reset => ~ctrl_reset' /\ ~dev_reset'
    BY <1>0, <1>1, <1>2 DEF Ch!Sequencer, Ch!WritesCtrl
  <2>2. ~ctrl_active'
    BY <1>1, <1>2 DEF Ch!Sequencer
  <2> QED BY <1>0, <1>4, <2>1, <2>2 DEF DrvInv, Loaded, Serves
<1>10. DevInv'
  BY <1>0, <1>3, <1>4, <1>7, <1>8 DEF DevInv
<1>11. WalkInv'
  <2>1. CASE dstate' = "D_IDLE"
    BY <1>0, <2>1 DEF WalkInv, Loaded, Serves, Fetches
  <2>2. CASE dstate' = "D_FLUSH"
    <3>1. dstate = "D_RUN" /\ ~Pending /\ ~Pending'
      BY <1>4, <1>5, <2>2 DEF Pending, Flushing
    <3>2. Cur' = Cur /\ Begun' = Begun
      BY <1>0, <1>3 DEF Cur, Begun
    <3> QED BY <1>0, <1>3, <1>7, <1>8, <2>2, <3>1, <3>2 DEF WalkInv, Loaded, Serves, Fetches
  <2> QED BY <1>4, <2>1, <2>2
<1>12. HeldInv'
  <2>1. Ch!Lanes' = Ch!Lanes
    BY DEF Ch!Lanes
  <2>2. wbe' # {} => dstate' = "D_FLUSH"
    BY <1>1, <1>3, <1>4 DEF Ch!PioState, Ch!StopInFlush
  <2> QED BY <1>0, <1>3, <1>4, <1>7, <2>1, <2>2 DEF HeldInv, Flushing
<1>13. pio # Reset => RamInv'
  <2> SUFFICES ASSUME pio # Reset PROVE RamInv'
    OBVIOUS
  <2>1. wbe' = wbe
    BY <1>1, <1>3
  <2>2. \A a \in Addrs : HeldAt(a)' <=> HeldAt(a)
    BY <1>3, <2>1 DEF HeldAt
  <2>3. \A n \in 1..Moved : n \in Nat
    BY <1>8
  <2> QED BY <1>0, <1>3, <1>7, <1>8, <2>2, <2>3 DEF RamInv
<1>14. ReadInv'
  <2>1. Ch!Lanes' = Ch!Lanes
    BY DEF Ch!Lanes
  <2> QED BY <1>0, <1>3, <1>7, <2>1 DEF ReadInv
<1>15. RamInv'
  BY <1>0, <1>13 DEF RamInv
<1> QED BY <1>6, <1>9, <1>10, <1>11, <1>12, <1>14, <1>15 DEF IInv

LEMMA NextStep ==
    ASSUME InOrder, Patient, IInv, StopWins, Next
    PROVE  IInv'
<1>1. ASSUME NEW pio \in Plain, PlainStep(pio) PROVE IInv'
  BY <1>1, MemPlain, DrvPlain, DevPlain, WalkPlain, HeldPlain, RamPlain, ReadPlain DEF IInv
<1>2. CASE Tick
  <2>1. PlainStep(NoPio) /\ NoPio \in Plain
    BY <1>2 DEF Tick, PlainStep, Plain, NoPio, Release, Ctrl
  <2> QED BY <1>1, <2>1
<1>3. CASE ReadsCtrl
  <2>1. PlainStep(ReadCtrl) /\ ReadCtrl \in Plain
    BY <1>3 DEF ReadsCtrl, PlainStep, Plain, ReadCtrl, Release, Ctrl
  <2> QED BY <1>1, <2>1
<1>4. CASE Releases
  <2>1. PlainStep(Release) /\ Release \in Plain
    BY <1>4 DEF Releases, PlainStep, Plain
  <2> QED BY <1>1, <2>1
<1>5. CASE Prepares
  BY <1>5, PreparesStep
<1>6. CASE Starts
  BY <1>6, StartsStep
<1>7. CASE TearsDown(Stop) \/ TearsDown(Flush) \/ TearsDown(Reset)
  BY <1>7, TearsDownStep
<1> QED BY <1>2, <1>3, <1>4, <1>5, <1>6, <1>7 DEF Next

LEMMA InitIInv ==
    ASSUME Init
    PROVE  IInv
<1>1. /\ dstate = "D_IDLE" /\ dma.req = FALSE /\ mem.st = "idle" /\ dev_ack = FALSE
      /\ DOMAIN dma = {"req", "we", "addr", "data", "be"}
      /\ DOMAIN mem = {"st", "we", "addr", "data", "be"}
      /\ wbe = {} /\ DOMAIN wbuf = Ch!Lanes /\ ~ctrl_active /\ drv = "idle" /\ eop_lat = FALSE
      /\ DOMAIN dev = {"open", "req", "taken", "eop", "dir_in"}
      /\ dev.open = FALSE /\ dev.req = FALSE /\ dev.eop = FALSE /\ dev.dir_in = TRUE
      /\ chain \in Chains
  BY DEF Init, Ch!Init, Idle, Closed, Ch!NoBytes
<1>2. MemInv
  BY <1>1 DEF MemInv, Waits
<1>3. DrvInv
  BY <1>1 DEF DrvInv
<1>4. DevInv
  BY <1>1 DEF DevInv
<1>5. WalkInv
  BY <1>1 DEF WalkInv, Loaded, Serves, Fetches
<1>6. HeldInv
  BY <1>1 DEF HeldInv, Flushing
<1>7. RamInv /\ ReadInv
  BY <1>1 DEF RamInv, ReadInv
<1> QED BY <1>2, <1>3, <1>4, <1>5, <1>6, <1>7 DEF IInv

LEMMA Stutter ==
    ASSUME IInv, UNCHANGED vars
    PROVE  IInv'
<1>1. UNCHANGED <<Ch!chVars, mem, ram, dev, drv, cmd, chain, owed, left>>
  BY DEF vars
<1>2. /\ dstate' = dstate /\ dma' = dma /\ mem' = mem /\ wbe' = wbe /\ wbuf' = wbuf /\ waddr' = waddr
      /\ cbp' = cbp /\ count' = count /\ nbdp' = nbdp /\ fetch_ptr' = fetch_ptr
      /\ desc_eox' = desc_eox /\ ctrl_active' = ctrl_active /\ ctrl_reset' = ctrl_reset
      /\ dev_reset' = dev_reset /\ fl_next' = fl_next /\ eop_lat' = eop_lat
      /\ rbuf' = rbuf /\ raddr' = raddr /\ rvalid' = rvalid /\ dev_ack' = dev_ack
      /\ dev_rdata' = dev_rdata /\ ram' = ram /\ dev' = dev /\ drv' = drv /\ cmd' = cmd
      /\ chain' = chain
  BY <1>1 DEF Ch!chVars
<1>3. /\ Ch!Lanes' = Ch!Lanes /\ Ch!Word' = Ch!Word /\ Cur' = Cur /\ Begun' = Begun
      /\ Moved' = Moved /\ Total' = Total /\ Places' = Places /\ (Pending' <=> Pending)
      /\ \A a \in Addrs : HeldAt(a)' <=> HeldAt(a)
      /\ \A n : In(n)' = In(n)
  BY <1>2 DEF Ch!Lanes, Ch!Word, Cur, Begun, Moved, Total, Places, Pending, HeldAt, In
<1>4. MemInv' /\ DrvInv'
  BY <1>2, <1>3 DEF IInv, MemInv, DrvInv
<1>5. DevInv' /\ WalkInv'
  BY <1>2, <1>3 DEF IInv, DevInv, WalkInv
<1>6. HeldInv' /\ ReadInv'
  BY <1>2, <1>3 DEF IInv, HeldInv, ReadInv
<1>7. RamInv'
  BY <1>2, <1>3 DEF IInv, RamInv
<1> QED BY <1>4, <1>5, <1>6, <1>7 DEF IInv

-----------------------------------------------------------------------------
(* Bytes.                                                                  *)

\* What the engine, its memory, the target and the driver always agree on.
THEOREM ChannelInvariant == Patient /\ InOrder => (Spec => []IInv)
<1> SUFFICES ASSUME Patient, InOrder PROVE Spec => []IInv
  OBVIOUS
<1>1. Init => IInv
  BY InitIInv
<1>2. IInv /\ StopWins /\ [Next]_vars => IInv'
  BY NextStep, Stutter
<1>3. Spec => []StopWins
  BY StoppedStays
<1> QED BY <1>1, <1>2, <1>3, PTL DEF Spec

LEMMA InvBytes ==
    ASSUME InOrder, IInv
    PROVE  BytesInPlace
<1> SUFFICES ASSUME drv = "run" PROVE BytesInPlace
  BY DEF BytesInPlace
<1>0. DrvInv /\ DevInv /\ WalkInv /\ HeldInv /\ RamInv /\ ReadInv
  BY DEF IInv
<1>1. ASSUME dev.dir_in, NEW a \in Addrs
      PROVE  IF Came(a) = {} THEN ram[a] = 10 * cmd + a /\ ~HeldAt(a)
             ELSE \A n \in Came(a) :
                     IF HeldAt(a) THEN wbuf[a % LANES] = In(n) ELSE ram[a] = In(n)
  <2>1. Came(a) = {n \in 1..Moved : Places[n] = a}
    BY <1>1 DEF Came
  <2>2. (\A n \in 1..Moved : Places[n] # a) => ram[a] = 10 * cmd + a /\ ~HeldAt(a)
    BY <1>0, <1>1 DEF RamInv
  <2>3. \A n \in 1..Moved : Places[n] = a =>
           IF HeldAt(a) THEN wbuf[a % LANES] = In(n) ELSE ram[a] = In(n)
    BY <1>0, <1>1 DEF RamInv
  <2> QED BY <2>1, <2>2, <2>3
<1>2. ASSUME ~dev.dir_in, NEW a \in Addrs
      PROVE  Came(a) = {} /\ ram[a] = 10 * cmd + a /\ ~HeldAt(a)
  BY <1>0, <1>2 DEF Came, RamInv, HeldInv, HeldAt
<1>3. dev_ack /\ ~dev.dir_in => dev_rdata = 10 * cmd + Places[dev.taken + 1]
  BY <1>0 DEF ReadInv
<1> QED BY <1>1, <1>2, <1>3 DEF BytesInPlace

\* Every byte of a target is in memory at its place in the chain, or held for
\* it, and nothing else is written; every byte a target is given is the next of
\* the chain and of this command (hpc3_scsi_dma.sv:516-580).
THEOREM BytesInPlaceTheorem == Patient /\ InOrder => (Spec => []BytesInPlace)
<1> SUFFICES ASSUME Patient, InOrder PROVE Spec => []BytesInPlace
  OBVIOUS
<1>1. IInv => BytesInPlace
  BY InvBytes
<1> QED BY <1>1, ChannelInvariant, PTL

\* A descriptor's interrupt and the end of a chain come after their bytes are
\* in memory (hpc3_scsi_dma.sv:593-622).
THEOREM DataBeforeInterruptTheorem == Patient /\ InOrder => (Spec => []DataBeforeInterrupt)
<1> SUFFICES ASSUME Patient, InOrder PROVE Spec => []DataBeforeInterrupt
  OBVIOUS
<1>1. ASSUME IInv PROVE DataBeforeInterrupt
  <2> SUFFICES ASSUME dstate \in {"D_DESC_END", "D_COMPLETE"}, drv = "run", dev.dir_in,
                      NEW n \in 1..Moved
               PROVE  ram[Places[n]] = In(n)
    BY DEF DataBeforeInterrupt
  <2>1. DrvInv /\ DevInv /\ WalkInv /\ HeldInv /\ RamInv
    BY <1>1 DEF IInv
  <2>2. Moved \in 0..Total /\ Total \in Nat
    BY <2>1, MovedHavePlaces, PlacesAre DEF WalkInv
  <2>3. Places[n] \in Addrs
    BY <2>1, <2>2, PlacesAre DEF WalkInv
  <2>4. wbe = {}
    BY <2>1 DEF HeldInv
  <2> QED BY <2>1, <2>3, <2>4 DEF RamInv, HeldAt
<1> QED BY <1>1, ChannelInvariant, PTL

=============================================================================
