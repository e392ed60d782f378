---------------------------- MODULE McDmaProofs -----------------------------
(***************************************************************************)
(* The MC's GIO64 DMA engine with its registers and a driver, for any      *)
(* descriptors, uTLB, page tables and paces of memory and GIO bus.         *)
(*                                                                         *)
(* First how a transfer's end is told; then that the transfer does what    *)
(* the reference's loops do.  The reference's states are followed one      *)
(* round at a time (Leads), up to the one beside which the engine stands   *)
(* (Beside), and Progress says how much of its next beat is done.          *)
(***************************************************************************)
EXTENDS McDmaPath, WellFoundedInduction, TLAPS

-----------------------------------------------------------------------------
(* The life of a transfer, and how its end is told.                        *)

Resting == state = "S_IDLE" /\ ~start_q /\ ~done.up /\ ~asked /\ ~run.running
Starting == state = "S_IDLE" /\ start_q /\ ~done.up /\ asked /\ ~run.running /\ gap
Working == state # "S_IDLE" /\ ~start_q /\ ~done.up /\ asked /\ run.running
Ending == state = "S_IDLE" /\ ~start_q /\ done.up /\ asked /\ run.running

\* Every end the driver has not retired is in DMA_CAUSE, of which RUN has a copy.
ToldInv ==
    /\ Resting \/ Starting \/ Working \/ Ending
    /\ {"up", "wb"} \subseteq DOMAIN done
    /\ DOMAIN run = {"running", "cause"} /\ run.cause = cause
    /\ owed # {} => int /\ owed \subseteq cause

LEMMA ToldInit == Init => ToldInv
  BY DEF Init, Eng!Init, NotRunning, ToldInv, Resting

\* The engine's clock: it leaves idle at a start, and comes back with done.up.
LEMMA EngineGoes ==
    ASSUME NEW in, Eng!Clock(in), {"up", "wb"} \subseteq DOMAIN done
    PROVE  /\ {"up", "wb"} \subseteq DOMAIN done'
           /\ state = "S_IDLE" => ~done'.up /\ (state' # "S_IDLE" <=> in.start)
           /\ state # "S_IDLE" => (state' = "S_IDLE" <=> done'.up)
<1>1. CASE Eng!Idle(in)
  BY <1>1 DEF Eng!Idle, Eng!Quiet
<1>2. CASE Eng!Check
  BY <1>2 DEF Eng!Check, Eng!Quiet
<1>3. CASE Eng!Beat
  BY <1>3 DEF Eng!Beat, Eng!Quiet
<1>4. CASE Eng!MemHalf(in)
  <2>1. state' # "S_IDLE" /\ Eng!Quiet
    BY <1>4 DEF Eng!MemHalf, Eng!Faults, Eng!AfterHalf
  <2>2. QED BY <1>4, <2>1 DEF Eng!MemHalf, Eng!Quiet
<1>5. CASE Eng!Pte(in)
  <2>1. state' # "S_IDLE" /\ Eng!Quiet
    BY <1>5 DEF Eng!Pte, Eng!Faults
  <2>2. QED BY <1>5, <2>1 DEF Eng!Pte, Eng!Quiet
<1>6. CASE Eng!Gio(in)
  BY <1>6 DEF Eng!Gio, Eng!Quiet
<1>7. CASE Eng!Step
  BY <1>7 DEF Eng!Step, Eng!Quiet
<1>8. CASE Eng!Finish
  BY <1>8 DEF Eng!Finish
<1>9. QED BY <1>1, <1>2, <1>3, <1>4, <1>5, <1>6, <1>7, <1>8 DEF Eng!Clock

\* One clock, with a write of a register or a start or neither.
LEMMA ToldClock ==
    ASSUME ToldInv, NEW w, NEW starts \in BOOLEAN, Clock(w, starts),
           w.reg \in {"none", "CAUSE", "MEMADR", "DESCRIPTOR"},
           w.reg = "CAUSE" => w.value = {},
           starts => ~gap /\ ~run.running,
           w # NoWrite => ~gap
    PROVE  ToldInv'
<1>1. PICK ack \in BOOLEAN : Eng!Clock(Inputs(ack))
  BY DEF Clock
<1>2. /\ {"up", "wb"} \subseteq DOMAIN done'
      /\ state = "S_IDLE" => ~done'.up /\ (state' # "S_IDLE" <=> start_q)
      /\ state # "S_IDLE" => (state' = "S_IDLE" <=> done'.up)
  <2>1. Inputs(ack).start = start_q
    BY DEF Inputs
  <2>2. QED BY <1>1, <2>1, EngineGoes DEF ToldInv
<1>3. /\ start_q' = (starts /\ state = "S_IDLE")
      /\ gap' = (w # NoWrite \/ starts)
      /\ asked' = (starts \/ (asked /\ ~done.up))
      /\ owed' = IF done.up /\ (done.fault # {} \/ regs.ie)
                 THEN (IF done.fault = {} THEN {"COMPLETE"} ELSE done.fault)
                 ELSE IF w.reg = "CAUSE" THEN {} ELSE owed
  BY DEF Clock, Registers
<1> DEFINE written == Written(w)
           started == IF start_q THEN [written EXCEPT !.run = [run EXCEPT !.running = TRUE]]
                      ELSE written
           m == Ended(started)
<1>4. cause' = m.cause /\ run' = m.run /\ int' = m.int
  BY DEF Clock, Registers
<1>5. /\ DOMAIN written = {"regs", "cause", "run", "int"}
      /\ written.cause = IF w.reg = "CAUSE" THEN {} ELSE cause
      /\ DOMAIN written.run = {"running", "cause"}
      /\ written.run.running = run.running /\ written.run.cause = written.cause
      /\ written.int <=> int /\ w.reg # "CAUSE"
  BY DEF Written, ToldInv
<1>6. CASE start_q
  <2>1. Starting /\ gap /\ w = NoWrite /\ ~starts
    BY <1>6 DEF ToldInv, Resting, Starting, Working, Ending
  <2>2. w.reg = "none"
    BY <2>1 DEF NoWrite
  <2>3. m = started /\ started = [written EXCEPT !.run = [run EXCEPT !.running = TRUE]]
    BY <1>6, <2>1 DEF Ended, Starting
  <2>4. cause' = cause /\ DOMAIN run' = {"running", "cause"} /\ run'.running
        /\ run'.cause = cause /\ (int' <=> int)
    <3>1. m.run = [run EXCEPT !.running = TRUE] /\ m.cause = written.cause /\ m.int = written.int
      <4> HIDE DEF written, m, started
      <4> QED BY <1>5, <2>3
    <3> HIDE DEF written, m, started
    <3> QED BY <1>4, <1>5, <2>2, <3>1 DEF ToldInv
  <2>5. owed' = owed
    BY <1>3, <2>1, <2>2 DEF Starting
  <2>6. Working'
    BY <1>2, <1>3, <2>1, <2>4 DEF Starting, Working
  <2> QED BY <1>2, <2>4, <2>5, <2>6 DEF ToldInv
<1>7. CASE ~start_q /\ ~done.up
  <2>1. m = written
    BY <1>7 DEF Ended
  <2>2. cause' = written.cause /\ run' = written.run
        /\ (int' <=> int /\ w.reg # "CAUSE")
    <3> HIDE DEF written, m
    <3> QED BY <1>4, <1>5, <2>1
  <2>3. owed' = IF w.reg = "CAUSE" THEN {} ELSE owed
    BY <1>3, <1>7
  <2>4. Resting' \/ Starting' \/ Working' \/ Ending'
    <3>1. run'.running = run.running
      <4> HIDE DEF written
      <4> QED BY <1>5, <2>2
    <3> HIDE DEF written, m
    <3>2. CASE Resting
      BY <1>2, <1>3, <1>7, <3>1, <3>2 DEF ToldInv, Resting, Starting
    <3>3. CASE Working
      BY <1>2, <1>3, <1>7, <3>1, <3>3 DEF ToldInv, Working, Ending
    <3> QED BY <1>7, <3>2, <3>3 DEF ToldInv, Starting, Ending
  <2> HIDE DEF written
  <2> QED BY <1>2, <1>5, <2>2, <2>3, <2>4 DEF ToldInv
<1>8. CASE done.up
  <2>1. ~start_q /\ state = "S_IDLE" /\ run.running /\ ~starts
    BY <1>8 DEF ToldInv, Resting, Starting, Working, Ending
  <2>2. cause' = CauseNew /\ run' = [running |-> FALSE, cause |-> CauseNew]
        /\ (int' <=> written.int \/ done.fault # {} \/ regs.ie)
    BY <1>4, <1>8, <2>1 DEF Ended
  <2>3. Resting'
    BY <1>2, <1>3, <1>8, <2>1, <2>2 DEF Resting
  <2>4. owed' # {} => int' /\ owed' \subseteq cause'
    <3> HIDE DEF written
    <3> QED BY <1>3, <1>5, <1>8, <2>2 DEF ToldInv, CauseNew
  <2> QED BY <1>2, <2>2, <2>3, <2>4 DEF ToldInv
<1> QED BY <1>6, <1>7, <1>8

LEMMA ToldNext == ToldInv /\ [Next]_vars => ToldInv'
<1> SUFFICES ASSUME ToldInv, [Next]_vars PROVE ToldInv'
  OBVIOUS
<1>1. CASE Tick
  <2>1. Clock(NoWrite, FALSE) /\ NoWrite.reg = "none"
    BY <1>1 DEF Tick, NoWrite
  <2> QED BY <2>1, ToldClock
<1>2. CASE Programs
  <2>1. PICK value : Clock([reg |-> "DESCRIPTOR", value |-> value], FALSE)
    BY <1>2 DEF Programs
  <2>2. ~gap
    BY <1>2 DEF Programs
  <2> QED BY <2>1, <2>2, ToldClock
<1>3. CASE Starts
  <2>1. Clock(NoWrite, TRUE) /\ NoWrite.reg = "none" /\ ~gap /\ ~run.running
    BY <1>3 DEF Starts, NoWrite
  <2> QED BY <2>1, ToldClock
<1>4. CASE Retires
  <2>1. Clock([reg |-> "CAUSE", value |-> {}], FALSE) /\ ~gap
    BY <1>4 DEF Retires
  <2> QED BY <2>1, ToldClock
<1>5. CASE Pokes
  <2>1. PICK value : Clock([reg |-> "MEMADR", value |-> value], FALSE)
    BY <1>5 DEF Pokes
  <2>2. ~gap
    BY <1>5 DEF Pokes
  <2> QED BY <2>1, <2>2, ToldClock
<1>6. CASE UNCHANGED vars
  BY <1>6 DEF vars, Eng!engVars, mcVars, ToldInv, Resting, Starting, Working, Ending
<1> QED BY <1>1, <1>2, <1>3, <1>4, <1>5, <1>6 DEF Next

\* The end of a transfer is told: while RUN reads as clear nothing is under way,
\* and an end that is to interrupt does so until DMA_CAUSE has been zeroed.
THEOREM EndIsToldTheorem == Spec => []EndIsTold
<1>1. ToldInv => EndIsTold
  BY DEF ToldInv, EndIsTold, Resting, Starting, Working, Ending
<1> QED BY <1>1, ToldInit, ToldNext, PTL DEF Spec

-----------------------------------------------------------------------------
(* Doublewords, pages and segments.                                        *)

LEMMA Division ==
    ASSUME NEW a \in Nat, NEW b \in Nat \ {0}
    PROVE  a \div b \in Nat /\ (a % b) \in 0..(b - 1) /\ a = b * (a \div b) + (a % b)
OBVIOUS

LEMMA Quotient ==
    ASSUME NEW q \in Nat, NEW m \in Nat, NEW b \in Nat \ {0}, m < b
    PROVE  (b * q + m) \div b = q /\ (b * q + m) % b = m
OBVIOUS

LEMMA Below ==
    ASSUME NEW q \in Nat, NEW m \in Nat, NEW b \in Nat \ {0}, q < m
    PROVE  b * q + b <= b * m
OBVIOUS

\* Division by a product, one factor after the other.
Splits(a, b, k, c) ==
    /\ a \div c = (a \div b) \div k
    /\ (a % c) \div b = (a \div b) % k
    /\ (a % c) % b = a % b

LEMMA Nested ==
    ASSUME NEW a \in Nat, NEW b \in Nat \ {0}, NEW k \in Nat \ {0}, NEW c, c = b * k
    PROVE  Splits(a, b, k, c)
<1> DEFINE q == a \div b
           r == a % b
           p == q \div k
           t == q % k
<1>1. q \in Nat /\ r \in Nat /\ r < b /\ a = b * q + r
  BY Division
<1>2. p \in Nat /\ t \in Nat /\ t < k /\ q = k * p + t
  <2>1. q \in Nat
    BY <1>1
  <2> HIDE DEF q
  <2> QED BY <2>1, Division
<1> HIDE DEF q, r, p, t
<1>3. b * t + b <= b * k /\ b * t \in Nat
  BY <1>2, Below
<1>4. c \in Nat \ {0} /\ b * t + r < c /\ b * t + r \in Nat
  BY <1>1, <1>3
<1>5. b * q = c * p + b * t
  <2>1. b * (k * p + t) = b * (k * p) + b * t
    BY <1>2
  <2>2. b * (k * p) = (b * k) * p
    BY <1>2
  <2> QED BY <1>2, <2>1, <2>2
<1>6. a = c * p + (b * t + r)
  BY <1>1, <1>2, <1>3, <1>4, <1>5
<1>7. a \div c = p /\ a % c = b * t + r
  BY <1>2, <1>4, <1>6, Quotient
<1>8. (b * t + r) \div b = t /\ (b * t + r) % b = r
  BY <1>1, <1>2, Quotient
<1> QED BY <1>7, <1>8 DEF Splits, q, r, p, t

LEMMA Factor ==
    ASSUME NEW a \in Nat \ {0}, NEW b \in Nat \ {0}, a % b = 0
    PROVE  (a \div b) \in Nat \ {0} /\ a = b * (a \div b)
<1>1. a \div b \in Nat /\ a = b * (a \div b) + (a % b)
  BY Division
<1>2. b * (a \div b) \in Nat
  BY <1>1
<1>3. a = b * (a \div b)
  BY <1>1, <1>2
<1>4. a \div b # 0
  BY <1>3
<1> QED BY <1>1, <1>3, <1>4

LEMMA Numbers ==
    /\ QW \in Nat \ {0} /\ Word \in Nat \ {0} /\ QW = 2 * Word
    /\ PAGE \in Nat \ {0} /\ SEG \in Nat \ {0} /\ ASIZE \in Nat \ {0}
<1>1. QW \in Nat \ {0} /\ PAGE \in Nat \ {0} /\ SEG \in Nat \ {0} /\ ASIZE \in Nat \ {0}
  BY DmaAssumption
<1>2. QW % 2 = 0 /\ 2 \in Nat \ {0}
  BY DmaAssumption
<1>3. Word \in Nat \ {0} /\ QW = 2 * Word
  BY <1>1, <1>2, Factor DEF Word
<1> QED BY <1>1, <1>3

LEMMA Multiples ==
    /\ \E k \in Nat \ {0} : PAGE = QW * k
    /\ \E k \in Nat \ {0} : SEG = PAGE * k
    /\ \E k \in Nat \ {0} : ASIZE = PAGE * k
    /\ \E k \in Nat \ {0} : ASIZE = QW * k
<1>1. PAGE % QW = 0 /\ SEG % PAGE = 0 /\ ASIZE % SEG = 0
  BY DmaAssumption
<1>2. \E k \in Nat \ {0} : PAGE = QW * k
  <2>1. (PAGE \div QW) \in Nat \ {0} /\ PAGE = QW * (PAGE \div QW)
    BY <1>1, Numbers, Factor
  <2> QED BY <2>1
<1>3. \E k \in Nat \ {0} : SEG = PAGE * k
  <2>1. (SEG \div PAGE) \in Nat \ {0} /\ SEG = PAGE * (SEG \div PAGE)
    BY <1>1, Numbers, Factor
  <2> QED BY <2>1
<1>4. \E k \in Nat \ {0} : ASIZE = SEG * k
  <2>1. (ASIZE \div SEG) \in Nat \ {0} /\ ASIZE = SEG * (ASIZE \div SEG)
    BY <1>1, Numbers, Factor
  <2> QED BY <2>1
<1>5. PICK k \in Nat \ {0} : PAGE = QW * k
  BY <1>2
<1>6. PICK l \in Nat \ {0} : SEG = PAGE * l
  BY <1>3
<1>7. PICK m \in Nat \ {0} : ASIZE = SEG * m
  BY <1>4
<1>8. ASIZE = PAGE * (l * m) /\ l * m \in Nat \ {0}
  BY <1>6, <1>7, Numbers
<1>9. ASIZE = QW * (k * (l * m)) /\ k * (l * m) \in Nat \ {0}
  <2> DEFINE n == l * m
  <2>1. n \in Nat \ {0} /\ ASIZE = PAGE * n
    BY <1>8
  <2> HIDE DEF n
  <2>2. ASIZE = QW * (k * n) /\ k * n \in Nat \ {0}
    BY <1>5, <2>1, Numbers
  <2> QED BY <2>2 DEF n
<1> QED BY <1>2, <1>3, <1>8, <1>9

\* Two places of a doubleword are in one page, two of a page in one segment.
LEMMA OneDword ==
    ASSUME NEW a \in Nat, NEW b \in Nat, a \div QW = b \div QW
    PROVE  a \div PAGE = b \div PAGE /\ (a % PAGE) \div QW = (b % PAGE) \div QW
<1>1. PICK k \in Nat \ {0} : PAGE = QW * k
  BY Multiples
<1>2. \A x \in Nat : Splits(x, QW, k, PAGE)
  <2>1. QW \in Nat \ {0} /\ k \in Nat \ {0} /\ PAGE = QW * k
    BY <1>1, Numbers
  <2> QED BY <2>1, Nested
<1> QED BY <1>2 DEF Splits

LEMMA OnePage ==
    ASSUME NEW a \in Nat, NEW b \in Nat, a \div PAGE = b \div PAGE
    PROVE  a \div SEG = b \div SEG /\ (a % SEG) \div PAGE = (b % SEG) \div PAGE
<1>1. PICK k \in Nat \ {0} : SEG = PAGE * k
  BY Multiples
<1>2. \A x \in Nat : Splits(x, PAGE, k, SEG)
  <2>1. PAGE \in Nat \ {0} /\ k \in Nat \ {0} /\ SEG = PAGE * k
    BY <1>1, Numbers
  <2> QED BY <2>1, Nested
<1> QED BY <1>2 DEF Splits

\* A frame begins where a doubleword does.
LEMMA InFrame ==
    ASSUME NEW f \in Nat
    PROVE  \E g \in Nat : \A x \in Nat : /\ (f * PAGE + x) \div QW = g + (x \div QW)
                                         /\ (f * PAGE + x) % QW = x % QW
<1>1. PICK k \in Nat \ {0} : PAGE = QW * k
  BY Multiples
<1> DEFINE g == k * f
<1>2. g \in Nat /\ f * PAGE = QW * g
  BY <1>1, Numbers
<1> HIDE DEF g
<1>3. ASSUME NEW x \in Nat
      PROVE  /\ (QW * g + x) \div QW = g + (x \div QW)
             /\ (QW * g + x) % QW = x % QW
  <2> DEFINE q == x \div QW
             r == x % QW
  <2>1. q \in Nat /\ r \in 0..(QW - 1) /\ x = QW * q + r
    BY Division, Numbers
  <2>2. r \in Nat /\ r < QW
    BY <2>1, Numbers
  <2> HIDE DEF q, r
  <2>3. QW * g + x = QW * (g + q) + r
    <3>1. QW * (g + q) = QW * g + QW * q /\ QW * g \in Nat /\ QW * q \in Nat
      BY <1>2, <2>1, Numbers
    <3> QED BY <2>1, <2>2, <3>1
  <2>4. (QW * (g + q) + r) \div QW = g + q /\ (QW * (g + q) + r) % QW = r
    <3>1. g + q \in Nat
      BY <1>2, <2>1
    <3> QED BY <2>2, <3>1, Quotient, Numbers
  <2> QED BY <2>3, <2>4 DEF q, r
<1> QED BY <1>2, <1>3

\* A byte of a frame: its lane, and that it is there.
LEMMA InPage ==
    ASSUME NEW a \in Nat, NEW f \in 0..(ASIZE \div PAGE - 1)
    PROVE  /\ f * PAGE + (a % PAGE) \in Addresses
           /\ (f * PAGE + (a % PAGE)) % QW = a % QW
<1>1. PICK k \in Nat \ {0} : PAGE = QW * k
  BY Multiples
<1>2. PICK n \in Nat \ {0} : ASIZE = PAGE * n
  BY Multiples
<1>3. (a % PAGE) % QW = a % QW /\ a % PAGE \in 0..(PAGE - 1)
  <2>1. (a % PAGE) % QW = a % QW
    <3>1. QW \in Nat \ {0} /\ k \in Nat \ {0} /\ PAGE = QW * k
      BY <1>1, Numbers
    <3>2. Splits(a, QW, k, PAGE)
      BY <3>1, Nested
    <3> QED BY <3>2 DEF Splits
  <2>2. a % PAGE \in 0..(PAGE - 1)
    BY Division, Numbers
  <2> QED BY <2>1, <2>2
<1>4. ASIZE \div PAGE = n
  <2>1. (PAGE * n + 0) \div PAGE = n
    BY <1>2, Quotient, Numbers
  <2> QED BY <1>2, <2>1, Numbers
<1>5. f \in Nat /\ f < n
  BY <1>2, <1>4
<1>6. PAGE * f + PAGE <= PAGE * n /\ PAGE * f \in Nat /\ f * PAGE = PAGE * f
  BY <1>2, <1>5, Below, Numbers
<1>7. f * PAGE + (a % PAGE) \in Addresses
  <2> DEFINE r == a % PAGE
             g == PAGE * f
             s == PAGE * n
  <2>1. r \in 0..(PAGE - 1) /\ g \in Nat /\ g + PAGE <= s /\ s = ASIZE
    BY <1>2, <1>3, <1>6
  <2>2. s \in Nat /\ PAGE \in Nat
    BY <2>1, Numbers
  <2> HIDE DEF r, g, s
  <2>3. g + r \in 0..(ASIZE - 1)
    BY <2>1, <2>2
  <2> QED BY <1>6, <2>3 DEF g, r, Addresses
<1>8. a % PAGE \in Nat
  BY <1>3, Numbers
<1>9. (f * PAGE + (a % PAGE)) % QW = (a % PAGE) % QW
  <2> DEFINE x == a % PAGE
  <2>1. x \in Nat
    BY <1>8
  <2> HIDE DEF x
  <2>2. (f * PAGE + x) % QW = x % QW
    BY <1>5, <2>1, InFrame
  <2> QED BY <2>2 DEF x
<1> QED BY <1>3, <1>7, <1>9

\* The bytes from an address on to the end of its doubleword.
LEMMA ThisDword ==
    ASSUME NEW m \in Addresses, NEW j \in Nat, (m % QW) + j < QW
    PROVE  /\ (m + j) % ASIZE = m + j /\ m + j \in Addresses
           /\ (m + j) \div QW = m \div QW /\ (m + j) % QW = (m % QW) + j
<1>1. PICK n \in Nat \ {0} : ASIZE = QW * n
  BY Multiples
<1> DEFINE q == m \div QW
           r == m % QW
<1>2. m \in Nat /\ m < ASIZE
  BY Numbers DEF Addresses
<1>3. q \in Nat /\ r \in 0..(QW - 1) /\ m = QW * q + r
  BY <1>2, Division, Numbers
<1>4. r \in Nat /\ r + j < QW
  BY <1>3, Numbers
<1> HIDE DEF q, r
<1>5. q < n
  <2> SUFFICES ASSUME ~(q < n) PROVE FALSE
    OBVIOUS
  <2>1. q = n \/ n < q
    BY <1>1, <1>3
  <2>2. QW * n <= QW * q
    BY <1>1, <1>3, <2>1, Below, Numbers
  <2>3. QW * n \in Nat /\ QW * q \in Nat
    BY <1>1, <1>3, Numbers
  <2> QED BY <1>1, <1>2, <1>3, <1>4, <2>2, <2>3
<1>6. QW * q + QW <= QW * n /\ QW * q \in Nat /\ QW * n \in Nat
  BY <1>1, <1>3, <1>5, Below, Numbers
<1>7. m + j = QW * q + (r + j) /\ m + j \in 0..(ASIZE - 1)
  BY <1>1, <1>3, <1>4, <1>6, Numbers
<1>8. (QW * q + (r + j)) \div QW = q /\ (QW * q + (r + j)) % QW = r + j
  <2>1. r + j \in Nat
    BY <1>4
  <2> QED BY <1>3, <1>4, <2>1, Quotient, Numbers
<1>9. (m + j) % ASIZE = m + j
  <2>1. m + j \in Nat /\ m + j < ASIZE
    BY <1>7, Numbers
  <2> DEFINE x == m + j
  <2> HIDE DEF x
  <2>2. (ASIZE * 0 + x) % ASIZE = x /\ ASIZE * 0 + x = x
    BY <2>1, Quotient, Numbers DEF x
  <2> QED BY <2>2 DEF x
<1> QED BY <1>7, <1>8, <1>9 DEF q, r, Addresses

\* And from there on to the end of the next, which is the first after the last.
LEMMA NextDword ==
    ASSUME NEW m \in Addresses, NEW j \in Nat, j < QW, (m % QW) + j >= QW
    PROVE  LET m2 == Eng!NextQword(m)
           IN  /\ m2 \in Addresses /\ m2 % QW = 0
               /\ (m + j) % ASIZE \in Addresses
               /\ ((m + j) % ASIZE) \div QW = m2 \div QW
               /\ ((m + j) % ASIZE) % QW = (m % QW) + j - QW
<1>1. PICK n \in Nat \ {0} : ASIZE = QW * n
  BY Multiples
<1> DEFINE q == m \div QW
           r == m % QW
           i == r + j - QW
           m2 == Eng!NextQword(m)
<1>2. m \in Nat /\ m < ASIZE
  BY Numbers DEF Addresses
<1>3. q \in Nat /\ r \in 0..(QW - 1) /\ m = QW * q + r
  BY <1>2, Division, Numbers
<1>4. r \in Nat /\ r < QW /\ i \in Nat /\ i < QW
  BY <1>3, Numbers
<1>5. m2 = (q * QW + QW) % ASIZE
  BY DEF Eng!NextQword
<1> HIDE DEF q, r, m2
<1>6. q < n
  <2> SUFFICES ASSUME ~(q < n) PROVE FALSE
    OBVIOUS
  <2>1. q = n \/ n < q
    BY <1>1, <1>3
  <2>2. QW * n <= QW * q
    BY <1>1, <1>3, <2>1, Below, Numbers
  <2>3. QW * n \in Nat /\ QW * q \in Nat
    BY <1>1, <1>3, Numbers
  <2> QED BY <1>1, <1>2, <1>3, <1>4, <2>2, <2>3
<1>7. QW * (q + 1) = QW * q + QW /\ q * QW = QW * q /\ QW * q \in Nat
  BY <1>3, Numbers
<1>8. m + j = QW * (q + 1) + i
  BY <1>3, <1>4, <1>7, Numbers
<1>9. \A p \in Nat : (QW * p + i) \div QW = p /\ (QW * p + i) % QW = i
                     /\ (QW * p + 0) \div QW = p /\ (QW * p + 0) % QW = 0
  <2> HIDE DEF i
  <2> QED BY <1>4, Quotient, Numbers
<1>10. CASE q + 1 < n
  <2> DEFINE s == QW * (q + 1)
  <2>1. s \in Nat /\ s + QW <= ASIZE
    BY <1>1, <1>3, <1>7, <1>10, Below, Numbers
  <2>2. \A x \in Nat : x < ASIZE => x % ASIZE = x
    <3>1. \A x \in Nat : x < ASIZE => (ASIZE * 0 + x) % ASIZE = x /\ ASIZE * 0 + x = x
      BY Quotient, Numbers
    <3> QED BY <3>1
  <2>3. m2 = s
    BY <1>5, <1>7, <2>1, <2>2, Numbers
  <2>4. (m + j) % ASIZE = s + i
    <3> HIDE DEF s, i
    <3>1. s + i \in Nat /\ s + i < ASIZE
      BY <1>4, <2>1, Numbers
    <3> QED BY <1>8, <2>2, <3>1 DEF s
  <2>5. s + i \in 0..(ASIZE - 1) /\ s \in 0..(ASIZE - 1)
    <3> HIDE DEF s, i
    <3> QED BY <1>4, <2>1, Numbers
  <2>6. (s + i) \div QW = q + 1 /\ (s + i) % QW = i /\ s \div QW = q + 1 /\ s % QW = 0
    <3>1. q + 1 \in Nat /\ s + 0 = s
      BY <1>3, <2>1
    <3> HIDE DEF i
    <3> QED BY <1>9, <3>1
  <2> HIDE DEF s
  <2> QED BY <2>3, <2>4, <2>5, <2>6 DEF Addresses, r, i, m2
<1>11. CASE q + 1 = n
  <2>1. m2 = 0
    <3>1. m2 = ASIZE % ASIZE
      BY <1>1, <1>5, <1>7, <1>11
    <3>2. (ASIZE * 1 + 0) % ASIZE = 0 /\ ASIZE * 1 + 0 = ASIZE
      BY Quotient, Numbers
    <3> QED BY <3>1, <3>2
  <2>2. QW <= ASIZE
    BY <1>1, <1>3, <1>7, <1>11, Numbers
  <2>3. (m + j) % ASIZE = i
    <3> HIDE DEF i
    <3>1. i < ASIZE
      BY <1>4, <2>2, Numbers
    <3>2. (ASIZE * 1 + i) % ASIZE = i
      BY <1>4, <3>1, Quotient, Numbers
    <3>3. m + j = ASIZE * 1 + i
      BY <1>1, <1>8, <1>11, Numbers
    <3> QED BY <3>2, <3>3
  <2>4. i \in 0..(ASIZE - 1) /\ 0 \in 0..(ASIZE - 1)
    <3> HIDE DEF i
    <3> QED BY <1>4, <2>2, Numbers
  <2>5. i \div QW = 0 /\ i % QW = i /\ 0 \div QW = 0 /\ 0 % QW = 0
    <3> HIDE DEF i
    <3>1. QW * 0 + i = i /\ QW * 0 + 0 = 0
      BY <1>4, Numbers
    <3> QED BY <1>9, <3>1
  <2> QED BY <2>1, <2>3, <2>4, <2>5 DEF Addresses, r, i, m2
<1>12. QED BY <1>3, <1>6, <1>10, <1>11, <1>1

-----------------------------------------------------------------------------
(* Translation.                                                            *)

LEMMA NatMin ==
    ASSUME NEW T \in SUBSET Nat, T # {}
    PROVE  \E x \in T : \A y \in T : ~(y < x)
<1> DEFINE R == OpToRel(<, Nat)
<1>1. IsWellFoundedOn(R, Nat)
  BY NatLessThanWellFounded
<1>2. \E x \in T : \A y \in T : ~(<<y, x>> \in R)
  <2> HIDE DEF R
  <2> QED BY <1>1, WFMin
<1>3. \A x, y \in Nat : y < x => <<y, x>> \in R
  BY DEF OpToRel
<1> QED BY <1>2, <1>3

LEMMA MinIs ==
    ASSUME NEW S \in SUBSET Nat, S # {}
    PROVE  Min(S) \in S /\ \A n \in S : Min(S) <= n
<1>1. PICK x \in S : \A y \in S : ~(y < x)
  BY NatMin
<1>2. \A y \in S : x <= y
  BY <1>1
<1> QED BY <1>2 DEF Min

\* Where the transfer's bytes are, by the registers and tables as they are.
Tr(a) == Translate(regs, regs.tlb, table, a, regs.to_host)

Hits(a) == {i \in DOMAIN regs.tlb : regs.tlb[i].tag = a \div SEG}
Mapping(a) == regs.tlb[Min(Hits(a))]
PteOf(a) == table[Mapping(a).base][(a % SEG) \div PAGE]

\* The uTLB's entries and the page tables they name are there.
TablesOk ==
    regs.xlate => /\ regs.tlb \in UTlb
                  /\ \A i \in DOMAIN regs.tlb : table[regs.tlb[i].base] \in Fragment

LEMMA Untranslated == ASSUME NEW a, ~regs.xlate PROVE Tr(a) = [phys |-> a, fault |-> {}]
  BY DEF Tr, Translate

LEMMA Translated ==
    ASSUME NEW a, regs.xlate
    PROVE  /\ Hits(a) = {} => Tr(a).fault = {"TLB_MISS"}
           /\ Hits(a) # {} /\ ~Mapping(a).valid => Tr(a).fault = {"TLB_MISS"}
           /\ Hits(a) # {} /\ Mapping(a).valid /\ ~PteOf(a).valid => Tr(a).fault = {"FAULT"}
           /\ /\ Hits(a) # {} /\ Mapping(a).valid /\ PteOf(a).valid
              /\ regs.to_host /\ ~PteOf(a).wrok
              => Tr(a).fault = {"CLEAN"}
           /\ /\ Hits(a) # {} /\ Mapping(a).valid /\ PteOf(a).valid
              /\ ~(regs.to_host /\ ~PteOf(a).wrok)
              => Tr(a) = [phys |-> PteOf(a).frame * PAGE + (a % PAGE), fault |-> {}]
<1>1. CASE Hits(a) = {}
  BY <1>1 DEF Tr, Translate, Hits
<1>2. CASE Hits(a) # {} /\ ~Mapping(a).valid
  BY <1>2 DEF Tr, Translate, Hits, Mapping
<1>3. CASE Hits(a) # {} /\ Mapping(a).valid /\ ~PteOf(a).valid
  BY <1>3 DEF Tr, Translate, Hits, Mapping, PteOf
<1>4. CASE Hits(a) # {} /\ Mapping(a).valid /\ PteOf(a).valid
  BY <1>4 DEF Tr, Translate, Hits, Mapping, PteOf
<1> QED BY <1>1, <1>2, <1>3, <1>4

LEMMA Faulting ==
    ASSUME NEW a, Tr(a).fault = {}, regs.xlate
    PROVE  /\ Hits(a) # {} /\ Mapping(a).valid /\ PteOf(a).valid
           /\ regs.to_host => PteOf(a).wrok
           /\ Tr(a) = [phys |-> PteOf(a).frame * PAGE + (a % PAGE), fault |-> {}]
<1>1. "TLB_MISS" \notin {} /\ "FAULT" \notin {} /\ "CLEAN" \notin {}
  OBVIOUS
<1> QED BY <1>1, Translated

LEMMA PteKind ==
    ASSUME NEW a \in Addresses, TablesOk, regs.xlate, Hits(a) # {}
    PROVE  PteOf(a) \in [valid : BOOLEAN, wrok : BOOLEAN, frame : 0..(ASIZE \div PAGE - 1)]
<1>1. DOMAIN regs.tlb \in SUBSET Nat
  BY DEF TablesOk, UTlb
<1>2. Hits(a) \in SUBSET Nat /\ Hits(a) \subseteq DOMAIN regs.tlb
  BY <1>1 DEF Hits
<1>3. Min(Hits(a)) \in DOMAIN regs.tlb
  BY <1>2, MinIs
<1>4. table[Mapping(a).base] \in Fragment
  BY <1>3 DEF TablesOk, Mapping
<1>5. PICK k \in Nat \ {0} : SEG = PAGE * k
  BY Multiples
<1>6. a \in Nat /\ a \div PAGE \in Nat
  BY Division, Numbers DEF Addresses
<1>7. (a % SEG) \div PAGE = (a \div PAGE) % k
  <2>1. PAGE \in Nat \ {0} /\ k \in Nat \ {0} /\ SEG = PAGE * k
    BY <1>5, Numbers
  <2>2. Splits(a, PAGE, k, SEG)
    BY <1>6, <2>1, Nested
  <2> QED BY <2>2 DEF Splits
<1>8. SEG \div PAGE = k
  <2>1. (PAGE * k + 0) \div PAGE = k
    BY <1>5, Quotient, Numbers
  <2> QED BY <1>5, <2>1, Numbers
<1>9. (a % SEG) \div PAGE \in 0..(SEG \div PAGE - 1)
  <2> DEFINE p == a \div PAGE
  <2>1. p \in Nat
    BY <1>6
  <2> HIDE DEF p
  <2>2. (p % k) \in 0..(k - 1)
    BY <1>5, <2>1, Division
  <2> QED BY <1>7, <1>8, <2>2 DEF p
<1> QED BY <1>4, <1>9 DEF PteOf, Fragment

\* Two addresses of a page: one translation.
LEMMA PageTranslation ==
    ASSUME NEW a \in Addresses, NEW b \in Addresses, a \div PAGE = b \div PAGE
    PROVE  Hits(a) = Hits(b) /\ Mapping(a) = Mapping(b) /\ PteOf(a) = PteOf(b)
<1>1. a \in Nat /\ b \in Nat
  BY Numbers DEF Addresses
<1>2. a \div SEG = b \div SEG /\ (a % SEG) \div PAGE = (b % SEG) \div PAGE
  BY <1>1, OnePage
<1> QED BY <1>2 DEF Hits, Mapping, PteOf

LEMMA SameFault ==
    ASSUME NEW a \in Addresses, NEW b \in Addresses, a \div PAGE = b \div PAGE
    PROVE  Tr(a).fault = Tr(b).fault
<1>1. CASE ~regs.xlate
  BY <1>1, Untranslated
<1>2. CASE regs.xlate
  <2>1. /\ Hits(a) = Hits(b) /\ Mapping(a) = Mapping(b) /\ PteOf(a) = PteOf(b)
    BY PageTranslation
  <2>2. CASE Hits(a) = {} \/ ~Mapping(a).valid
    BY <1>2, <2>1, <2>2, Translated
  <2>3. CASE Hits(a) # {} /\ Mapping(a).valid /\ ~PteOf(a).valid
    BY <1>2, <2>1, <2>3, Translated
  <2>4. CASE Hits(a) # {} /\ Mapping(a).valid /\ PteOf(a).valid /\ regs.to_host /\ ~PteOf(a).wrok
    BY <1>2, <2>1, <2>4, Translated
  <2>5. CASE Hits(a) # {} /\ Mapping(a).valid /\ PteOf(a).valid /\ ~(regs.to_host /\ ~PteOf(a).wrok)
    <3>1. Tr(a).fault = {}
      BY <1>2, <2>5, Translated
    <3>2. Tr(b).fault = {}
      BY <1>2, <2>1, <2>5, Translated
    <3> QED BY <3>1, <3>2
  <2> QED BY <2>2, <2>3, <2>4, <2>5
<1> QED BY <1>1, <1>2

LEMMA PhysIs ==
    ASSUME NEW a \in Addresses, TablesOk, Tr(a).fault = {}
    PROVE  Tr(a).phys \in Addresses /\ Tr(a).phys % QW = a % QW
<1>1. CASE ~regs.xlate
  BY <1>1, Untranslated
<1>2. CASE regs.xlate
  <2>1. Hits(a) # {} /\ Tr(a) = [phys |-> PteOf(a).frame * PAGE + (a % PAGE), fault |-> {}]
    BY <1>2, Faulting
  <2>2. PteOf(a).frame \in 0..(ASIZE \div PAGE - 1)
    BY <1>2, <2>1, PteKind
  <2>3. a \in Nat
    BY Numbers DEF Addresses
  <2>4. Tr(a).phys = PteOf(a).frame * PAGE + (a % PAGE)
    BY <2>1
  <2> QED BY <2>2, <2>3, <2>4, InPage
<1> QED BY <1>1, <1>2

\* The bytes of a doubleword stay together.
LEMMA DwordTranslation ==
    ASSUME NEW a \in Addresses, NEW b \in Addresses, a \div QW = b \div QW, TablesOk
    PROVE  /\ Tr(a).fault = Tr(b).fault
           /\ Tr(a).fault = {} => Tr(a).phys \div QW = Tr(b).phys \div QW
<1>1. a \in Nat /\ b \in Nat
  BY Numbers DEF Addresses
<1>2. a \div PAGE = b \div PAGE /\ (a % PAGE) \div QW = (b % PAGE) \div QW
  BY <1>1, OneDword
<1>3. Tr(a).fault = Tr(b).fault
  BY <1>2, SameFault
<1>4. ASSUME Tr(a).fault = {}
      PROVE  Tr(a).phys \div QW = Tr(b).phys \div QW
  <2>1. CASE ~regs.xlate
    BY <2>1, Untranslated
  <2>2. CASE regs.xlate
    <3>1. Hits(a) # {} /\ Tr(a) = [phys |-> PteOf(a).frame * PAGE + (a % PAGE), fault |-> {}]
      BY <1>4, <2>2, Faulting
    <3>2. Tr(b) = [phys |-> PteOf(b).frame * PAGE + (b % PAGE), fault |-> {}]
      BY <1>3, <1>4, <2>2, Faulting
    <3>3. PteOf(a) = PteOf(b)
      BY <1>2, PageTranslation
    <3> DEFINE f == PteOf(a).frame
               x == a % PAGE
               y == b % PAGE
    <3>4. f \in Nat
      BY <2>2, <3>1, PteKind
    <3>5. x \in Nat /\ y \in Nat /\ x \div QW = y \div QW
      <4>1. x \in 0..(PAGE - 1) /\ y \in 0..(PAGE - 1)
        BY <1>1, Division, Numbers
      <4> QED BY <1>2, <4>1, Numbers
    <3>6. Tr(a).phys = f * PAGE + x /\ Tr(b).phys = f * PAGE + y
      BY <3>1, <3>2, <3>3
    <3> HIDE DEF f, x, y
    <3>7. (f * PAGE + x) \div QW = (f * PAGE + y) \div QW
      <4>1. PICK g \in Nat : \A z \in Nat : (f * PAGE + z) \div QW = g + (z \div QW)
        BY <3>4, InFrame
      <4> QED BY <3>5, <4>1
    <3> QED BY <3>6, <3>7
  <2> QED BY <2>1, <2>2
<1> QED BY <1>3, <1>4

-----------------------------------------------------------------------------
(* The reference's rounds.                                                 *)

Round(s) == LoopStep(regs, regs.tlb, table, s)

RefFields == {"in", "lines", "zoom", "bytes", "mem", "image", "beats", "reads", "fault"}
Data == {"image", "beats", "reads", "fault"}
Same(t, s, fields) == \A x \in fields : t[x] = s[x]

LEMMA LinesEnd ==
    ASSUME NEW s, DOMAIN s = RefFields, s.in = "lines", s.lines = 0
    PROVE  LET t == Round(s) IN
           DOMAIN t = RefFields /\ t.in = "out" /\ Same(t, s, RefFields \ {"in"})
  BY DEF Round, LoopStep, Same, RefFields

LEMMA LineBegins ==
    ASSUME NEW s, DOMAIN s = RefFields, s.in = "lines", s.lines \in Nat, s.lines > 0
    PROVE  LET t == Round(s) IN
           /\ DOMAIN t = RefFields /\ t.in = "zoom" /\ t.lines = s.lines - 1
           /\ Same(t, s, {"zoom", "bytes", "mem"} \union Data)
  BY DEF Round, LoopStep, Same, RefFields, Data

LEMMA LineEnds ==
    ASSUME NEW s, DOMAIN s = RefFields, s.in = "zoom", s.zoom = 0
    PROVE  LET t == Round(s) IN
           /\ DOMAIN t = RefFields /\ t.in = "lines" /\ t.zoom = regs.line_zoom
           /\ t.mem = (s.mem + regs.stride) % ASIZE
           /\ Same(t, s, {"lines", "bytes"} \union Data)
<1>1. Round(s) = [s EXCEPT !.in = "lines", !.zoom = regs.line_zoom,
                           !.mem = (s.mem + regs.stride) % ASIZE]
  BY DEF Round, LoopStep
<1> QED BY <1>1 DEF Same, RefFields, Data

LEMMA PassBegins ==
    ASSUME NEW s, DOMAIN s = RefFields, s.in = "zoom", s.zoom \in Nat, s.zoom > 0
    PROVE  LET t == Round(s) IN
           /\ DOMAIN t = RefFields /\ t.in = "bytes" /\ t.zoom = s.zoom - 1
           /\ Same(t, s, {"lines", "bytes", "mem"} \union Data)
  BY DEF Round, LoopStep, Same, RefFields, Data

LEMMA PassEnds ==
    ASSUME NEW s, DOMAIN s = RefFields, s.in = "bytes", s.bytes = 0
    PROVE  LET t == Round(s) IN
           /\ DOMAIN t = RefFields /\ t.in = "zoom" /\ t.bytes = regs.width
           /\ t.mem = IF s.zoom = 0 THEN s.mem
                      ELSE (IF regs.up THEN s.mem - regs.width ELSE s.mem + regs.width) % ASIZE
           /\ Same(t, s, {"lines", "zoom"} \union Data)
<1> DEFINE m == IF s.zoom = 0 THEN s.mem
                ELSE (IF regs.up THEN s.mem - regs.width ELSE s.mem + regs.width) % ASIZE
<1>1. Round(s) = [s EXCEPT !.in = "zoom", !.bytes = regs.width, !.mem = m]
  BY DEF Round, LoopStep
<1> HIDE DEF m
<1>2. LET t == Round(s) IN
      /\ DOMAIN t = RefFields /\ t.in = "zoom" /\ t.bytes = regs.width /\ t.mem = m
      /\ Same(t, s, {"lines", "zoom"} \union Data)
  BY <1>1 DEF Same, RefFields, Data
<1> QED BY <1>2 DEF m

LEMMA OutStays == ASSUME NEW s, s.in = "out" PROVE Round(s) = s
  BY DEF Round, LoopStep

\* Where byte j of the beat at m is, and the byte it becomes in a transfer
\* to memory.
At(m, j) == Tr((m + j) % ASIZE)
Place(m, j) == IF IsFill(regs) THEN (At(m, 0).phys + j) % ASIZE ELSE At(m, j).phys
Byte(r, j) == IF IsFill(regs) THEN FillByte(j) ELSE GioByte(r, j)
MoveLen(b) == IF IsFill(regs) THEN Word ELSE Min({b, QW})

\* Memory with the first n bytes of the beat, and what goes out on the GIO bus.
Laid(img, n, m, r) ==
    [a \in Addresses |->
        IF \E j \in 0..(n - 1) : Place(m, j) = a
        THEN Byte(r, CHOOSE j \in 0..(n - 1) : Place(m, j) = a)
        ELSE img[a]]
Packed(img, n, m) == [j \in Bytes |-> IF j < n THEN img[Place(m, j)] ELSE Zero]

LEMMA MoveIs ==
    ASSUME NEW s, DOMAIN s = RefFields, s.in = "bytes", s.bytes \in Nat, s.bytes > 0
    PROVE  LET t == Round(s)
               len == MoveLen(s.bytes)
               bad == {j \in 0..(len - 1) : At(s.mem, IF IsFill(regs) THEN 0 ELSE j).fault # {}}
               got == IF bad = {} THEN len ELSE Min(bad)
           IN  /\ DOMAIN t = RefFields
               /\ Same(t, s, {"lines", "zoom"})
               /\ t.image = IF regs.to_host THEN Laid(s.image, got, s.mem, s.reads) ELSE s.image
               /\ t.reads = IF IsG2M(regs) THEN s.reads + 1 ELSE s.reads
               /\ bad # {} => /\ t.in = "out" /\ t.beats = s.beats
                              /\ t.fault = At(s.mem, IF IsFill(regs) THEN 0 ELSE got).fault
                              /\ t.mem = (s.mem + (IF IsFill(regs) THEN 0 ELSE got)) % ASIZE
               /\ bad = {} =>
                      /\ t.in = "bytes" /\ t.fault = s.fault
                      /\ t.bytes = IF s.bytes >= len THEN s.bytes - len ELSE 0
                      /\ t.mem = (s.mem + (IF IsFill(regs) /\ ~regs.up THEN -len ELSE len)) % ASIZE
                      /\ t.beats = IF IsM2G(regs) THEN Append(s.beats, Packed(s.image, len, s.mem))
                                   ELSE s.beats
<1> DEFINE fill == IsFill(regs)
           m == s.mem
           r == s.reads
           len == MoveLen(s.bytes)
           bad == {j \in 0..(len - 1) : At(m, IF fill THEN 0 ELSE j).fault # {}}
           got == IF bad = {} THEN len ELSE Min(bad)
           moved == IF fill /\ bad # {} THEN 0
                    ELSE IF fill /\ ~regs.up THEN -len ELSE got
           mem == (m + moved) % ASIZE
           image1 == IF regs.to_host THEN Laid(s.image, got, m, r) ELSE s.image
           reads1 == IF IsG2M(regs) THEN r + 1 ELSE r
           beats1 == IF IsM2G(regs) THEN Append(s.beats, Packed(s.image, len, m)) ELSE s.beats
           bytes1 == IF s.bytes >= len THEN s.bytes - len ELSE 0
           fault1 == At(m, IF fill THEN 0 ELSE got).fault
           after == [s EXCEPT !.mem = mem, !.image = image1, !.reads = reads1]
<1>1. Round(s) = Move(regs, regs.tlb, table, s)
  BY DEF Round, LoopStep
<1> DEFINE bytes2 == IF after.bytes >= len THEN after.bytes - len ELSE 0
           beats2 == IF IsM2G(regs) THEN Append(after.beats, Packed(s.image, len, m))
                     ELSE after.beats
<1>2. Round(s) = IF bad # {} THEN [after EXCEPT !.in = "out", !.fault = fault1]
                 ELSE [after EXCEPT !.bytes = bytes2, !.beats = beats2]
  BY <1>1 DEF Move, MoveLen, At, Tr, Place, Byte, Laid, Packed
<1>5. bytes2 = bytes1 /\ beats2 = beats1
  <2>1. after.bytes = s.bytes /\ after.beats = s.beats
    <3> HIDE DEF mem, image1, reads1
    <3> QED BY DEF RefFields
  <2> QED BY <2>1
<1>3. /\ bad = {} => moved = IF fill /\ ~regs.up THEN -len ELSE len
      /\ bad # {} => moved = IF fill THEN 0 ELSE got
  OBVIOUS
<1> HIDE DEF len, bad, got, moved, image1, reads1, beats1, bytes1, fault1, fill, bytes2, beats2
<1> DEFINE t == Round(s)
<1>4. /\ DOMAIN t = RefFields /\ Same(t, s, {"lines", "zoom"})
      /\ t.image = image1 /\ t.reads = reads1
      /\ bad # {} => t.in = "out" /\ t.beats = s.beats /\ t.fault = fault1 /\ t.mem = mem
      /\ bad = {} => /\ t.in = "bytes" /\ t.fault = s.fault
                     /\ t.bytes = bytes1 /\ t.mem = mem /\ t.beats = beats1
  <2> HIDE DEF mem
  <2>1. CASE bad # {}
    BY <1>2, <1>5, <2>1 DEF RefFields, Same
  <2>2. CASE bad = {}
    BY <1>2, <1>5, <2>2 DEF RefFields, Same
  <2> QED BY <2>1, <2>2
<1> QED BY <1>3, <1>4 DEF len, bad, got, image1, reads1, beats1, bytes1, fault1, fill, t

-----------------------------------------------------------------------------
(* From the start of a transfer to its outcome.                            *)

\* An outcome is in every set with s that the rounds do not leave.
LeadsTo(s, w) == \A S : s \in S /\ (\A t \in S : Round(t) \in S) => w \in S
Leads(s) == LeadsTo(s, want)

LEMMA OneRound ==
    ASSUME NEW s, Leads(s), s.in # "out", want.in = "out"
    PROVE  Leads(Round(s))
<1> SUFFICES ASSUME NEW S, Round(s) \in S, \A t \in S : Round(t) \in S
             PROVE  want \in S
  BY DEF Leads, LeadsTo
<1>1. s \in S \union {s} /\ \A t \in S \union {s} : Round(t) \in S \union {s}
  OBVIOUS
<1>2. want \in S \union {s}
  BY <1>1 DEF Leads, LeadsTo
<1> QED BY <1>2

LEMMA AtTheEnd == ASSUME NEW s, Leads(s), s.in = "out" PROVE want = s
<1>1. s \in {s} /\ \A t \in {s} : Round(t) \in {s}
  BY OutStays
<1> QED BY <1>1 DEF Leads, LeadsTo

\* What the registers hold, and what a driver can start.
RegsType ==
    [fill : BOOLEAN, to_host : BOOLEAN, up : BOOLEAN, xlate : BOOLEAN, ie : BOOLEAN,
     memadr : Addresses, lines : Nat, width : Nat, line_zoom : Nat, stride : Int,
     zoom : Nat, bytes : Nat, tlb : UTlb]
Startable ==
    /\ regs \in RegsType /\ TablesOk /\ Rounds(regs) <= FUEL
    /\ regs.lines = 0 \/ ~Supported(regs) \/ Legal(regs)

\* The reference's first state.
Begins(s, img, r) ==
    /\ DOMAIN s = RefFields
    /\ s.in = IF Supported(regs) THEN "lines" ELSE "out"
    /\ s.lines = regs.lines /\ s.zoom = regs.zoom /\ s.bytes = regs.bytes
    /\ s.mem = regs.memadr /\ s.image = img
    /\ s.beats = <<>> /\ s.reads = r /\ s.fault = {}

\* Induction: a set of numbers with zero and every successor has them all.
LEMMA NatSet ==
    ASSUME NEW S \in SUBSET Nat, 0 \in S, \A n \in S : n + 1 \in S
    PROVE  S = Nat
<1> SUFFICES ASSUME S # Nat PROVE FALSE
  OBVIOUS
<1> DEFINE T == Nat \ S
<1>1. T \in SUBSET Nat /\ T # {}
  OBVIOUS
<1>2. PICK x \in T : \A y \in T : ~(y < x)
  <2> HIDE DEF T
  <2> QED BY <1>1, NatMin
<1>3. x # 0 /\ x - 1 \in Nat /\ x - 1 < x
  OBVIOUS
<1>4. x - 1 \in S
  BY <1>2, <1>3
<1>5. (x - 1) + 1 \in S
  BY <1>4
<1> QED BY <1>2, <1>5

\* The loops' states one after the other.
LEMMA OutcomeSteps ==
    ASSUME NEW img, NEW r
    PROVE  \E f : /\ Outcome(regs, regs.tlb, table, img, r, FUEL) = f[FUEL]
                  /\ Begins(f[0], img, r)
                  /\ \A n \in 1..FUEL : f[n] = Round(f[n - 1])
<1> DEFINE start == [in |-> IF Supported(regs) THEN "lines" ELSE "out",
                     lines |-> regs.lines, zoom |-> regs.zoom, bytes |-> regs.bytes,
                     mem |-> regs.memadr, image |-> img,
                     beats |-> <<>>, reads |-> r, fault |-> {}]
           Step(g, n) == IF n = 0 THEN start ELSE LoopStep(regs, regs.tlb, table, g[n - 1])
           Full(g, m) == g = [n \in 0..m |-> Step(g, n)]
           T == {m \in Nat : \E g : Full(g, m)}
<1>0. FUEL \in Nat
  BY PathAssumption
<1>1. 0 \in T
  <2> DEFINE g == [n \in 0..0 |-> start]
  <2>1. Full(g, 0)
    <3> HIDE DEF start
    <3> QED OBVIOUS
  <2> HIDE DEF Full, g
  <2> QED BY <2>1
<1>2. ASSUME NEW m \in T PROVE m + 1 \in T
  <2>1. PICK g : Full(g, m)
    OBVIOUS
  <2> DEFINE h == [n \in 0..(m + 1) |-> Step(g, n)]
  <2> HIDE DEF start
  <2>2. \A n \in 0..m : g[n] = Step(g, n)
    BY <2>1
  <2>3. ASSUME NEW n \in 0..(m + 1) PROVE Step(h, n) = Step(g, n)
    <3>1. CASE n = 0
      BY <3>1
    <3>2. CASE n # 0
      <4>1. n - 1 \in 0..m /\ n - 1 \in 0..(m + 1)
        BY <3>2
      <4>2. h[n - 1] = g[n - 1]
        BY <4>1, <2>2
      <4> HIDE DEF h
      <4> QED BY <3>2, <4>2
    <3> QED BY <3>1, <3>2
  <2>4. Full(h, m + 1)
    BY <2>3
  <2> HIDE DEF Full, h
  <2> QED BY <2>4
<1>3. \E g : Full(g, FUEL)
  <2>1. T = Nat
    <3> HIDE DEF T
    <3>1. T \in SUBSET Nat
      BY DEF T
    <3> QED BY <1>1, <1>2, <3>1, NatSet
  <2> HIDE DEF Full
  <2> QED BY <1>0, <2>1
<1> DEFINE f == CHOOSE g : Full(g, FUEL)
<1>4. Full(f, FUEL)
  <2> HIDE DEF Full
  <2> QED BY <1>3
<1>5. Outcome(regs, regs.tlb, table, img, r, FUEL) = f[FUEL]
  BY DEF Outcome
<1>6. \A n \in 0..FUEL : f[n] = Step(f, n)
  <2> HIDE DEF f, start
  <2> QED BY <1>4
<1> HIDE DEF f
<1>7. f[0] = start
  <2> HIDE DEF start
  <2> QED BY <1>0, <1>6
<1>8. Begins(f[0], img, r)
  BY <1>7 DEF Begins, RefFields
<1>9. \A n \in 1..FUEL : f[n] = Round(f[n - 1])
  <2> HIDE DEF start
  <2> QED BY <1>0, <1>6 DEF Round
<1> QED BY <1>5, <1>8, <1>9

LEMMA StartLeads ==
    ASSUME NEW img, NEW r
    PROVE  \E s : Begins(s, img, r) /\ LeadsTo(s, Outcome(regs, regs.tlb, table, img, r, FUEL))
<1>1. PICK f : /\ Outcome(regs, regs.tlb, table, img, r, FUEL) = f[FUEL]
               /\ Begins(f[0], img, r)
               /\ \A n \in 1..FUEL : f[n] = Round(f[n - 1])
  BY OutcomeSteps
<1>2. ASSUME NEW S, f[0] \in S, \A t \in S : Round(t) \in S
      PROVE  f[FUEL] \in S
  <2> DEFINE T == {n \in Nat : n <= FUEL => f[n] \in S}
  <2>1. 0 \in T
    BY <1>2
  <2>2. ASSUME NEW n \in T PROVE n + 1 \in T
    <3>1. CASE n + 1 <= FUEL
      <4>1. n + 1 \in 1..FUEL /\ n <= FUEL /\ (n + 1) - 1 = n /\ f[n] \in S
        BY <3>1, PathAssumption
      <4>2. f[n + 1] = Round(f[n])
        BY <4>1, <1>1
      <4> QED BY <1>2, <4>1, <4>2
    <3> QED BY <3>1
  <2>3. T = Nat
    <3> HIDE DEF T
    <3>1. T \in SUBSET Nat
      BY DEF T
    <3> QED BY <2>1, <2>2, <3>1, NatSet
  <2> QED BY <2>3, PathAssumption
<1> QED BY <1>1, <1>2 DEF LeadsTo

-----------------------------------------------------------------------------
(* The bound on the reference's steps is enough.                           *)

MaxZoom == Larger(regs.zoom, regs.line_zoom)
MaxBytes == Larger(regs.width, regs.bytes)
PerPass == MaxBytes + 2
PerLine == MaxZoom * PerPass + 2

\* The counts of a state, and more steps than it has to go.
Counts(s) ==
    /\ DOMAIN s = RefFields /\ s.in \in {"lines", "zoom", "bytes"}
    /\ s.lines \in Nat
    /\ s.zoom \in Nat /\ s.zoom <= MaxZoom
    /\ s.bytes \in Nat /\ s.bytes <= MaxBytes
ToGo(s) ==
    s.lines * PerLine + 1
      + (CASE s.in = "lines" -> 0
           [] s.in = "zoom" -> 1 + s.zoom * PerPass
           [] s.in = "bytes" -> 2 + s.zoom * PerPass + s.bytes)

LEMMA Larger2 ==
    ASSUME NEW m \in Nat, NEW n \in Nat
    PROVE  Larger(m, n) \in Nat /\ m <= Larger(m, n) /\ n <= Larger(m, n)
  BY DEF Larger

LEMMA PairMin ==
    ASSUME NEW m \in Nat, NEW n \in Nat
    PROVE  Min({m, n}) = IF m <= n THEN m ELSE n
<1>1. {m, n} \in SUBSET Nat /\ {m, n} # {}
  OBVIOUS
<1>2. Min({m, n}) \in {m, n} /\ \A k \in {m, n} : Min({m, n}) <= k
  <2> DEFINE S == {m, n}
  <2>1. S \in SUBSET Nat /\ S # {}
    BY <1>1
  <2> HIDE DEF S
  <2>2. Min(S) \in S /\ \A k \in S : Min(S) <= k
    BY <2>1, MinIs
  <2> QED BY <2>2 DEF S
<1> QED BY <1>2

LEMMA MoveLenIs ==
    ASSUME NEW b \in Nat \ {0}
    PROVE  /\ MoveLen(b) \in 1..QW
           /\ IsFill(regs) => MoveLen(b) = Word
           /\ ~IsFill(regs) => MoveLen(b) = (IF b <= QW THEN b ELSE QW)
<1>1. Min({b, QW}) = IF b <= QW THEN b ELSE QW
  BY Numbers, PairMin
<1> QED BY <1>1, Numbers DEF MoveLen

LEMMA Bounds ==
    ASSUME regs \in RegsType
    PROVE  /\ MaxZoom \in Nat /\ regs.zoom <= MaxZoom /\ regs.line_zoom <= MaxZoom
           /\ MaxBytes \in Nat /\ regs.width <= MaxBytes /\ regs.bytes <= MaxBytes
           /\ PerPass \in Nat /\ PerLine \in Nat
<1>1. regs.zoom \in Nat /\ regs.line_zoom \in Nat /\ regs.width \in Nat /\ regs.bytes \in Nat
  BY DEF RegsType
<1>2. /\ MaxZoom \in Nat /\ regs.zoom <= MaxZoom /\ regs.line_zoom <= MaxZoom
      /\ MaxBytes \in Nat /\ regs.width <= MaxBytes /\ regs.bytes <= MaxBytes
  BY <1>1, Larger2 DEF MaxZoom, MaxBytes
<1>3. PerPass \in Nat
  BY <1>2 DEF PerPass
<1>4. MaxZoom * PerPass \in Nat
  BY <1>2, <1>3
<1> QED BY <1>2, <1>3, <1>4 DEF PerLine

LEMMA ToGoIs ==
    ASSUME NEW s, Counts(s), regs \in RegsType
    PROVE  /\ s.lines * PerLine \in Nat /\ s.zoom * PerPass \in Nat
           /\ s.zoom * PerPass + 2 <= PerLine
           /\ s.in = "lines" => ToGo(s) = s.lines * PerLine + 1
           /\ s.in = "zoom" => ToGo(s) = s.lines * PerLine + s.zoom * PerPass + 2
           /\ s.in = "bytes" => ToGo(s) = s.lines * PerLine + s.zoom * PerPass + s.bytes + 3
           /\ ToGo(s) \in Nat /\ ToGo(s) > 0
<1>1. s.lines \in Nat /\ s.zoom \in Nat /\ s.zoom <= MaxZoom /\ s.bytes \in Nat
      /\ MaxZoom \in Nat /\ PerPass \in Nat /\ PerLine \in Nat
  BY Bounds DEF Counts
<1>2. s.lines * PerLine \in Nat /\ s.zoom * PerPass \in Nat
  BY <1>1
<1>3. s.zoom * PerPass <= MaxZoom * PerPass
  <2>1. PICK k \in Nat : MaxZoom = s.zoom + k
    <3>1. MaxZoom - s.zoom \in Nat /\ MaxZoom = s.zoom + (MaxZoom - s.zoom)
      BY <1>1
    <3> QED BY <3>1
  <2>2. (s.zoom + k) * PerPass = s.zoom * PerPass + k * PerPass /\ k * PerPass \in Nat
    BY <1>1, <2>1
  <2> QED BY <1>2, <2>1, <2>2
<1>4. s.zoom * PerPass + 2 <= PerLine
  <2> DEFINE x == s.zoom * PerPass
             y == MaxZoom * PerPass
  <2>1. x \in Nat /\ y \in Nat /\ x <= y
    BY <1>1, <1>2, <1>3
  <2> HIDE DEF x, y
  <2>2. x + 2 <= y + 2
    BY <2>1
  <2> QED BY <2>2 DEF x, y, PerLine
<1> DEFINE x == s.lines * PerLine
           y == s.zoom * PerPass
           b == s.bytes
<1>5. x \in Nat /\ y \in Nat /\ b \in Nat
  BY <1>1, <1>2
<1>6. ToGo(s) = x + 1 + (CASE s.in = "lines" -> 0
                           [] s.in = "zoom" -> 1 + y
                           [] s.in = "bytes" -> 2 + y + b)
  BY DEF ToGo
<1>7. s.in \in {"lines", "zoom", "bytes"}
  BY DEF Counts
<1> HIDE DEF x, y, b
<1>8. /\ s.in = "lines" => ToGo(s) = x + 1
      /\ s.in = "zoom" => ToGo(s) = x + y + 2
      /\ s.in = "bytes" => ToGo(s) = x + y + b + 3
  <2>1. CASE s.in = "lines"
    BY <1>5, <1>6, <2>1
  <2>2. CASE s.in = "zoom"
    BY <1>5, <1>6, <2>2
  <2>3. CASE s.in = "bytes"
    BY <1>5, <1>6, <2>3
  <2> QED BY <1>7, <2>1, <2>2, <2>3
<1>9. ToGo(s) \in Nat /\ ToGo(s) > 0
  BY <1>5, <1>7, <1>8
<1> QED BY <1>2, <1>4, <1>8, <1>9 DEF x, y, b

\* Each round is a step towards the end.
LEMMA Closer ==
    ASSUME NEW s, Counts(s), regs \in RegsType
    PROVE  LET t == Round(s) IN t.in = "out" \/ (Counts(t) /\ ToGo(t) + 1 <= ToGo(s))
<1> DEFINE t == Round(s)
<1>1. DOMAIN s = RefFields /\ s.lines \in Nat /\ s.zoom \in Nat /\ s.bytes \in Nat
      /\ s.zoom <= MaxZoom /\ s.bytes <= MaxBytes
  BY DEF Counts
<1>2. MaxZoom \in Nat /\ MaxBytes \in Nat /\ PerLine \in Nat /\ PerPass \in Nat
      /\ regs.line_zoom \in Nat /\ regs.line_zoom <= MaxZoom
      /\ regs.width \in Nat /\ regs.width <= MaxBytes
  BY Bounds DEF RegsType
<1>3. ASSUME Counts(t), s.lines = t.lines, s.in = "zoom", t.in = "lines"
      PROVE  ToGo(t) + 1 <= ToGo(s)
  <2> HIDE DEF t
  <2>1. /\ ToGo(s) = s.lines * PerLine + s.zoom * PerPass + 2
        /\ s.lines * PerLine \in Nat /\ s.zoom * PerPass \in Nat
        /\ ToGo(t) = s.lines * PerLine + 1
    BY <1>3, ToGoIs
  <2> QED BY <2>1
<1>4. CASE s.in = "lines"
  <2>1. CASE s.lines = 0
    BY <1>1, <1>4, <2>1, LinesEnd
  <2>2. CASE s.lines > 0
    <3>1. /\ DOMAIN t = RefFields /\ t.in = "zoom" /\ t.lines = s.lines - 1
          /\ t.zoom = s.zoom /\ t.bytes = s.bytes
      BY <1>1, <1>4, <2>2, LineBegins DEF Same
    <3>2. Counts(t)
      BY <1>1, <2>2, <3>1 DEF Counts
    <3> HIDE DEF t
    <3> DEFINE x == t.lines * PerLine
               y == t.zoom * PerPass
    <3>3. ToGo(t) = x + y + 2 /\ y + 2 <= PerLine /\ x \in Nat /\ y \in Nat
      BY <3>1, <3>2, ToGoIs
    <3>4. ToGo(s) = x + PerLine + 1
      <4>1. ToGo(s) = s.lines * PerLine + 1
        BY <1>4, ToGoIs
      <4>2. t.lines \in Nat /\ s.lines = t.lines + 1
        BY <1>1, <2>2, <3>1
      <4>3. (t.lines + 1) * PerLine = t.lines * PerLine + PerLine
        BY <1>2, <4>2
      <4> QED BY <4>1, <4>2, <4>3
    <3> HIDE DEF x, y
    <3>5. ToGo(t) + 1 <= ToGo(s)
      BY <1>2, <3>3, <3>4
    <3> QED BY <3>2, <3>5 DEF t
  <2> QED BY <1>1, <2>1, <2>2
<1>5. CASE s.in = "zoom"
  <2>1. CASE s.zoom = 0
    <3>1. /\ DOMAIN t = RefFields /\ t.in = "lines" /\ t.zoom = regs.line_zoom
          /\ t.lines = s.lines /\ t.bytes = s.bytes
      BY <1>1, <1>5, <2>1, LineEnds DEF Same
    <3>2. Counts(t)
      BY <1>1, <1>2, <3>1 DEF Counts
    <3> QED BY <1>3, <1>5, <3>1, <3>2
  <2>2. CASE s.zoom > 0
    <3>1. /\ DOMAIN t = RefFields /\ t.in = "bytes" /\ t.zoom = s.zoom - 1
          /\ t.lines = s.lines /\ t.bytes = s.bytes
      BY <1>1, <1>5, <2>2, PassBegins DEF Same
    <3>2. Counts(t)
      BY <1>1, <1>2, <2>2, <3>1 DEF Counts
    <3> HIDE DEF t
    <3> DEFINE x == s.lines * PerLine
               y == t.zoom * PerPass
               b == t.bytes
    <3>3. ToGo(t) = x + y + b + 3 /\ x \in Nat /\ y \in Nat /\ b \in Nat
      <4>1. ToGo(t) = t.lines * PerLine + t.zoom * PerPass + t.bytes + 3
            /\ t.lines * PerLine \in Nat /\ t.zoom * PerPass \in Nat /\ t.bytes \in Nat
        BY <3>1, <3>2, ToGoIs DEF Counts
      <4> QED BY <3>1, <4>1
    <3>4. ToGo(s) = x + (y + PerPass) + 2
      <4>1. ToGo(s) = s.lines * PerLine + s.zoom * PerPass + 2
        BY <1>5, ToGoIs
      <4>2. t.zoom \in Nat /\ s.zoom = t.zoom + 1
        BY <1>1, <2>2, <3>1
      <4>3. (t.zoom + 1) * PerPass = t.zoom * PerPass + PerPass
        BY <1>2, <4>2
      <4> QED BY <4>1, <4>2, <4>3
    <3>5. b + 2 <= PerPass
      BY <1>1, <1>2, <3>1 DEF PerPass
    <3> HIDE DEF x, y, b
    <3>6. ToGo(t) + 1 <= ToGo(s)
      BY <1>2, <3>3, <3>4, <3>5
    <3> QED BY <3>2, <3>6 DEF t
  <2> QED BY <1>1, <2>1, <2>2
<1>6. CASE s.in = "bytes"
  <2>1. CASE s.bytes = 0
    <3>1. /\ DOMAIN t = RefFields /\ t.in = "zoom" /\ t.bytes = regs.width
          /\ t.lines = s.lines /\ t.zoom = s.zoom
      BY <1>1, <1>6, <2>1, PassEnds DEF Same
    <3>2. Counts(t)
      BY <1>1, <1>2, <3>1 DEF Counts
    <3> HIDE DEF t
    <3>3. /\ ToGo(t) = s.lines * PerLine + s.zoom * PerPass + 2
          /\ ToGo(s) = s.lines * PerLine + s.zoom * PerPass + s.bytes + 3
          /\ s.lines * PerLine \in Nat /\ s.zoom * PerPass \in Nat
      <4>1. /\ ToGo(t) = t.lines * PerLine + t.zoom * PerPass + 2
            /\ ToGo(s) = s.lines * PerLine + s.zoom * PerPass + s.bytes + 3
            /\ s.lines * PerLine \in Nat /\ s.zoom * PerPass \in Nat
        BY <1>6, <3>1, <3>2, ToGoIs
      <4> QED BY <3>1, <4>1
    <3>4. ToGo(t) + 1 <= ToGo(s)
      BY <2>1, <3>3
    <3> QED BY <3>2, <3>4 DEF t
  <2>2. CASE s.bytes > 0
    <3> DEFINE len == MoveLen(s.bytes)
               bad == {j \in 0..(len - 1) : At(s.mem, IF IsFill(regs) THEN 0 ELSE j).fault # {}}
    <3>1. /\ DOMAIN t = RefFields /\ t.lines = s.lines /\ t.zoom = s.zoom
          /\ bad # {} => t.in = "out"
          /\ bad = {} => t.in = "bytes" /\ t.bytes = IF s.bytes >= len THEN s.bytes - len ELSE 0
      BY <1>1, <1>6, <2>2, MoveIs DEF Same
    <3>2. len \in Nat /\ len > 0
      <4>1. len \in 1..QW
        BY <1>1, <2>2, MoveLenIs
      <4> QED BY <4>1, Numbers
    <3> HIDE DEF t, len, bad
    <3>3. CASE t.in # "out"
      <4>1. t.in = "bytes" /\ t.bytes \in Nat /\ t.bytes + 1 <= s.bytes
        BY <1>1, <2>2, <3>1, <3>2, <3>3
      <4>2. Counts(t)
        BY <1>1, <1>2, <3>1, <4>1 DEF Counts
      <4>3. /\ ToGo(t) = s.lines * PerLine + s.zoom * PerPass + t.bytes + 3
            /\ ToGo(s) = s.lines * PerLine + s.zoom * PerPass + s.bytes + 3
            /\ s.lines * PerLine \in Nat /\ s.zoom * PerPass \in Nat
        <5>1. /\ ToGo(t) = t.lines * PerLine + t.zoom * PerPass + t.bytes + 3
              /\ ToGo(s) = s.lines * PerLine + s.zoom * PerPass + s.bytes + 3
              /\ s.lines * PerLine \in Nat /\ s.zoom * PerPass \in Nat
          BY <1>6, <4>1, <4>2, ToGoIs
        <5> QED BY <3>1, <5>1
      <4>4. ToGo(t) + 1 <= ToGo(s)
        BY <1>1, <4>1, <4>3
      <4> QED BY <4>2, <4>4 DEF t
    <3> QED BY <3>3 DEF t
  <2> QED BY <1>1, <2>1, <2>2
<1> QED BY <1>4, <1>5, <1>6 DEF Counts

LEMMA Terminates ==
    ASSUME NEW img, NEW r, Startable
    PROVE  Outcome(regs, regs.tlb, table, img, r, FUEL).in = "out"
<1>1. PICK f : /\ Outcome(regs, regs.tlb, table, img, r, FUEL) = f[FUEL]
               /\ Begins(f[0], img, r)
               /\ \A n \in 1..FUEL : f[n] = Round(f[n - 1])
  BY OutcomeSteps
<1>2. FUEL \in Nat /\ regs \in RegsType /\ Rounds(regs) <= FUEL
  BY PathAssumption DEF Startable
<1>3. f[0].in = "out" \/ (Counts(f[0]) /\ ToGo(f[0]) <= FUEL)
  <2>1. CASE ~Supported(regs)
    BY <1>1, <2>1 DEF Begins
  <2>2. CASE Supported(regs)
    <3>1. f[0].in = "lines" /\ f[0].lines = regs.lines
      BY <1>1, <2>2 DEF Begins
    <3>2. Counts(f[0])
      BY <1>1, <1>2, <3>1, Bounds DEF Begins, Counts, RegsType
    <3>3. ToGo(f[0]) = regs.lines * PerLine + 1
      BY <1>2, <3>1, <3>2, ToGoIs
    <3>4. Rounds(regs) = regs.lines * PerLine + 1
      BY DEF Rounds, PerLine, PerPass, MaxZoom, MaxBytes
    <3> QED BY <1>2, <3>2, <3>3, <3>4
  <2> QED BY <2>1, <2>2
<1> DEFINE T == {n \in Nat : n <= FUEL =>
                    f[n].in = "out" \/ (Counts(f[n]) /\ ToGo(f[n]) + n <= FUEL)}
<1>4. 0 \in T
  <2>1. Counts(f[0]) => ToGo(f[0]) \in Nat
    BY <1>2, ToGoIs
  <2> QED BY <1>2, <1>3, <2>1
<1>5. ASSUME NEW n \in T PROVE n + 1 \in T
  <2> SUFFICES ASSUME n + 1 <= FUEL
               PROVE  f[n + 1].in = "out"
                      \/ (Counts(f[n + 1]) /\ ToGo(f[n + 1]) + (n + 1) <= FUEL)
    OBVIOUS
  <2>1. n \in Nat /\ n + 1 \in 1..FUEL /\ n <= FUEL /\ (n + 1) - 1 = n
    BY <1>2
  <2>2. f[n + 1] = Round(f[n])
    BY <1>1, <2>1
  <2>3. f[n].in = "out" \/ (Counts(f[n]) /\ ToGo(f[n]) + n <= FUEL)
    BY <2>1
  <2>4. CASE f[n].in = "out"
    BY <2>2, <2>4, OutStays
  <2>5. CASE Counts(f[n]) /\ ToGo(f[n]) + n <= FUEL
    <3>1. f[n + 1].in = "out" \/ (Counts(f[n + 1]) /\ ToGo(f[n + 1]) + 1 <= ToGo(f[n]))
      BY <1>2, <2>2, <2>5, Closer
    <3>2. ToGo(f[n]) \in Nat
      BY <1>2, <2>5, ToGoIs
    <3>3. Counts(f[n + 1]) => ToGo(f[n + 1]) \in Nat
      BY <1>2, ToGoIs
    <3> QED BY <1>2, <2>1, <2>5, <3>1, <3>2, <3>3
  <2> QED BY <2>3, <2>4, <2>5
<1>6. T = Nat
  <2> HIDE DEF T
  <2>1. T \in SUBSET Nat
    BY DEF T
  <2> QED BY <1>4, <1>5, <2>1, NatSet
<1>7. f[FUEL].in = "out" \/ (Counts(f[FUEL]) /\ ToGo(f[FUEL]) + FUEL <= FUEL)
  BY <1>2, <1>6
<1>8. Counts(f[FUEL]) => ToGo(f[FUEL]) \in Nat /\ ToGo(f[FUEL]) > 0
  BY <1>2, ToGoIs
<1> QED BY <1>1, <1>2, <1>7, <1>8

-----------------------------------------------------------------------------
(* What the reference does between two beats.                              *)

\* The end of a pass of a line.
LEMMA NextPass ==
    ASSUME NEW s, DOMAIN s = RefFields, Leads(s), want.in = "out", s.in = "bytes", s.bytes = 0,
           s.zoom \in Nat, s.zoom > 0
    PROVE  \E t : /\ DOMAIN t = RefFields /\ Leads(t) /\ t.in = "bytes"
                  /\ t.lines = s.lines /\ t.zoom = s.zoom - 1 /\ t.bytes = regs.width
                  /\ t.mem = (IF regs.up THEN s.mem - regs.width ELSE s.mem + regs.width) % ASIZE
                  /\ Same(t, s, Data)
<1> DEFINE t1 == Round(s)
           t2 == Round(t1)
           mem == (IF regs.up THEN s.mem - regs.width ELSE s.mem + regs.width) % ASIZE
<1>1. /\ DOMAIN t1 = RefFields /\ t1.in = "zoom" /\ t1.bytes = regs.width
      /\ t1.mem = mem /\ t1.lines = s.lines /\ t1.zoom = s.zoom /\ Same(t1, s, Data)
  BY PassEnds DEF Same, Data
<1>2. Leads(t1)
  BY OneRound
<1> HIDE DEF t1, mem
<1>3. /\ DOMAIN t2 = RefFields /\ t2.in = "bytes" /\ t2.zoom = s.zoom - 1
      /\ t2.lines = s.lines /\ t2.bytes = regs.width /\ t2.mem = mem /\ Same(t2, s, Data)
  BY <1>1, PassBegins DEF Same, Data
<1>4. Leads(t2)
  BY <1>1, <1>2, OneRound
<1> QED BY <1>3, <1>4 DEF mem

\* The end of the last line.
LEMMA LastLine ==
    ASSUME NEW s, DOMAIN s = RefFields, Leads(s), want.in = "out", s.in = "bytes", s.bytes = 0,
           s.zoom = 0, s.lines = 0
    PROVE  want.mem = (s.mem + regs.stride) % ASIZE /\ Same(want, s, Data)
<1> DEFINE t1 == Round(s)
           t2 == Round(t1)
           t3 == Round(t2)
           mem == (s.mem + regs.stride) % ASIZE
<1>1. /\ DOMAIN t1 = RefFields /\ t1.in = "zoom"
      /\ t1.mem = s.mem /\ t1.lines = 0 /\ t1.zoom = 0 /\ Same(t1, s, Data)
  BY PassEnds DEF Same, Data
<1>2. Leads(t1)
  BY OneRound
<1> HIDE DEF t1
<1>3. DOMAIN t2 = RefFields /\ t2.in = "lines" /\ t2.lines = 0 /\ t2.mem = mem /\ Same(t2, s, Data)
  BY <1>1, LineEnds DEF Same, Data
<1>4. Leads(t2)
  BY <1>1, <1>2, OneRound
<1> HIDE DEF t2, mem
<1>5. t3.in = "out" /\ t3.mem = mem /\ Same(t3, s, Data)
  BY <1>3, LinesEnd DEF Same, Data, RefFields
<1>6. Leads(t3)
  BY <1>3, <1>4, OneRound
<1>7. want = t3
  BY <1>5, <1>6, AtTheEnd
<1> QED BY <1>5, <1>7 DEF mem

\* The end of a line with others to come.
LEMMA NextLine ==
    ASSUME NEW s, DOMAIN s = RefFields, Leads(s), want.in = "out", s.in = "bytes", s.bytes = 0,
           s.zoom = 0, s.lines \in Nat, s.lines > 0, regs.line_zoom \in Nat, regs.line_zoom > 0
    PROVE  \E t : /\ DOMAIN t = RefFields /\ Leads(t) /\ t.in = "bytes"
                  /\ t.lines = s.lines - 1 /\ t.zoom = regs.line_zoom - 1
                  /\ t.bytes = regs.width /\ t.mem = (s.mem + regs.stride) % ASIZE
                  /\ Same(t, s, Data)
<1> DEFINE t1 == Round(s)
           t2 == Round(t1)
           t3 == Round(t2)
           t4 == Round(t3)
           mem == (s.mem + regs.stride) % ASIZE
<1>1. /\ DOMAIN t1 = RefFields /\ t1.in = "zoom" /\ t1.bytes = regs.width
      /\ t1.mem = s.mem /\ t1.lines = s.lines /\ t1.zoom = 0 /\ Same(t1, s, Data)
  BY PassEnds DEF Same, Data
<1>2. Leads(t1)
  BY OneRound
<1> HIDE DEF t1
<1>3. /\ DOMAIN t2 = RefFields /\ t2.in = "lines" /\ t2.lines = s.lines
      /\ t2.zoom = regs.line_zoom /\ t2.bytes = regs.width /\ t2.mem = mem /\ Same(t2, s, Data)
  BY <1>1, LineEnds DEF Same, Data
<1>4. Leads(t2)
  BY <1>1, <1>2, OneRound
<1> HIDE DEF t2, mem
<1>5. /\ DOMAIN t3 = RefFields /\ t3.in = "zoom" /\ t3.lines = s.lines - 1
      /\ t3.zoom = regs.line_zoom /\ t3.bytes = regs.width /\ t3.mem = mem /\ Same(t3, s, Data)
  BY <1>3, LineBegins DEF Same, Data
<1>6. Leads(t3)
  BY <1>3, <1>4, OneRound
<1> HIDE DEF t3
<1>7. /\ DOMAIN t4 = RefFields /\ t4.in = "bytes" /\ t4.zoom = regs.line_zoom - 1
      /\ t4.lines = s.lines - 1 /\ t4.bytes = regs.width /\ t4.mem = mem /\ Same(t4, s, Data)
  BY <1>5, PassBegins DEF Same, Data
<1>8. Leads(t4)
  BY <1>5, <1>6, OneRound
<1> QED BY <1>7, <1>8 DEF mem

\* The start of the first line, and a transfer of none.
LEMMA FirstLine ==
    ASSUME NEW s, NEW img, NEW r, Begins(s, img, r), Leads(s), want.in = "out", Supported(regs),
           regs.lines \in Nat, regs.lines > 0, regs.zoom \in Nat, regs.zoom > 0
    PROVE  \E t : /\ DOMAIN t = RefFields /\ Leads(t) /\ t.in = "bytes"
                  /\ t.lines = regs.lines - 1 /\ t.zoom = regs.zoom - 1
                  /\ t.bytes = regs.bytes /\ t.mem = regs.memadr
                  /\ Same(t, s, Data)
<1> DEFINE t1 == Round(s)
           t2 == Round(t1)
<1>1. DOMAIN s = RefFields /\ s.in = "lines" /\ s.lines = regs.lines /\ s.zoom = regs.zoom
      /\ s.bytes = regs.bytes /\ s.mem = regs.memadr
  BY DEF Begins
<1>2. /\ DOMAIN t1 = RefFields /\ t1.in = "zoom" /\ t1.lines = regs.lines - 1
      /\ t1.zoom = regs.zoom /\ t1.bytes = regs.bytes /\ t1.mem = regs.memadr /\ Same(t1, s, Data)
  BY <1>1, LineBegins DEF Same, Data
<1>3. Leads(t1)
  BY <1>1, OneRound
<1> HIDE DEF t1
<1>4. /\ DOMAIN t2 = RefFields /\ t2.in = "bytes" /\ t2.lines = regs.lines - 1
      /\ t2.zoom = regs.zoom - 1 /\ t2.bytes = regs.bytes /\ t2.mem = regs.memadr
      /\ Same(t2, s, Data)
  BY <1>2, PassBegins DEF Same, Data
<1>5. Leads(t2)
  BY <1>2, <1>3, OneRound
<1> QED BY <1>4, <1>5

LEMMA NoLines ==
    ASSUME NEW s, NEW img, NEW r, Begins(s, img, r), Leads(s), want.in = "out",
           ~Supported(regs) \/ regs.lines = 0
    PROVE  want.image = img /\ want.beats = <<>> /\ want.reads = r /\ want.fault = {}
           /\ want.mem = regs.memadr
<1>1. CASE ~Supported(regs)
  BY <1>1, AtTheEnd DEF Begins
<1>2. CASE Supported(regs) /\ regs.lines = 0
  <2> DEFINE t == Round(s)
  <2>1. DOMAIN s = RefFields /\ s.in = "lines" /\ s.lines = 0
    BY <1>2 DEF Begins
  <2>2. t.in = "out" /\ Same(t, s, RefFields \ {"in"})
    BY <2>1, LinesEnd
  <2>3. want = t
    BY <2>1, <2>2, OneRound, AtTheEnd
  <2> QED BY <2>2, <2>3 DEF Begins, Same, RefFields
<1> QED BY <1>1, <1>2

-----------------------------------------------------------------------------
(* The bytes of a beat, in the one or two doublewords they are in.         *)

Translates(m, n) == \A j \in 0..(n - 1) : At(m, j).fault = {}

LEMMA Unmoved == ASSUME NEW m \in Addresses PROVE (m + 0) % ASIZE = m
<1>1. m \in Nat /\ m < ASIZE
  BY Numbers DEF Addresses
<1>2. (ASIZE * 0 + m) % ASIZE = m /\ ASIZE * 0 + m = m
  BY <1>1, Quotient, Numbers
<1> QED BY <1>1, <1>2

LEMMA AtFirst == ASSUME NEW m \in Addresses PROVE At(m, 0) = Tr(m)
  BY Unmoved DEF At

LEMMA FirstHalf ==
    ASSUME NEW m \in Addresses, NEW j \in Nat, (m % QW) + j < QW, TablesOk
    PROVE  /\ At(m, j).fault = Tr(m).fault
           /\ Tr(m).fault = {} => /\ At(m, j).phys \in Addresses
                                  /\ At(m, j).phys \div QW = Tr(m).phys \div QW
                                  /\ At(m, j).phys % QW = (m % QW) + j
<1> DEFINE a == (m + j) % ASIZE
<1>1. a \in Addresses /\ a \div QW = m \div QW /\ a % QW = (m % QW) + j
  BY ThisDword
<1>2. At(m, j) = Tr(a)
  BY DEF At
<1> HIDE DEF a
<1>3. Tr(m).fault = Tr(a).fault /\ (Tr(m).fault = {} => Tr(m).phys \div QW = Tr(a).phys \div QW)
  BY <1>1, DwordTranslation
<1>4. Tr(a).fault = {} => Tr(a).phys \in Addresses /\ Tr(a).phys % QW = a % QW
  BY <1>1, PhysIs
<1> QED BY <1>1, <1>2, <1>3, <1>4

LEMMA SecondHalf ==
    ASSUME NEW m \in Addresses, NEW j \in Nat, j < QW, (m % QW) + j >= QW, TablesOk
    PROVE  LET m2 == Eng!NextQword(m)
           IN  /\ m2 \in Addresses
               /\ At(m, j).fault = Tr(m2).fault
               /\ Tr(m2).fault = {} => /\ At(m, j).phys \in Addresses
                                       /\ At(m, j).phys \div QW = Tr(m2).phys \div QW
                                       /\ At(m, j).phys % QW = (m % QW) + j - QW
<1> DEFINE a == (m + j) % ASIZE
           m2 == Eng!NextQword(m)
<1>1. m2 \in Addresses /\ a \in Addresses /\ a \div QW = m2 \div QW /\ a % QW = (m % QW) + j - QW
  BY NextDword
<1>2. At(m, j) = Tr(a)
  BY DEF At
<1> HIDE DEF a, m2
<1>3. Tr(m2).fault = Tr(a).fault /\ (Tr(m2).fault = {} => Tr(m2).phys \div QW = Tr(a).phys \div QW)
  BY <1>1, DwordTranslation
<1>4. Tr(a).fault = {} => Tr(a).phys \in Addresses /\ Tr(a).phys % QW = a % QW
  BY <1>1, PhysIs
<1> QED BY <1>1, <1>2, <1>3, <1>4 DEF m2

\* A byte's lane, by which two bytes of a beat are told apart.
LEMMA Lanes ==
    ASSUME NEW m \in Addresses, NEW j \in 0..(QW - 1), TablesOk, At(m, j).fault = {}
    PROVE  /\ At(m, j).phys \in Addresses
           /\ At(m, j).phys % QW = IF (m % QW) + j < QW THEN (m % QW) + j ELSE (m % QW) + j - QW
<1>1. j \in Nat /\ j < QW /\ m % QW \in Nat
  <2>1. m \in Nat /\ m % QW \in 0..(QW - 1)
    BY Division, Numbers DEF Addresses
  <2> QED BY <2>1, Numbers
<1>2. CASE (m % QW) + j < QW
  BY <1>1, <1>2, FirstHalf
<1>3. CASE ~((m % QW) + j < QW)
  <2>1. (m % QW) + j >= QW
    BY <1>1, <1>3, Numbers
  <2> QED BY <1>1, <1>3, <2>1, SecondHalf
<1> QED BY <1>2, <1>3

LEMMA Apart ==
    ASSUME NEW m \in Addresses, NEW j \in 0..(QW - 1), NEW k \in 0..(QW - 1), j # k, TablesOk,
           At(m, j).fault = {}, At(m, k).fault = {}
    PROVE  At(m, j).phys # At(m, k).phys
<1> DEFINE l == m % QW
           x == At(m, j).phys % QW
           y == At(m, k).phys % QW
<1>1. x = IF l + j < QW THEN l + j ELSE l + j - QW
  BY Lanes
<1>2. y = IF l + k < QW THEN l + k ELSE l + k - QW
  BY Lanes
<1>3. l \in 0..(QW - 1)
  BY Division, Numbers DEF Addresses
<1>4. x # y
  <2> HIDE DEF l, x, y
  <2> QED BY <1>1, <1>2, <1>3, Numbers
<1> QED BY <1>4

LEMMA SamePlace ==
    ASSUME NEW a \in Addresses, NEW b \in Addresses, a \div QW = b \div QW, a % QW = b % QW
    PROVE  a = b
<1>1. a \in Nat /\ b \in Nat
  BY Numbers DEF Addresses
<1>2. a = QW * (a \div QW) + (a % QW) /\ b = QW * (b \div QW) + (b % QW)
  BY <1>1, Division, Numbers
<1> QED BY <1>2

\* Memory with the first n bytes of the beat at m in their places.
Lays(new, old, n, m, r) ==
    /\ new = [a \in Addresses |-> new[a]]
    /\ \A j \in 0..(n - 1) : new[At(m, j).phys] = Byte(r, j)
    /\ \A a \in Addresses : (\A j \in 0..(n - 1) : At(m, j).phys # a) => new[a] = old[a]

LEMMA OneLay ==
    ASSUME NEW img1, NEW img2, NEW old, NEW n, NEW m, NEW r,
           Lays(img1, old, n, m, r), Lays(img2, old, n, m, r)
    PROVE  img1 = img2
<1>1. \A a \in Addresses : img1[a] = img2[a]
  BY DEF Lays
<1>2. img1 = [a \in Addresses |-> img1[a]] /\ img2 = [a \in Addresses |-> img2[a]]
  BY DEF Lays
<1> QED BY <1>1, <1>2

LEMMA LaidLays ==
    ASSUME NEW m \in Addresses, NEW n \in 0..QW, NEW img, NEW r, TablesOk, Translates(m, n),
           \A j \in 0..(n - 1) : Place(m, j) = At(m, j).phys
    PROVE  Lays(Laid(img, n, m, r), img, n, m, r)
<1> DEFINE new == Laid(img, n, m, r)
<1>1. \A a \in Addresses :
         new[a] = IF \E j \in 0..(n - 1) : Place(m, j) = a
                  THEN Byte(r, CHOOSE j \in 0..(n - 1) : Place(m, j) = a)
                  ELSE img[a]
  BY DEF Laid
<1>2. new = [a \in Addresses |-> new[a]]
  BY DEF Laid
<1> HIDE DEF new
<1>3. ASSUME NEW j \in 0..(n - 1)
      PROVE  new[At(m, j).phys] = Byte(r, j)
  <2> DEFINE a == At(m, j).phys
             c == CHOOSE i \in 0..(n - 1) : Place(m, i) = a
  <2>1. j \in 0..(QW - 1) /\ At(m, j).fault = {}
    BY Numbers DEF Translates
  <2>2. a \in Addresses
    BY <2>1, Lanes
  <2>3. Place(m, j) = a
    OBVIOUS
  <2>4. c \in 0..(n - 1) /\ Place(m, c) = a
    <3> HIDE DEF a
    <3> QED BY <2>3
  <2> HIDE DEF c
  <2>5. c = j
    <3>1. At(m, c).phys = a /\ At(m, c).fault = {} /\ c \in 0..(QW - 1)
      BY <2>4, Numbers DEF Translates
    <3> QED BY <2>1, <3>1, Apart
  <2>6. new[a] = Byte(r, c)
    <3> HIDE DEF a
    <3> QED BY <1>1, <2>2, <2>3 DEF c
  <2> QED BY <2>5, <2>6
<1>4. ASSUME NEW a \in Addresses, \A j \in 0..(n - 1) : At(m, j).phys # a
      PROVE  new[a] = img[a]
  BY <1>1, <1>4
<1> QED BY <1>2, <1>3, <1>4 DEF Lays, new

\* A word of a fill is in one doubleword, or is not translated.
LEMMA FillPlace ==
    ASSUME NEW m \in Addresses, NEW j \in 0..(Word - 1), TablesOk, IsFill(regs),
           regs.xlate => m % Word = 0
    PROVE  /\ At(m, j).fault = Tr(m).fault
           /\ Tr(m).fault = {} => Place(m, j) = At(m, j).phys
<1>1. At(m, 0) = Tr(m)
  BY AtFirst
<1>2. Place(m, j) = (Tr(m).phys + j) % ASIZE
  BY <1>1 DEF Place
<1>3. CASE ~regs.xlate
  <2>1. Tr(m) = [phys |-> m, fault |-> {}]
    BY <1>3, Untranslated
  <2>2. At(m, j) = [phys |-> (m + j) % ASIZE, fault |-> {}]
    BY <1>3, Untranslated DEF At
  <2> QED BY <1>2, <2>1, <2>2
<1>4. CASE regs.xlate
  <2> DEFINE p == Tr(m).phys
             l == m % QW
  <2>0. m \in Nat /\ l \in 0..(QW - 1) /\ m % Word = 0
    BY <1>4, Division, Numbers DEF Addresses
  <2>1. l + j < QW
    <3>1. Splits(m, Word, 2, QW)
      <4>1. QW = Word * 2 /\ 2 \in Nat \ {0}
        BY Numbers
      <4> QED BY <2>0, <4>1, Nested, Numbers
    <3>2. l % Word = 0 /\ l \div Word = (m \div Word) % 2
      BY <2>0, <3>1 DEF Splits
    <3>3. m \div Word \in Nat
      BY <2>0, Division, Numbers
    <3>4. (m \div Word) % 2 \in 0..1
      <4> DEFINE q == m \div Word
      <4>1. q \in Nat
        BY <3>3
      <4> HIDE DEF q
      <4>2. q % 2 \in 0..1
        BY <4>1
      <4> QED BY <4>2 DEF q
    <3>5. l = Word * (l \div Word) + (l % Word)
      <4>1. l \in Nat
        BY <2>0, Numbers
      <4> HIDE DEF l
      <4> QED BY <4>1, Division, Numbers
    <3>6. Word * 0 = 0 /\ Word * 1 = Word
      BY Numbers
    <3>7. l = 0 \/ l = Word
      <4>1. l \div Word = 0 \/ l \div Word = 1
        BY <3>2, <3>4
      <4> HIDE DEF l
      <4> QED BY <3>2, <3>5, <3>6, <4>1, Numbers
    <3> HIDE DEF l
    <3> QED BY <3>7, Numbers
  <2>2. j \in Nat
    BY Numbers
  <2>3. /\ At(m, j).fault = Tr(m).fault
        /\ Tr(m).fault = {} => /\ At(m, j).phys \in Addresses
                               /\ At(m, j).phys \div QW = p \div QW
                               /\ At(m, j).phys % QW = l + j
    BY <2>1, <2>2, FirstHalf
  <2>4. Tr(m).fault = {} => p \in Addresses /\ p % QW = l
    BY PhysIs
  <2>5. ASSUME Tr(m).fault = {} PROVE (p + j) % ASIZE = At(m, j).phys
    <3> HIDE DEF p, l
    <3>1. /\ (p + j) % ASIZE = p + j /\ p + j \in Addresses
          /\ (p + j) \div QW = p \div QW /\ (p + j) % QW = l + j
      BY <2>1, <2>2, <2>4, <2>5, ThisDword
    <3> QED BY <2>3, <2>5, <3>1, SamePlace
  <2> QED BY <1>2, <2>3, <2>5
<1> QED BY <1>3, <1>4

-----------------------------------------------------------------------------
(* What the reference does with a beat.                                    *)

Whole(m) == IsFill(regs) /\ regs.xlate => m % Word = 0

\* A beat is to move, with its bytes in memory and outside as they are.
AtBeat(s) ==
    /\ DOMAIN s = RefFields /\ Leads(s) /\ want.in = "out" /\ s.in = "bytes"
    /\ s.bytes \in Nat /\ s.bytes > 0 /\ s.mem \in Addresses
    /\ s.image = [a \in Addresses |-> s.image[a]]
    /\ TablesOk /\ Whole(s.mem)

\* It has moved len bytes.
Moved(t, s, len) ==
    /\ DOMAIN t = RefFields /\ Leads(t) /\ t.in = "bytes"
    /\ t.lines = s.lines /\ t.zoom = s.zoom /\ t.fault = s.fault
    /\ t.bytes = (IF s.bytes >= len THEN s.bytes - len ELSE 0)
    /\ t.mem = (s.mem + (IF IsFill(regs) /\ ~regs.up THEN -len ELSE len)) % ASIZE
    /\ t.reads = (IF IsG2M(regs) THEN s.reads + 1 ELSE s.reads)
    /\ regs.to_host => Lays(t.image, s.image, len, s.mem, s.reads)
    /\ ~regs.to_host => t.image = s.image
    /\ t.beats = (IF IsM2G(regs) THEN Append(s.beats, Packed(s.image, len, s.mem)) ELSE s.beats)

LEMMA MoveDone ==
    ASSUME NEW s, AtBeat(s), Translates(s.mem, MoveLen(s.bytes))
    PROVE  \E t : Moved(t, s, MoveLen(s.bytes))
<1> DEFINE t == Round(s)
           m == s.mem
           len == MoveLen(s.bytes)
           bad == {j \in 0..(len - 1) : At(m, IF IsFill(regs) THEN 0 ELSE j).fault # {}}
           got == IF bad = {} THEN len ELSE Min(bad)
<1>1. /\ DOMAIN t = RefFields
      /\ Same(t, s, {"lines", "zoom"})
      /\ t.image = IF regs.to_host THEN Laid(s.image, got, m, s.reads) ELSE s.image
      /\ t.reads = IF IsG2M(regs) THEN s.reads + 1 ELSE s.reads
      /\ bad = {} =>
             /\ t.in = "bytes" /\ t.fault = s.fault
             /\ t.bytes = IF s.bytes >= len THEN s.bytes - len ELSE 0
             /\ t.mem = (m + (IF IsFill(regs) /\ ~regs.up THEN -len ELSE len)) % ASIZE
             /\ t.beats = IF IsM2G(regs) THEN Append(s.beats, Packed(s.image, len, m))
                          ELSE s.beats
  BY MoveIs DEF AtBeat
<1>2. len \in 1..QW /\ (IsFill(regs) => len = Word)
  BY MoveLenIs DEF AtBeat
<1>3. Leads(t)
  BY OneRound DEF AtBeat
<1> HIDE DEF t, len
<1>4. bad = {}
  <2>1. 0 \in 0..(len - 1)
    BY <1>2, Numbers
  <2>2. \A j \in 0..(len - 1) : At(m, j).fault = {}
    BY DEF Translates, len
  <2> QED BY <2>1, <2>2
<1>5. got = len
  BY <1>4
<1>6. regs.to_host => Lays(t.image, s.image, len, m, s.reads)
  <2>1. m \in Addresses /\ TablesOk /\ len \in 0..QW
    BY <1>2, Numbers DEF AtBeat
  <2>2. Translates(m, len)
    BY DEF len
  <2>3. ASSUME NEW j \in 0..(len - 1) PROVE Place(m, j) = At(m, j).phys
    <3>1. CASE ~IsFill(regs)
      BY <3>1 DEF Place
    <3>2. CASE IsFill(regs)
      <4>1. j \in 0..(Word - 1)
        BY <1>2, <3>2
      <4>2. At(m, j).fault = {}
        BY <2>2 DEF Translates
      <4> QED BY <2>1, <3>2, <4>1, <4>2, FillPlace DEF AtBeat, Whole
    <3> QED BY <3>1, <3>2
  <2>4. Lays(Laid(s.image, len, m, s.reads), s.image, len, m, s.reads)
    BY <2>1, <2>2, <2>3, LaidLays
  <2> HIDE DEF got
  <2> QED BY <1>1, <1>5, <2>4
<1>7. ~regs.to_host => t.image = s.image
  BY <1>1
<1>8. Moved(t, s, len)
  <2> HIDE DEF got
  <2> QED BY <1>1, <1>3, <1>4, <1>6, <1>7 DEF Moved, Same, m
<1> QED BY <1>8 DEF len

\* Its byte k, or the address of a fill, is nowhere.
LEMMA MoveFaults ==
    ASSUME NEW s, AtBeat(s), NEW k \in 0..(MoveLen(s.bytes) - 1),
           Translates(s.mem, k), At(s.mem, k).fault # {}, IsFill(regs) => k = 0
    PROVE  /\ want.fault = At(s.mem, k).fault /\ want.mem = (s.mem + k) % ASIZE
           /\ want.beats = s.beats
           /\ want.reads = (IF IsG2M(regs) THEN s.reads + 1 ELSE s.reads)
           /\ regs.to_host => Lays(want.image, s.image, k, s.mem, s.reads)
           /\ ~regs.to_host => want.image = s.image
<1> DEFINE t == Round(s)
           m == s.mem
           len == MoveLen(s.bytes)
           bad == {j \in 0..(len - 1) : At(m, IF IsFill(regs) THEN 0 ELSE j).fault # {}}
           got == IF bad = {} THEN len ELSE Min(bad)
<1>1. /\ DOMAIN t = RefFields
      /\ t.image = IF regs.to_host THEN Laid(s.image, got, m, s.reads) ELSE s.image
      /\ t.reads = IF IsG2M(regs) THEN s.reads + 1 ELSE s.reads
      /\ bad # {} => /\ t.in = "out" /\ t.beats = s.beats
                     /\ t.fault = At(m, IF IsFill(regs) THEN 0 ELSE got).fault
                     /\ t.mem = (m + (IF IsFill(regs) THEN 0 ELSE got)) % ASIZE
  BY MoveIs DEF AtBeat
<1>2. len \in 1..QW
  BY MoveLenIs DEF AtBeat
<1>3. Leads(t)
  BY OneRound DEF AtBeat
<1>4. k \in Nat /\ k \in 0..(len - 1)
  BY DEF len
<1> HIDE DEF t, len
<1>5. k \in bad
  BY <1>4
<1>6. Min(bad) = k
  <2>1. bad \in SUBSET Nat /\ bad # {}
    <3>1. \A j \in 0..(len - 1) : j \in Nat
      BY <1>2, Numbers
    <3> QED BY <1>5, <3>1
  <2>2. Min(bad) \in bad /\ Min(bad) <= k
    <3> HIDE DEF bad
    <3> QED BY <1>5, <2>1, MinIs
  <2>3. CASE IsFill(regs)
    BY <2>1, <2>2, <2>3
  <2>4. CASE ~IsFill(regs)
    <3>1. \A j \in bad : ~(j < k)
      <4>1. \A j \in bad : j \in Nat /\ At(m, j).fault # {}
        BY <2>4
      <4>2. \A j \in 0..(k - 1) : At(m, j).fault = {}
        BY DEF Translates
      <4> HIDE DEF bad
      <4> QED BY <1>4, <4>1, <4>2
    <3>2. Min(bad) \in Nat /\ Min(bad) <= k /\ ~(Min(bad) < k)
      <4> HIDE DEF bad
      <4> QED BY <2>1, <2>2, <3>1
    <3> QED BY <1>4, <3>2
  <2> QED BY <2>3, <2>4
<1>7. got = k /\ bad # {}
  BY <1>5, <1>6
<1> HIDE DEF bad, got
<1>8. t.in = "out" /\ t.fault = At(m, k).fault /\ t.mem = (m + k) % ASIZE
  BY <1>1, <1>7
<1>9. want = t
  BY <1>3, <1>8, AtTheEnd
<1>10. regs.to_host => Lays(t.image, s.image, k, m, s.reads)
  <2>1. m \in Addresses /\ TablesOk /\ k \in 0..QW
    BY <1>2, <1>4, Numbers DEF AtBeat
  <2>2. \A j \in 0..(k - 1) : Place(m, j) = At(m, j).phys
    <3>1. CASE IsFill(regs)
      BY <3>1
    <3>2. CASE ~IsFill(regs)
      BY <3>2 DEF Place
    <3> QED BY <3>1, <3>2
  <2>3. Lays(Laid(s.image, k, m, s.reads), s.image, k, m, s.reads)
    BY <2>1, <2>2, LaidLays
  <2> QED BY <1>1, <1>7, <2>3
<1> QED BY <1>1, <1>7, <1>8, <1>9, <1>10

\* Two words of a fill, where the engine moves a doubleword.
LEMMA FillDone ==
    ASSUME NEW s, AtBeat(s), IsFill(regs), regs.up, s.mem % QW = 0, s.bytes >= QW,
           Translates(s.mem, QW)
    PROVE  \E t : Moved(t, s, QW)
<1> DEFINE m == s.mem
           m2 == (m + Word) % ASIZE
<1>1. m \in Addresses /\ TablesOk /\ m % QW = 0 /\ MoveLen(s.bytes) = Word
  BY DEF AtBeat, MoveLen
<1>2. Word \in Nat /\ Word > 0 /\ QW = Word + Word /\ Word < QW
  BY Numbers
<1>3. /\ m2 = m + Word /\ m2 \in Addresses /\ m \in Nat
      /\ m2 % QW = Word
  <2>1. (m % QW) + Word < QW
    BY <1>1, <1>2
  <2> QED BY <1>1, <1>2, <2>1, ThisDword, Numbers DEF Addresses
<1>4. m2 % Word = 0
  <2>1. Splits(m2, Word, 2, QW)
    <3>1. m2 \in Nat /\ QW = Word * 2 /\ 2 \in Nat \ {0} /\ Word \in Nat \ {0}
      BY <1>3, Numbers DEF Addresses
    <3> HIDE DEF m2
    <3> QED BY <3>1, Nested
  <2>2. (m2 % QW) % Word = m2 % Word
    BY <2>1 DEF Splits
  <2>3. (Word * 1 + 0) % Word = 0 /\ Word * 1 + 0 = Word
    BY Quotient, Numbers
  <2> QED BY <1>3, <2>2, <2>3
<1>5. \A j \in Nat : At(m2, j) = At(m, Word + j)
  <2>1. \A j \in Nat : m2 + j = m + (Word + j)
    <3> HIDE DEF m
    <3> QED BY <1>2, <1>3
  <2> QED BY <2>1 DEF At
<1> HIDE DEF m2
<1>6. Translates(m, Word)
  BY <1>2 DEF Translates
<1>7. PICK t1 : Moved(t1, s, Word)
  BY <1>1, <1>6, MoveDone
<1>8. /\ s.bytes \in Nat /\ t1.bytes = s.bytes - Word /\ t1.mem = m2
      /\ t1.reads = s.reads /\ t1.beats = s.beats /\ regs.to_host
      /\ Lays(t1.image, s.image, Word, m, s.reads)
  <2>1. ~IsM2G(regs) /\ ~IsG2M(regs) /\ regs.to_host
    BY DEF IsFill, IsM2G, IsG2M
  <2>2. s.bytes \in Nat /\ s.bytes >= Word
    BY <1>2 DEF AtBeat
  <2> QED BY <1>7, <2>1, <2>2 DEF Moved, m2
<1>9. AtBeat(t1)
  <2>1. t1.bytes \in Nat /\ t1.bytes > 0
    BY <1>2, <1>8
  <2>2. t1.image = [a \in Addresses |-> t1.image[a]]
    BY <1>8 DEF Lays
  <2>3. DOMAIN t1 = RefFields /\ Leads(t1) /\ t1.in = "bytes"
    BY <1>7 DEF Moved
  <2> QED BY <1>3, <1>4, <1>8, <2>1, <2>2, <2>3 DEF AtBeat, Whole
<1>10. Translates(t1.mem, MoveLen(t1.bytes))
  <2>1. MoveLen(t1.bytes) = Word
    BY DEF MoveLen
  <2>2. ASSUME NEW j \in 0..(Word - 1) PROVE At(m2, j).fault = {}
    <3>1. j \in Nat /\ Word + j \in 0..(QW - 1)
      BY <1>2
    <3> QED BY <1>5, <3>1 DEF Translates
  <2> QED BY <1>8, <2>1, <2>2 DEF Translates
<1>11. PICK t : Moved(t, t1, Word)
  <2>1. MoveLen(t1.bytes) = Word
    BY DEF MoveLen
  <2> QED BY <1>9, <1>10, <2>1, MoveDone
<1>12. Lays(t.image, s.image, QW, m, s.reads)
  <2>1. Lays(t.image, t1.image, Word, m2, s.reads)
    BY <1>8, <1>11 DEF Moved
  <2>2. t.image = [a \in Addresses |-> t.image[a]]
    BY <2>1 DEF Lays
  <2>3. \A j \in 0..(Word - 1) : At(m2, j).phys = At(m, Word + j).phys /\ Word + j \in 0..(QW - 1)
    BY <1>2, <1>5
  <2>4. ASSUME NEW j \in 0..(QW - 1)
        PROVE  t.image[At(m, j).phys] = Byte(s.reads, j)
    <3>1. At(m, j).fault = {}
      BY DEF Translates
    <3>2. CASE j < Word
      <4>1. j \in 0..(Word - 1)
        BY <1>2, <3>2
      <4>2. At(m, j).phys \in Addresses
        BY <1>1, <3>1, Lanes
      <4>3. ASSUME NEW i \in 0..(Word - 1) PROVE At(m2, i).phys # At(m, j).phys
        <5>1. Word + i \in 0..(QW - 1) /\ Word + i # j /\ At(m, Word + i).fault = {}
          BY <1>2, <3>2 DEF Translates
        <5>2. At(m, Word + i).phys # At(m, j).phys
          BY <1>1, <3>1, <5>1, Apart
        <5> QED BY <2>3, <5>2
      <4>4. t.image[At(m, j).phys] = t1.image[At(m, j).phys]
        BY <2>1, <4>2, <4>3 DEF Lays
      <4>5. t1.image[At(m, j).phys] = Byte(s.reads, j)
        BY <1>8, <4>1 DEF Lays
      <4> QED BY <4>4, <4>5
    <3>3. CASE ~(j < Word)
      <4> DEFINE i == j - Word
      <4>1. i \in 0..(Word - 1) /\ j = Word + i /\ i \in Nat /\ i < Word
        BY <1>2, <3>3
      <4> HIDE DEF i
      <4>2. t.image[At(m2, i).phys] = Byte(s.reads, i)
        BY <2>1, <4>1 DEF Lays
      <4>3. (Word * 1 + i) % Word = i /\ (Word * 0 + i) % Word = i
            /\ Word * 1 + i = Word + i /\ Word * 0 + i = i
        BY <1>2, <4>1, Quotient, Numbers
      <4>4. Byte(s.reads, j) = Byte(s.reads, i)
        BY <4>1, <4>3 DEF Byte, FillByte
      <4> QED BY <2>3, <4>1, <4>2, <4>4
    <3> QED BY <3>2, <3>3, <1>2
  <2>5. ASSUME NEW a \in Addresses, \A j \in 0..(QW - 1) : At(m, j).phys # a
        PROVE  t.image[a] = s.image[a]
    <3>1. t.image[a] = t1.image[a]
      BY <2>1, <2>3, <2>5 DEF Lays
    <3>2. t1.image[a] = s.image[a]
      BY <1>2, <1>8, <2>5 DEF Lays
    <3> QED BY <3>1, <3>2
  <2> QED BY <2>2, <2>4, <2>5 DEF Lays
<1>13. Moved(t, s, QW)
  <2>1. /\ DOMAIN t = RefFields /\ Leads(t) /\ t.in = "bytes"
        /\ t.lines = s.lines /\ t.zoom = s.zoom /\ t.fault = s.fault
    BY <1>7, <1>11 DEF Moved
  <2>2. ~IsM2G(regs) /\ ~IsG2M(regs)
    BY DEF IsFill, IsM2G, IsG2M
  <2>3. t.bytes = s.bytes - QW
    <3>1. t.bytes = IF t1.bytes >= Word THEN t1.bytes - Word ELSE 0
      BY <1>11 DEF Moved
    <3> QED BY <1>2, <1>8, <3>1
  <2>4. t.mem = (m + QW) % ASIZE
    <3>1. t.mem = (m2 + Word) % ASIZE
      BY <1>8, <1>11 DEF Moved
    <3>2. m2 + Word = m + QW
      BY <1>2, <1>3
    <3> QED BY <3>1, <3>2
  <2>5. t.reads = s.reads /\ t.beats = s.beats
    BY <1>8, <1>11, <2>2 DEF Moved
  <2> QED BY <1>8, <1>12, <2>1, <2>2, <2>3, <2>4, <2>5 DEF Moved
<1> QED BY <1>13

-----------------------------------------------------------------------------
(* The engine beside the reference.                                        *)

LEMMA Wraps == ASSUME NEW x \in Int PROVE x % ASIZE \in Addresses
  BY Numbers DEF Addresses

LEMMA IntDivision ==
    ASSUME NEW a \in Int, NEW b \in Nat \ {0}
    PROVE  a \div b \in Int /\ (a % b) \in 0..(b - 1) /\ a = b * (a \div b) + (a % b)
OBVIOUS

LEMMA Multiple == ASSUME NEW q \in Int, NEW b \in Nat \ {0} PROVE (b * q) % b = 0
OBVIOUS

\* Addresses of whole words stay so.
LEMMA WordsStay ==
    ASSUME NEW x \in Int, NEW y \in Int, x % Word = 0, y % Word = 0
    PROVE  ((x + y) % ASIZE) % Word = 0
<1> DEFINE k == x \div Word
           l == y \div Word
           q == (x + y) \div ASIZE
           z == (x + y) % ASIZE
<1>1. k \in Int /\ x = Word * k
  BY IntDivision, Numbers
<1>2. l \in Int /\ y = Word * l
  BY IntDivision, Numbers
<1>3. q \in Int /\ z \in Int /\ x + y = ASIZE * q + z
  BY IntDivision, Numbers
<1>4. PICK n \in Nat \ {0} : ASIZE = Word * n
  <2>1. PICK i \in Nat \ {0} : ASIZE = QW * i
    BY Multiples
  <2>2. ASIZE = Word * (2 * i) /\ 2 * i \in Nat \ {0}
    BY <2>1, Numbers
  <2> QED BY <2>2
<1> HIDE DEF k, l, q, z
<1>5. ASIZE * q = Word * (n * q) /\ n * q \in Int
  BY <1>3, <1>4, Numbers
<1> DEFINE p == n * q
<1>6. p \in Int /\ ASIZE * q = Word * p
  BY <1>5
<1> HIDE DEF p
<1>7. Word * (k + l) = Word * k + Word * l
  BY <1>1, <1>2, Numbers
<1>8. Word * ((k + l) - p) = Word * (k + l) - Word * p
  BY <1>1, <1>2, <1>6, Numbers
<1>9. z = Word * ((k + l) - p)
  <2>1. Word * k \in Int /\ Word * l \in Int /\ Word * p \in Int
    BY <1>1, <1>2, <1>6, Numbers
  <2> QED BY <1>1, <1>2, <1>3, <1>6, <1>7, <1>8, <2>1
<1>10. (k + l) - p \in Int
  BY <1>1, <1>2, <1>6
<1>11. (Word * ((k + l) - p)) % Word = 0
  BY <1>10, Multiple, Numbers
<1> QED BY <1>9, <1>11 DEF z

LEMMA WordBack == ASSUME NEW y \in Int, y % Word = 0 PROVE (-y) % Word = 0
<1>1. y \div Word \in Int /\ y = Word * (y \div Word)
  BY IntDivision, Numbers
<1> DEFINE q == y \div Word
<1>2. q \in Int /\ y = Word * q
  BY <1>1
<1> HIDE DEF q
<1>3. -y = Word * (-q) /\ -q \in Int
  BY <1>2, Numbers
<1> QED BY <1>3, Multiple, Numbers

JobFields == {"kind", "up", "xlate", "skip", "lines", "width", "line_zoom", "stride",
              "zoom", "bytes", "vaddr"}

\* The job is the registers' while they stand.
Sampled(j) ==
    /\ DOMAIN j = JobFields
    /\ j.kind = (CASE IsFill(regs) -> "FILL" [] IsM2G(regs) -> "M2G" [] OTHER -> "G2M")
    /\ j.up = regs.up /\ j.xlate = regs.xlate /\ (j.skip <=> ~Supported(regs))
    /\ j.width = regs.width /\ j.line_zoom = regs.line_zoom /\ j.stride = regs.stride
    /\ j.vaddr \in Addresses

\* There is something left of it.
Counting(j) ==
    /\ j.lines \in Nat /\ j.lines > 0 /\ j.zoom \in Nat /\ j.zoom > 0 /\ j.bytes \in Nat
    /\ Supported(regs) /\ regs.line_zoom > 0
    /\ IsFill(regs) /\ regs.xlate => \A n \in {j.vaddr, regs.width, regs.stride} : n % Word = 0

LEMMA Kinds ==
    ASSUME NEW j, Sampled(j), Supported(regs), regs \in RegsType
    PROVE  /\ j.kind = "FILL" <=> IsFill(regs)
           /\ j.kind = "M2G" <=> IsM2G(regs)
           /\ j.kind = "G2M" <=> IsG2M(regs)
           /\ IsFill(regs) \/ IsM2G(regs) \/ IsG2M(regs)
           /\ IsFill(regs) => ~IsM2G(regs) /\ ~IsG2M(regs)
           /\ IsM2G(regs) => ~IsG2M(regs)
           /\ regs.to_host <=> ~IsM2G(regs)
<1>1. regs.fill \in BOOLEAN /\ regs.to_host \in BOOLEAN /\ regs.up \in BOOLEAN
  BY DEF RegsType
<1>2. IsFill(regs) \/ IsM2G(regs) \/ IsG2M(regs)
  BY DEF Supported
<1>3. /\ IsFill(regs) => ~IsM2G(regs) /\ ~IsG2M(regs)
      /\ IsM2G(regs) => ~IsG2M(regs)
      /\ regs.to_host <=> ~IsM2G(regs)
  BY <1>1, <1>2 DEF IsFill, IsM2G, IsG2M
<1>4. j.kind = (CASE IsFill(regs) -> "FILL" [] IsM2G(regs) -> "M2G" [] OTHER -> "G2M")
  BY DEF Sampled
<1> HIDE DEF IsFill, IsM2G, IsG2M
<1>5. CASE IsFill(regs)
  BY <1>3, <1>4, <1>5
<1>6. CASE IsM2G(regs)
  BY <1>3, <1>4, <1>6
<1>7. CASE IsG2M(regs)
  BY <1>3, <1>4, <1>7
<1> QED BY <1>2, <1>3, <1>5, <1>6, <1>7

\* What the machine makes of a beat: its length, and how much of it is in the
\* first doubleword.
BeatOf(j) ==
    IF j.kind = "FILL"
    THEN IF j.up /\ j.vaddr % QW = 0 /\ j.bytes >= QW THEN QW ELSE Word
    ELSE Min({j.bytes, QW})
PartOk(p, j) ==
    /\ DOMAIN p = {"len", "lane0", "n0", "for_b"}
    /\ p.len = BeatOf(j) /\ p.lane0 = j.vaddr % QW /\ p.n0 = Min({p.len, QW - p.lane0})

LEMMA PartIs ==
    ASSUME NEW j, NEW p, PartOk(p, j), Sampled(j), Counting(j), j.bytes > 0, regs \in RegsType
    PROVE  /\ p.len \in 1..QW /\ p.n0 \in 1..p.len /\ p.len \in Nat /\ p.n0 \in Nat
           /\ \A i \in 0..(p.len - 1) : i < p.n0 <=> (j.vaddr % QW) + i < QW
           /\ p.len > p.n0 => p.n0 = QW - (j.vaddr % QW)
           /\ j.vaddr % QW \in Nat /\ j.vaddr % QW < QW
           /\ IsFill(regs) /\ regs.xlate => p.len = p.n0
           /\ p.len = MoveLen(j.bytes)
              \/ (IsFill(regs) /\ regs.up /\ j.vaddr % QW = 0 /\ j.bytes >= QW /\ p.len = QW)
<1> DEFINE l == j.vaddr % QW
<1>1. j.vaddr \in Nat /\ l \in 0..(QW - 1)
  <2>1. j.vaddr \in Nat
    BY Numbers DEF Sampled, Addresses
  <2> QED BY <2>1, Division, Numbers
<1>2. l \in Nat /\ l < QW
  BY <1>1, Numbers
<1>3. j.bytes \in Nat \ {0} /\ Supported(regs)
  BY DEF Counting
<1>4. Min({j.bytes, QW}) = IF j.bytes <= QW THEN j.bytes ELSE QW
  BY <1>3, PairMin, Numbers
<1>5. j.kind = "FILL" <=> IsFill(regs)
  BY <1>3, Kinds
<1>6. p.len \in 1..QW
  BY <1>3, <1>4, Numbers DEF PartOk, BeatOf
<1>7. /\ MoveLen(j.bytes) \in 1..QW
      /\ IsFill(regs) => MoveLen(j.bytes) = Word
      /\ ~IsFill(regs) => MoveLen(j.bytes) = Min({j.bytes, QW})
  BY <1>3, MoveLenIs DEF MoveLen
<1>8. p.len = MoveLen(j.bytes)
      \/ (IsFill(regs) /\ regs.up /\ j.vaddr % QW = 0 /\ j.bytes >= QW /\ p.len = QW)
  BY <1>5, <1>7 DEF PartOk, BeatOf, Sampled
<1>9. p.len \in Nat /\ QW - l \in Nat /\ QW - l > 0
  BY <1>2, <1>6, Numbers
<1>10. p.n0 = IF p.len <= QW - l THEN p.len ELSE QW - l
  <2>1. p.n0 = Min({p.len, QW - l})
    BY DEF PartOk
  <2> HIDE DEF l
  <2> QED BY <1>9, <2>1, PairMin
<1>11. /\ p.n0 \in 1..p.len /\ p.n0 \in Nat
       /\ \A i \in 0..(p.len - 1) : i < p.n0 <=> l + i < QW
       /\ p.len > p.n0 => p.n0 = QW - l
  <2> HIDE DEF l
  <2> QED BY <1>2, <1>6, <1>9, <1>10, Numbers
<1>12. ASSUME IsFill(regs), regs.xlate PROVE p.len = p.n0
  <2>1. j.vaddr % Word = 0
    BY <1>12 DEF Counting
  <2>2. Splits(j.vaddr, Word, 2, QW)
    <3>1. QW = Word * 2 /\ 2 \in Nat \ {0}
      BY Numbers
    <3> QED BY <1>1, <3>1, Nested, Numbers
  <2>3. l % Word = 0
    BY <2>1, <2>2 DEF Splits
  <2>4. CASE p.len = QW
    <3>1. l = 0
      BY <1>5, <1>12, <2>4, Numbers DEF PartOk, BeatOf
    <3> HIDE DEF l
    <3> QED BY <1>10, <2>4, <3>1, Numbers
  <2>5. CASE p.len = Word
    <3>1. l <= Word
      <4>1. PICK k \in Nat : l = Word * k
        <5>1. l \div Word \in Nat /\ l = Word * (l \div Word) + (l % Word)
          BY <1>2, Division, Numbers
        <5> DEFINE k == l \div Word
        <5>2. k \in Nat /\ l = Word * k
          <6>1. Word * k \in Nat
            BY <5>1, Numbers
          <6> QED BY <2>3, <5>1, <6>1
        <5> QED BY <5>2
      <4>2. k < 2
        <5> SUFFICES ASSUME ~(k < 2) PROVE FALSE
          OBVIOUS
        <5>1. k = 2 \/ 2 < k
          BY <4>1
        <5>2. Word * 2 <= Word * k
          <6>1. CASE k = 2
            BY <6>1, Numbers
          <6>2. CASE 2 < k
            <7>1. Word * 2 + Word <= Word * k
              BY <4>1, <6>2, Below, Numbers
            <7> QED BY <7>1, <4>1, Numbers
          <6> QED BY <5>1, <6>1, <6>2
        <5> HIDE DEF l
        <5> QED BY <1>2, <4>1, <5>2, Numbers
      <4>3. Word * 0 = 0 /\ Word * 1 = Word /\ (k = 0 \/ k = 1)
        BY <4>1, <4>2, Numbers
      <4> HIDE DEF l
      <4> QED BY <4>1, <4>3, Numbers
    <3> HIDE DEF l
    <3> QED BY <1>2, <1>10, <2>5, <3>1, Numbers
  <2>6. p.len = QW \/ p.len = Word
    BY <1>5, <1>12 DEF PartOk, BeatOf
  <2> QED BY <2>4, <2>5, <2>6
<1> QED BY <1>2, <1>6, <1>8, <1>9, <1>11, <1>12

\* The reference's state that a job stands at.
Beside(s, j) ==
    /\ DOMAIN s = RefFields /\ Leads(s) /\ s.in = "bytes"
    /\ s.lines = j.lines - 1 /\ s.zoom = j.zoom - 1 /\ s.bytes = j.bytes
    /\ s.mem = j.vaddr /\ s.fault = {}
    /\ s.image = [a \in Addresses |-> s.image[a]]

\* In which half of a beat the machine is, and the address it translates.
InA(st, p) == st = "S_MEMA" \/ (st = "S_PTE" /\ ~p.for_b)
InB(st, p) == st = "S_MEMB" \/ (st = "S_PTE" /\ p.for_b)
Where(st, j, p) == IF InB(st, p) THEN Eng!NextQword(j.vaddr) ELSE j.vaddr

ReadsOf(s) == IF IsG2M(regs) THEN s.reads + 1 ELSE s.reads
BeatsOf(s, n) ==
    IF IsM2G(regs) THEN Append(s.beats, Packed(s.image, n, s.mem)) ELSE s.beats
\* The bytes to write are in hand.
Filled(s, p, b) == regs.to_host => \A i \in 0..(p.len - 1) : b[i] = Byte(s.reads, i)

\* How much of a beat is done.
Nothing(s, img, bts, rds) == img = s.image /\ bts = s.beats /\ rds = s.reads
Sending(s, p, b) == IsM2G(regs) => Translates(s.mem, p.len) /\ b = Packed(s.image, p.len, s.mem)
AHalf(s, p, b, img) ==
    /\ p.len > p.n0 /\ Translates(s.mem, p.n0)
    /\ regs.to_host => Lays(img, s.image, p.n0, s.mem, s.reads)
    /\ ~regs.to_host => img = s.image /\ \A i \in 0..(p.n0 - 1) : b[i] = img[At(s.mem, i).phys]
All(s, p, img) ==
    /\ Translates(s.mem, p.len)
    /\ regs.to_host => Lays(img, s.image, p.len, s.mem, s.reads)
    /\ ~regs.to_host => img = s.image

Progress(s, st, j, p, b, img, bts, rds) ==
    /\ st # "S_CHECK" => j.bytes > 0
    /\ st \in {"S_CHECK", "S_BEAT"} => Nothing(s, img, bts, rds)
    /\ st \notin {"S_CHECK", "S_BEAT"} => PartOk(p, j)
    /\ st = "S_GIO" => /\ ~IsFill(regs) /\ Nothing(s, img, bts, rds) /\ Sending(s, p, b)
    /\ InA(st, p) => img = s.image /\ bts = s.beats /\ rds = ReadsOf(s) /\ Filled(s, p, b)
    /\ InB(st, p) => AHalf(s, p, b, img) /\ bts = s.beats /\ rds = ReadsOf(s) /\ Filled(s, p, b)
    /\ st = "S_STEP" => All(s, p, img) /\ bts = BeatsOf(s, p.len) /\ rds = ReadsOf(s)

\* What the translation cache has is so, for every address of its page.
CacheOk(c) ==
    /\ DOMAIN c = {"valid", "tag", "base", "wrok"}
    /\ c.valid => \A a \in Addresses : a \div PAGE = c.tag =>
                     /\ Tr(a).fault = {}
                     /\ regs.xlate => Tr(a).phys = c.base + (a % PAGE)
                     /\ regs.to_host => c.wrok

\* A page table entry is asked for that the uTLB has.
Asking(st, j, p) ==
    st = "S_PTE" => /\ j.xlate /\ Hits(Where(st, j, p)) # {}
                    /\ Mapping(Where(st, j, p)).valid

\* The outcome is there.
AtOutcome(v, f, img, bts, rds) ==
    /\ want.image = img /\ want.beats = bts /\ want.reads = rds /\ want.fault = f
    /\ Supported(regs) => v = want.mem \/ (f # {} /\ ShortOf(v, want.mem))

States == {"S_CHECK", "S_BEAT", "S_GIO", "S_MEMA", "S_MEMB", "S_PTE", "S_STEP"}
Running(st, j, p, b, c, f, img, bts, rds) ==
    /\ Sampled(j) /\ CacheOk(c)
    /\ DOMAIN p = {"len", "lane0", "n0", "for_b"}
    /\ st = "S_DONE" => AtOutcome(j.vaddr, f, img, bts, rds)
    /\ st # "S_DONE" => /\ st \in States /\ f = {} /\ Counting(j) /\ Asking(st, j, p)
                        /\ \E s : Beside(s, j) /\ Progress(s, st, j, p, b, img, bts, rds)

\* The registers and what a transfer leaves alone.
Given ==
    /\ regs \in RegsType /\ TablesOk /\ want.in = "out"
    /\ image = [a \in Addresses |-> image[a]]

LEMMA BesideBeat ==
    ASSUME NEW s, NEW j, Beside(s, j), Sampled(j), Counting(j), j.bytes > 0, Given
    PROVE  AtBeat(s)
<1>1. j.bytes \in Nat /\ j.vaddr \in Addresses
      /\ (IsFill(regs) /\ regs.xlate => j.vaddr % Word = 0)
  BY DEF Counting, Sampled
<1> QED BY <1>1 DEF Beside, AtBeat, Given, Whole

\* A beat that is done: the reference has done it too.
LEMMA BeatDone ==
    ASSUME NEW s, NEW j, NEW p, NEW img,
           Beside(s, j), Sampled(j), Counting(j), j.bytes > 0, Given, PartOk(p, j), All(s, p, img)
    PROVE  \E t : /\ Moved(t, s, p.len) /\ t.image = img /\ t.reads = ReadsOf(s)
                  /\ t.beats = BeatsOf(s, p.len)
<1>1. AtBeat(s)
  BY BesideBeat
<1>2. s.bytes = j.bytes /\ s.mem = j.vaddr /\ regs \in RegsType
  BY DEF Beside, Given
<1>3. p.len = MoveLen(j.bytes)
      \/ (IsFill(regs) /\ regs.up /\ j.vaddr % QW = 0 /\ j.bytes >= QW /\ p.len = QW)
  BY <1>2, PartIs
<1>4. \E t : Moved(t, s, p.len)
  <2>1. CASE p.len = MoveLen(j.bytes)
    BY <1>1, <1>2, <2>1, MoveDone DEF All
  <2>2. CASE IsFill(regs) /\ regs.up /\ j.vaddr % QW = 0 /\ j.bytes >= QW /\ p.len = QW
    BY <1>1, <1>2, <2>2, FillDone DEF All
  <2> QED BY <1>3, <2>1, <2>2
<1>5. PICK t : Moved(t, s, p.len)
  BY <1>4
<1>6. t.image = img
  <2>1. CASE regs.to_host
    <3>1. Lays(t.image, s.image, p.len, s.mem, s.reads) /\ Lays(img, s.image, p.len, s.mem, s.reads)
      BY <1>5, <2>1 DEF Moved, All
    <3> QED BY <3>1, OneLay
  <2>2. CASE ~regs.to_host
    BY <1>5, <2>2 DEF Moved, All
  <2> QED BY <2>1, <2>2
<1> QED BY <1>5, <1>6 DEF Moved, ReadsOf, BeatsOf

\* A beat whose first or second half is nowhere: so ends the reference.
LEMMA BeatFaults ==
    ASSUME NEW s, NEW st, NEW j, NEW p, NEW b, NEW img, NEW bts, NEW rds,
           Beside(s, j), Sampled(j), Counting(j), Given, st \in States,
           Progress(s, st, j, p, b, img, bts, rds), InA(st, p) \/ InB(st, p),
           Tr(Where(st, j, p)).fault # {}, img = [a \in Addresses |-> img[a]]
    PROVE  AtOutcome(j.vaddr, Tr(Where(st, j, p)).fault, img, bts, rds)
<1> DEFINE m == s.mem
           f == Tr(Where(st, j, p)).fault
<1>0. st \notin {"S_CHECK", "S_BEAT"}
  BY DEF InA, InB
<1>1. /\ AtBeat(s) /\ PartOk(p, j) /\ j.bytes > 0 /\ regs \in RegsType
      /\ s.bytes = j.bytes /\ m = j.vaddr /\ m \in Addresses /\ TablesOk
  BY <1>0, BesideBeat DEF Beside, Progress, Given, Sampled
<1>2. /\ p.len \in 1..QW /\ p.n0 \in 1..p.len /\ p.len \in Nat /\ p.n0 \in Nat
      /\ \A i \in 0..(p.len - 1) : i < p.n0 <=> (m % QW) + i < QW
      /\ p.len > p.n0 => p.n0 = QW - (m % QW)
      /\ m % QW \in Nat /\ m % QW < QW
      /\ IsFill(regs) /\ regs.xlate => p.len = p.n0
      /\ p.len = MoveLen(s.bytes) \/ (IsFill(regs) /\ p.len = QW)
  BY <1>1, PartIs
<1>3. regs.xlate
  BY Untranslated
<1>4. \E k \in 0..(MoveLen(s.bytes) - 1) :
          /\ Translates(m, k) /\ At(m, k).fault = f /\ (IsFill(regs) => k = 0)
          /\ k = 0 \/ ShortOf(m, (m + k) % ASIZE)
          /\ regs.to_host => Lays(img, s.image, k, m, s.reads)
          /\ ~regs.to_host => img = s.image
  <2>1. CASE InA(st, p) /\ ~InB(st, p)
    <3>1. 0 \in 0..(MoveLen(s.bytes) - 1)
      <4>1. MoveLen(s.bytes) \in 1..QW
        BY <1>1, MoveLenIs DEF AtBeat
      <4> QED BY <4>1, Numbers
    <3>2. At(m, 0) = Tr(m) /\ Where(st, j, p) = m
      BY <1>1, <2>1, AtFirst DEF Where
    <3>3. Translates(m, 0)
      BY DEF Translates
    <3>4. img = s.image
      BY <2>1 DEF Progress
    <3>5. Lays(img, s.image, 0, m, s.reads)
      BY <3>4 DEF Lays
    <3> QED BY <3>1, <3>2, <3>3, <3>4, <3>5
  <2>2. CASE InB(st, p)
    <3>1. AHalf(s, p, b, img)
      BY <2>2 DEF Progress
    <3>2. ~IsFill(regs) /\ p.len = MoveLen(s.bytes) /\ p.len > p.n0
      BY <1>2, <1>3, <3>1 DEF AHalf
    <3>3. p.n0 \in 0..(MoveLen(s.bytes) - 1) /\ p.n0 < QW /\ (m % QW) + p.n0 >= QW
      BY <1>2, <3>2, Numbers
    <3>4. At(m, p.n0).fault = f
      <4>1. Where(st, j, p) = Eng!NextQword(m)
        BY <1>1, <2>2 DEF Where
      <4> QED BY <1>1, <1>2, <3>3, <4>1, SecondHalf
    <3>5. ShortOf(m, (m + p.n0) % ASIZE)
      <4>1. ((m + p.n0) % ASIZE) % QW = (m % QW) + p.n0 - QW
        <5> HIDE DEF m
        <5> QED BY <1>1, <1>2, <3>3, NextDword
      <4>2. p.n0 \in 1..(QW - 1)
        BY <1>2, <3>3, Numbers
      <4>3. (m % QW) + p.n0 - QW = 0
        BY <1>2, <3>2, Numbers
      <4> QED BY <4>1, <4>2, <4>3 DEF ShortOf
    <3> QED BY <3>1, <3>2, <3>3, <3>4, <3>5 DEF AHalf
  <2> QED BY <2>1, <2>2
<1>5. PICK k \in 0..(MoveLen(s.bytes) - 1) :
          /\ Translates(m, k) /\ At(m, k).fault = f /\ (IsFill(regs) => k = 0)
          /\ k = 0 \/ ShortOf(m, (m + k) % ASIZE)
          /\ regs.to_host => Lays(img, s.image, k, m, s.reads)
          /\ ~regs.to_host => img = s.image
  BY <1>4
<1>6. /\ want.fault = f /\ want.mem = (m + k) % ASIZE /\ want.beats = s.beats
      /\ want.reads = ReadsOf(s)
      /\ regs.to_host => Lays(want.image, s.image, k, m, s.reads)
      /\ ~regs.to_host => want.image = s.image
  BY <1>1, <1>5, MoveFaults DEF ReadsOf
<1>7. want.image = img
  BY <1>5, <1>6, OneLay
<1>8. bts = s.beats /\ rds = ReadsOf(s)
  BY DEF Progress
<1>9. m = want.mem \/ ShortOf(m, want.mem)
  <2>1. (m + 0) % ASIZE = m
    BY <1>1, Unmoved
  <2> QED BY <1>5, <1>6, <2>1
<1>10. f # {}
  OBVIOUS
<1> HIDE DEF f, m
<1> QED BY <1>1, <1>6, <1>7, <1>8, <1>9, <1>10 DEF AtOutcome, f

-----------------------------------------------------------------------------
(* The engine's states, one lemma for each.                                *)

Here == Running(state, job, part, beat, cache, fault_code, image, beats, reads)
There == Running(state', job', part', beat', cache', fault_code', image', beats', reads')
Bus == <<image, beats, reads>>

LEMMA EngBeatOf == Eng!BeatLen = BeatOf(job)
  BY DEF Eng!BeatLen, BeatOf, Eng!Word, Word, Eng!Min, Min

LEMMA CheckGoes ==
    ASSUME Given, Here, Eng!Check, UNCHANGED Bus
    PROVE  There
<1>1. /\ state = "S_CHECK" /\ UNCHANGED <<part, beat, cache, fault_code, image, beats, reads>>
      /\ Sampled(job) /\ CacheOk(cache) /\ DOMAIN part = {"len", "lane0", "n0", "for_b"}
      /\ fault_code = {} /\ Counting(job)
  BY DEF Here, Running, Eng!Check, Bus
<1>2. PICK s : Beside(s, job) /\ Nothing(s, image, beats, reads)
  BY <1>1 DEF Here, Running, Progress
<1>3. CASE job.bytes # 0
  <2>1. state' = "S_BEAT" /\ job' = job /\ job.bytes > 0
    BY <1>1, <1>3 DEF Eng!Check, Counting
  <2>2. Progress(s, "S_BEAT", job, part, beat, image, beats, reads) /\ Asking("S_BEAT", job, part)
    BY <1>2, <2>1 DEF Progress, Asking, InA, InB
  <2> QED BY <1>1, <1>2, <2>1, <2>2 DEF There, Running, States
<1>4. CASE job.bytes = 0
  <2>1. /\ job' = Eng!Unwound(job)
        /\ state' = IF job.zoom <= 1 /\ job.lines <= 1 THEN "S_DONE" ELSE "S_CHECK"
    BY <1>4 DEF Eng!Check
  <2>2. /\ DOMAIN s = RefFields /\ Leads(s) /\ want.in = "out" /\ s.in = "bytes" /\ s.bytes = 0
        /\ s.lines = job.lines - 1 /\ s.zoom = job.zoom - 1 /\ s.mem = job.vaddr /\ s.fault = {}
        /\ s.image = [a \in Addresses |-> s.image[a]]
    BY <1>2, <1>4 DEF Beside, Given
  <2>3. /\ job.lines \in Nat /\ job.lines > 0 /\ job.zoom \in Nat /\ job.zoom > 0
        /\ DOMAIN job = JobFields /\ job.vaddr \in Addresses /\ job.vaddr \in Int
        /\ job.up = regs.up /\ job.width = regs.width /\ job.line_zoom = regs.line_zoom
        /\ job.stride = regs.stride /\ Supported(regs)
        /\ regs.width \in Nat /\ regs.line_zoom \in Nat /\ regs.line_zoom > 0 /\ regs.stride \in Int
        /\ IsFill(regs) /\ regs.xlate =>
              job.vaddr % Word = 0 /\ regs.width % Word = 0 /\ regs.stride % Word = 0
    BY <1>1, Numbers DEF Counting, Sampled, Given, RegsType, Addresses
  <2> DEFINE Over(v) == v \in Addresses /\ (IsFill(regs) /\ regs.xlate => v % Word = 0)
  <2>4. \A st \in {"S_CHECK"} : Asking(st, job', part)
    BY DEF Asking
  <2>5. CASE job.zoom > 1
    <3> DEFINE v == (IF job.up THEN job.vaddr - job.width ELSE job.vaddr + job.width) % ASIZE
    <3>1. job' = [job EXCEPT !.bytes = job.width, !.zoom = job.zoom - 1, !.vaddr = v]
      BY <2>1, <2>5 DEF Eng!Unwound
    <3>2. Over(v)
      <4>1. v \in Addresses
        <5>1. (IF job.up THEN job.vaddr - job.width ELSE job.vaddr + job.width) \in Int
          BY <2>3
        <5> QED BY <5>1, Wraps
      <4>2. ASSUME IsFill(regs), regs.xlate PROVE v % Word = 0
        <5>1. (-regs.width) % Word = 0 /\ -regs.width \in Int
          BY <2>3, <4>2, WordBack
        <5>2. ((job.vaddr + regs.width) % ASIZE) % Word = 0
          BY <2>3, <4>2, WordsStay
        <5>3. ((job.vaddr + (-regs.width)) % ASIZE) % Word = 0
          BY <2>3, <4>2, <5>1, WordsStay
        <5>4. job.vaddr + (-regs.width) = job.vaddr - job.width
          BY <2>3
        <5> QED BY <2>3, <5>2, <5>3, <5>4
      <4> QED BY <4>1, <4>2
    <3>3. PICK t : /\ DOMAIN t = RefFields /\ Leads(t) /\ t.in = "bytes"
                   /\ t.lines = s.lines /\ t.zoom = s.zoom - 1 /\ t.bytes = regs.width
                   /\ t.mem = (IF regs.up THEN s.mem - regs.width ELSE s.mem + regs.width) % ASIZE
                   /\ Same(t, s, Data)
      <4>1. s.zoom \in Nat /\ s.zoom > 0
        BY <2>2, <2>3, <2>5
      <4> QED BY <2>2, <4>1, NextPass
    <3>4. t.mem = v
      BY <2>2, <2>3, <3>3
    <3> HIDE DEF v
    <3>5. /\ DOMAIN job' = JobFields /\ job'.bytes = regs.width /\ job'.zoom = job.zoom - 1
          /\ job'.vaddr = v /\ job'.lines = job.lines /\ job'.kind = job.kind /\ job'.up = job.up
          /\ job'.xlate = job.xlate /\ job'.skip = job.skip /\ job'.width = job.width
          /\ job'.line_zoom = job.line_zoom /\ job'.stride = job.stride
      BY <2>3, <3>1 DEF JobFields
    <3>6. Sampled(job') /\ Counting(job')
      BY <1>1, <2>3, <2>5, <3>2, <3>5 DEF Sampled, Counting
    <3>7. Beside(t, job') /\ Nothing(t, image, beats, reads)
      <4>1. t.image = s.image /\ t.beats = s.beats /\ t.reads = s.reads /\ t.fault = s.fault
        BY <3>3 DEF Same, Data
      <4> QED BY <1>2, <2>2, <2>3, <3>3, <3>4, <3>5, <4>1 DEF Beside, Nothing
    <3>8. state' = "S_CHECK"
      BY <2>1, <2>3, <2>5
    <3>9. Progress(t, "S_CHECK", job', part, beat, image, beats, reads)
      BY <3>7 DEF Progress, InA, InB
    <3> QED BY <1>1, <2>4, <3>6, <3>7, <3>8, <3>9 DEF There, Running, States
  <2>6. CASE ~(job.zoom > 1)
    <3> DEFINE v == (job.vaddr + job.stride) % ASIZE
    <3>1. job' = [job EXCEPT !.bytes = job.width, !.zoom = job.line_zoom, !.vaddr = v,
                             !.lines = job.lines - 1]
      BY <2>1, <2>6 DEF Eng!Unwound
    <3>2. Over(v)
      <4>1. job.vaddr + job.stride \in Int
        BY <2>3
      <4>2. v \in Addresses
        BY <4>1, Wraps
      <4>3. IsFill(regs) /\ regs.xlate => v % Word = 0
        BY <2>3, WordsStay
      <4> QED BY <4>2, <4>3
    <3>3. s.zoom = 0 /\ v = (s.mem + regs.stride) % ASIZE /\ s.lines \in Nat
      BY <2>2, <2>3, <2>6
    <3> HIDE DEF v
    <3>4. /\ DOMAIN job' = JobFields /\ job'.bytes = regs.width /\ job'.zoom = regs.line_zoom
          /\ job'.vaddr = v /\ job'.lines = job.lines - 1 /\ job'.kind = job.kind
          /\ job'.up = job.up /\ job'.xlate = job.xlate /\ job'.skip = job.skip
          /\ job'.width = job.width /\ job'.line_zoom = job.line_zoom /\ job'.stride = job.stride
      BY <2>3, <3>1 DEF JobFields
    <3>5. Sampled(job')
      BY <1>1, <3>2, <3>4 DEF Sampled
    <3>6. CASE job.lines <= 1
      <4>1. s.lines = 0 /\ state' = "S_DONE"
        BY <2>1, <2>2, <2>3, <2>6, <3>6
      <4>2. want.mem = (s.mem + regs.stride) % ASIZE /\ Same(want, s, Data)
        BY <2>2, <3>3, <4>1, LastLine
      <4>3. AtOutcome(job'.vaddr, {}, image, beats, reads)
        <5>1. want.image = s.image /\ want.beats = s.beats /\ want.reads = s.reads
              /\ want.fault = s.fault
          BY <4>2 DEF Same, Data
        <5> QED BY <1>2, <2>2, <3>3, <3>4, <4>2, <5>1 DEF AtOutcome, Nothing
      <4> QED BY <1>1, <3>5, <4>1, <4>3 DEF There, Running
    <3>7. CASE ~(job.lines <= 1)
      <4>1. s.lines > 0 /\ state' = "S_CHECK" /\ job.lines - 1 > 0 /\ job.lines - 1 \in Nat
        BY <2>1, <2>2, <2>3, <3>7
      <4>2. PICK t : /\ DOMAIN t = RefFields /\ Leads(t) /\ t.in = "bytes"
                     /\ t.lines = s.lines - 1 /\ t.zoom = regs.line_zoom - 1
                     /\ t.bytes = regs.width /\ t.mem = (s.mem + regs.stride) % ASIZE
                     /\ Same(t, s, Data)
        BY <2>2, <2>3, <3>3, <4>1, NextLine
      <4>3. Counting(job')
        BY <2>3, <3>2, <3>4, <4>1 DEF Counting
      <4>4. Beside(t, job') /\ Nothing(t, image, beats, reads)
        <5>1. t.image = s.image /\ t.beats = s.beats /\ t.reads = s.reads /\ t.fault = s.fault
          BY <4>2 DEF Same, Data
        <5> QED BY <1>2, <2>2, <2>3, <3>3, <3>4, <4>2, <5>1 DEF Beside, Nothing
      <4>5. Progress(t, "S_CHECK", job', part, beat, image, beats, reads)
        BY <4>4 DEF Progress, InA, InB
      <4> QED BY <1>1, <2>4, <3>5, <4>1, <4>3, <4>4, <4>5 DEF There, Running, States
    <3> QED BY <3>6, <3>7
  <2> QED BY <2>5, <2>6
<1> QED BY <1>3, <1>4

LEMMA BeatGoes ==
    ASSUME Given, Here, Eng!Beat, UNCHANGED Bus
    PROVE  There
<1>1. /\ state = "S_BEAT" /\ UNCHANGED <<job, cache, fault_code, image, beats, reads>>
      /\ Sampled(job) /\ CacheOk(cache) /\ fault_code = {} /\ Counting(job)
  BY DEF Here, Running, Eng!Beat, Bus
<1>2. PICK s : Beside(s, job) /\ Nothing(s, image, beats, reads) /\ job.bytes > 0
  BY <1>1 DEF Here, Running, Progress
<1>3. /\ DOMAIN part' = {"len", "lane0", "n0", "for_b"} /\ ~part'.for_b /\ PartOk(part', job)
  <2>1. part' = [len |-> BeatOf(job), lane0 |-> job.vaddr % QW,
                 n0 |-> Eng!Min({BeatOf(job), QW - (job.vaddr % QW)}), for_b |-> FALSE]
    BY EngBeatOf DEF Eng!Beat
  <2>2. \A S : Eng!Min(S) = Min(S)
    BY DEF Eng!Min, Min
  <2> HIDE DEF BeatOf
  <2> QED BY <2>1, <2>2 DEF PartOk
<1>4. /\ beat' = [i \in Bytes |-> IF job.kind = "FILL" THEN FillByte(i) ELSE Zero]
      /\ state' = IF job.kind = "G2M" THEN "S_GIO" ELSE "S_MEMA"
  BY DEF Eng!Beat, Eng!Bytes, Bytes, Eng!FillByte, FillByte, Eng!Word, Word, Eng!Zero, Zero
<1>5. /\ job.kind = "FILL" <=> IsFill(regs)
      /\ job.kind = "G2M" <=> IsG2M(regs)
      /\ IsFill(regs) \/ IsM2G(regs) \/ IsG2M(regs)
      /\ IsFill(regs) => ~IsM2G(regs) /\ ~IsG2M(regs)
      /\ IsM2G(regs) => ~IsG2M(regs)
      /\ regs.to_host <=> ~IsM2G(regs)
  BY <1>1, Kinds DEF Counting, Given
<1>6. Asking(state', job, part')
  BY <1>4 DEF Asking
<1>7. part'.len \in 1..QW
  BY <1>1, <1>2, <1>3, PartIs DEF Given
<1>8. Progress(s, state', job, part', beat', image, beats, reads)
  <2>1. CASE job.kind = "G2M"
    <3>1. state' = "S_GIO" /\ ~IsFill(regs) /\ ~IsM2G(regs)
      BY <1>4, <1>5, <2>1
    <3> QED BY <1>2, <1>3, <3>1 DEF Progress, InA, InB, Sending
  <2>2. CASE job.kind # "G2M"
    <3>1. state' = "S_MEMA" /\ ~IsG2M(regs)
      BY <1>4, <1>5, <2>2
    <3>2. Filled(s, part', beat')
      <4>1. ASSUME regs.to_host, NEW i \in 0..(part'.len - 1)
            PROVE  beat'[i] = Byte(s.reads, i)
        <5>1. IsFill(regs) /\ i \in Bytes
          BY <1>5, <1>7, <3>1, <4>1, Numbers DEF Bytes
        <5> QED BY <1>4, <1>5, <5>1 DEF Byte
      <4> QED BY <4>1 DEF Filled
    <3>3. reads = ReadsOf(s)
      BY <1>2, <3>1 DEF ReadsOf, Nothing
    <3> QED BY <1>2, <1>3, <3>1, <3>2, <3>3 DEF Progress, InA, InB, Nothing
  <2> QED BY <2>1, <2>2
<1>9. state' \in States /\ state' # "S_DONE"
  BY <1>4 DEF States
<1> QED BY <1>1, <1>2, <1>3, <1>6, <1>8, <1>9 DEF There, Running

LEMMA GioGoes ==
    ASSUME Given, Here, NEW in, Eng!Gio(in), image' = image,
           in.g_rdata = [i \in Bytes |-> GioByte(reads, i)],
           beats' = (IF in.g_ack /\ job.kind = "M2G" THEN Append(beats, beat) ELSE beats),
           reads' = (IF in.g_ack /\ job.kind = "G2M" THEN reads + 1 ELSE reads)
    PROVE  There
<1>1. /\ state = "S_GIO" /\ UNCHANGED <<job, part, cache, fault_code, image>>
      /\ Sampled(job) /\ CacheOk(cache) /\ DOMAIN part = {"len", "lane0", "n0", "for_b"}
      /\ fault_code = {} /\ Counting(job) /\ regs \in RegsType
  BY DEF Here, Running, Eng!Gio, Given
<1>2. PICK s : Beside(s, job) /\ Progress(s, state, job, part, beat, image, beats, reads)
  BY <1>1 DEF Here, Running
<1>3. /\ job.bytes > 0 /\ PartOk(part, job) /\ ~IsFill(regs)
      /\ Nothing(s, image, beats, reads) /\ Sending(s, part, beat)
  BY <1>1, <1>2 DEF Progress
<1>4. /\ job.kind = "M2G" <=> IsM2G(regs)
      /\ job.kind = "G2M" <=> IsG2M(regs)
      /\ IsM2G(regs) \/ IsG2M(regs)
      /\ IsM2G(regs) => ~IsG2M(regs)
      /\ regs.to_host <=> ~IsM2G(regs)
  BY <1>1, <1>3, Kinds DEF Counting
<1>5. part.len \in 1..QW
  BY <1>1, <1>3, PartIs
<1>6. CASE ~in.g_ack
  <2>1. state' = state /\ beat' = beat /\ beats' = beats /\ reads' = reads
    BY <1>6 DEF Eng!Gio
  <2> QED BY <1>1, <1>2, <2>1 DEF Here, Running, There
<1>7. CASE in.g_ack /\ job.kind = "G2M"
  <2>1. state' = "S_MEMA" /\ beats' = beats /\ reads' = reads + 1
        /\ beat' = [i \in Bytes |-> IF i < part.len THEN in.g_rdata[i] ELSE Zero]
    BY <1>7 DEF Eng!Gio, Eng!Bytes, Bytes, Eng!Zero, Zero
  <2>2. Filled(s, part, beat')
    <3>1. ASSUME NEW i \in 0..(part.len - 1) PROVE beat'[i] = Byte(s.reads, i)
      <4>1. i \in Bytes /\ i < part.len
        BY <1>5, Numbers DEF Bytes
      <4>2. beat'[i] = GioByte(reads, i)
        BY <2>1, <4>1
      <4> QED BY <1>3, <4>2 DEF Byte, Nothing
    <3> QED BY <3>1 DEF Filled
  <2>3. reads' = ReadsOf(s)
    BY <1>3, <1>4, <1>7, <2>1 DEF ReadsOf, Nothing
  <2>4. Progress(s, "S_MEMA", job, part, beat', image, beats, reads')
    BY <1>3, <2>2, <2>3 DEF Progress, InA, InB, Nothing
  <2>5. Asking("S_MEMA", job, part)
    BY DEF Asking
  <2> QED BY <1>1, <1>2, <2>1, <2>4, <2>5 DEF There, Running, States
<1>8. CASE in.g_ack /\ job.kind # "G2M"
  <2>1. IsM2G(regs) /\ ~IsG2M(regs) /\ ~regs.to_host
    BY <1>4, <1>8
  <2>2. state' = "S_STEP" /\ beat' = beat /\ beats' = Append(beats, beat) /\ reads' = reads
    BY <1>4, <1>8, <2>1 DEF Eng!Gio
  <2>3. All(s, part, image) /\ beats' = BeatsOf(s, part.len) /\ reads' = ReadsOf(s)
    BY <1>3, <2>1, <2>2 DEF All, BeatsOf, ReadsOf, Nothing, Sending
  <2>4. Progress(s, "S_STEP", job, part, beat, image, beats', reads')
    BY <1>3, <2>3 DEF Progress, InA, InB
  <2>5. Asking("S_STEP", job, part)
    BY DEF Asking
  <2> QED BY <1>1, <1>2, <2>2, <2>4, <2>5 DEF There, Running, States
<1> QED BY <1>6, <1>7, <1>8

LEMMA StepGoes ==
    ASSUME Given, Here, Eng!Step, UNCHANGED Bus
    PROVE  There
<1>1. /\ state = "S_STEP" /\ state' = "S_CHECK"
      /\ UNCHANGED <<part, beat, cache, fault_code, image, beats, reads>>
      /\ Sampled(job) /\ CacheOk(cache) /\ DOMAIN part = {"len", "lane0", "n0", "for_b"}
      /\ fault_code = {} /\ Counting(job) /\ regs \in RegsType
  BY DEF Here, Running, Eng!Step, Given, Bus
<1>2. PICK s : Beside(s, job) /\ Progress(s, state, job, part, beat, image, beats, reads)
  BY <1>1 DEF Here, Running
<1>3. /\ job.bytes > 0 /\ PartOk(part, job) /\ All(s, part, image)
      /\ beats = BeatsOf(s, part.len) /\ reads = ReadsOf(s)
  BY <1>1, <1>2 DEF Progress
<1>4. PICK t : /\ Moved(t, s, part.len) /\ t.image = image /\ t.reads = ReadsOf(s)
               /\ t.beats = BeatsOf(s, part.len)
  BY <1>1, <1>2, <1>3, BeatDone
<1>5. part.len \in Nat /\ part.len > 0
  <2>1. part.len \in 1..QW
    BY <1>1, <1>3, PartIs
  <2> QED BY <2>1, Numbers
<1>6. /\ job.kind = "FILL" <=> IsFill(regs)
      /\ job.up = regs.up /\ DOMAIN job = JobFields
      /\ job.vaddr \in Addresses /\ job.vaddr \in Int /\ job.bytes \in Nat
  BY <1>1, Kinds, Numbers DEF Counting, Sampled, Addresses
<1>7. IsFill(regs) => (part.len = Word \/ (part.len = QW /\ regs.up))
  BY <1>3, <1>6 DEF PartOk, BeatOf
<1> DEFINE x == IF job.kind = "FILL" /\ ~job.up THEN -Word ELSE part.len
           v == (job.vaddr + x) % ASIZE
           n == IF job.bytes > part.len THEN job.bytes - part.len ELSE 0
<1>8. job' = [job EXCEPT !.vaddr = v, !.bytes = n]
  <2>1. Eng!Word = Word
    BY DEF Eng!Word, Word
  <2>2. (IF job.kind = "FILL" /\ ~job.up THEN job.vaddr - Word ELSE job.vaddr + part.len)
        = job.vaddr + x
    BY <1>5, <1>6, Numbers
  <2>3. job' = [job EXCEPT
                  !.vaddr = (IF job.kind = "FILL" /\ ~job.up THEN job.vaddr - Word
                             ELSE job.vaddr + part.len) % ASIZE,
                  !.bytes = n]
    BY <2>1 DEF Eng!Step
  <2> QED BY <2>2, <2>3
<1>9. x \in Int /\ (IsFill(regs) => x % Word = 0)
  <2>1. x \in Int
    BY <1>5, Numbers
  <2>2. (Word * 1) % Word = 0 /\ (Word * 2) % Word = 0 /\ (Word * (-1)) % Word = 0
        /\ Word * 1 = Word /\ Word * 2 = QW /\ Word * (-1) = -Word
    BY Multiple, Numbers
  <2> QED BY <1>7, <2>1, <2>2
<1>10. v \in Addresses /\ (IsFill(regs) /\ regs.xlate => v % Word = 0)
  <2>1. job.vaddr + x \in Int
    BY <1>6, <1>9
  <2>2. v \in Addresses
    BY <2>1, Wraps
  <2>3. ASSUME IsFill(regs), regs.xlate PROVE v % Word = 0
    <3>1. job.vaddr % Word = 0
      BY <1>1, <2>3 DEF Counting
    <3> HIDE DEF x
    <3> QED BY <1>6, <1>9, <2>3, <3>1, WordsStay
  <2> QED BY <2>2, <2>3
<1>11. t.mem = v
  <2>1. t.mem = (job.vaddr + (IF IsFill(regs) /\ ~regs.up THEN -part.len ELSE part.len)) % ASIZE
    BY <1>2, <1>4 DEF Moved, Beside
  <2>2. x = (IF IsFill(regs) /\ ~regs.up THEN -part.len ELSE part.len)
    BY <1>6, <1>7
  <2> QED BY <2>1, <2>2
<1>12. t.bytes = n /\ n \in Nat
  <2>1. t.bytes = IF job.bytes >= part.len THEN job.bytes - part.len ELSE 0
    BY <1>2, <1>4 DEF Moved, Beside
  <2> QED BY <1>5, <1>6, <2>1
<1> HIDE DEF v, n, x
<1>13. /\ DOMAIN job' = JobFields /\ job'.bytes = n /\ job'.vaddr = v /\ job'.zoom = job.zoom
       /\ job'.lines = job.lines /\ job'.kind = job.kind
       /\ job'.up = job.up /\ job'.xlate = job.xlate /\ job'.skip = job.skip
       /\ job'.width = job.width /\ job'.line_zoom = job.line_zoom /\ job'.stride = job.stride
  BY <1>6, <1>8 DEF JobFields
<1>14. Sampled(job') /\ Counting(job')
  BY <1>1, <1>10, <1>12, <1>13 DEF Sampled, Counting
<1>15. Beside(t, job') /\ Nothing(t, image, beats, reads)
  <2>1. t.image = [a \in Addresses |-> t.image[a]]
    BY <1>4 DEF Given
  <2> QED BY <1>2, <1>3, <1>4, <1>11, <1>12, <1>13, <2>1 DEF Beside, Nothing, Moved
<1>16. Progress(t, "S_CHECK", job', part, beat, image, beats, reads)
       /\ Asking("S_CHECK", job', part)
  BY <1>15 DEF Progress, InA, InB, Asking
<1> QED BY <1>1, <1>14, <1>15, <1>16 DEF There, Running, States

\* The address under translation, and what the cache says of it.
LEMMA WhereIs ==
    ASSUME Given, Here, state \in {"S_MEMA", "S_MEMB", "S_PTE"}
    PROVE  LET x == Where(state, job, part) IN
           /\ Eng!XlVaddr = x /\ x \in Addresses
           /\ InA(state, part) \/ InB(state, part)
           /\ Eng!CacheHit => Tr(x).fault = {} /\ (regs.to_host => cache.wrok)
           /\ Eng!CacheHit /\ regs.xlate => Tr(x).phys = cache.base + (x % PAGE)
           /\ Eng!XlMiss(regs.tlb) => Tr(x).fault = {"TLB_MISS"}
           /\ ~Eng!XlNeed => ~Eng!XlClean /\ Tr(x).fault = {} /\ Eng!MAddr = Tr(x).phys \div QW
           /\ Eng!XlNeed /\ ~Eng!XlMiss(regs.tlb) =>
                 regs.xlate /\ Hits(x) # {} /\ Mapping(x).valid
           /\ Eng!MemIsWrite <=> regs.to_host
<1> DEFINE x == Where(state, job, part)
<1>1. /\ Sampled(job) /\ CacheOk(cache) /\ Counting(job) /\ regs \in RegsType
      /\ DOMAIN part = {"len", "lane0", "n0", "for_b"}
  BY DEF Here, Running, Given
<1>2. Eng!XlVaddr = x
  BY DEF Eng!XlVaddr, Eng!OnB, Where, InB
<1>3. x \in Addresses
  <2>1. job.vaddr \in Addresses
    BY <1>1 DEF Sampled
  <2>2. Eng!NextQword(job.vaddr) \in Addresses
    <3>1. (job.vaddr \div QW) * QW + QW \in Int
      <4>1. job.vaddr \in Nat
        BY <2>1, Numbers DEF Addresses
      <4>2. job.vaddr \div QW \in Nat
        BY <4>1, Division, Numbers
      <4> DEFINE q == job.vaddr \div QW
      <4> HIDE DEF q
      <4>3. q \in Nat => q * QW + QW \in Int
        BY Numbers
      <4> QED BY <4>2, <4>3 DEF q
    <3> QED BY <3>1, Wraps DEF Eng!NextQword
  <2> QED BY <2>1, <2>2 DEF Where
<1>4. InA(state, part) \/ InB(state, part)
  BY DEF InA, InB
<1> HIDE DEF x
<1>5. Eng!CacheHit => Tr(x).fault = {} /\ (regs.to_host => cache.wrok)
                      /\ (regs.xlate => Tr(x).phys = cache.base + (x % PAGE))
  BY <1>1, <1>2, <1>3 DEF Eng!CacheHit, CacheOk
<1>6. /\ Eng!TlbHits(regs.tlb) = Hits(x) /\ Eng!TlbEntry(regs.tlb) = Mapping(x)
  <2>1. \A S : Eng!Min(S) = Min(S)
    BY DEF Eng!Min, Min
  <2>2. Eng!TlbHits(regs.tlb) = Hits(x)
    BY <1>2 DEF Eng!TlbHits, Hits
  <2> QED BY <2>1, <2>2 DEF Eng!TlbEntry, Mapping
<1>7. job.xlate = regs.xlate /\ regs.xlate \in BOOLEAN
  BY <1>1 DEF Sampled, RegsType
<1>8. Eng!MemIsWrite <=> regs.to_host
  BY <1>1, Kinds DEF Counting, Eng!MemIsWrite
<1>9. Eng!XlMiss(regs.tlb) => Tr(x).fault = {"TLB_MISS"}
  BY <1>6, <1>7, Translated DEF Eng!XlMiss, Eng!XlNeed
<1>10. Eng!XlNeed /\ ~Eng!XlMiss(regs.tlb) => regs.xlate /\ Hits(x) # {} /\ Mapping(x).valid
  BY <1>6, <1>7 DEF Eng!XlMiss, Eng!XlNeed
<1>11. ASSUME ~Eng!XlNeed
       PROVE  ~Eng!XlClean /\ Tr(x).fault = {} /\ Eng!MAddr = Tr(x).phys \div QW
  <2>1. CASE regs.xlate
    BY <1>2, <1>5, <1>7, <1>8, <1>11, <2>1 DEF Eng!XlNeed, Eng!XlClean, Eng!MAddr
  <2>2. CASE ~regs.xlate
    <3>1. Tr(x) = [phys |-> x, fault |-> {}]
      BY <2>2, Untranslated
    <3> QED BY <1>2, <1>7, <2>2, <3>1 DEF Eng!XlClean, Eng!MAddr
  <2> QED BY <2>1, <2>2
<1> QED BY <1>2, <1>3, <1>4, <1>5, <1>8, <1>9, <1>10, <1>11 DEF x

LEMMA PteGoes ==
    ASSUME Given, Here, NEW in, Eng!Pte(in), UNCHANGED Bus,
           in.m_ack => in.pte = PteOf(Where(state, job, part))
    PROVE  There
<1> DEFINE x == Where(state, job, part)
<1>1. /\ state = "S_PTE" /\ UNCHANGED <<job, part, beat, image, beats, reads>>
      /\ Sampled(job) /\ CacheOk(cache) /\ DOMAIN part = {"len", "lane0", "n0", "for_b"}
      /\ fault_code = {} /\ Counting(job) /\ regs \in RegsType /\ TablesOk
      /\ Asking(state, job, part)
      /\ image = [a \in Addresses |-> image[a]]
  BY DEF Here, Running, Eng!Pte, Given, Bus
<1>2. PICK s : Beside(s, job) /\ Progress(s, state, job, part, beat, image, beats, reads)
  BY <1>1 DEF Here, Running
<1>3. /\ Eng!XlVaddr = x /\ x \in Addresses /\ (Eng!MemIsWrite <=> regs.to_host)
      /\ InA(state, part) \/ InB(state, part)
  BY <1>1, WhereIs
<1>4. regs.xlate /\ Hits(x) # {} /\ Mapping(x).valid
  BY <1>1 DEF Asking, Sampled
<1> HIDE DEF x
<1>5. CASE ~in.m_ack
  <2>1. UNCHANGED <<state, cache, fault_code>>
    BY <1>5 DEF Eng!Pte
  <2> QED BY <1>1, <2>1 DEF Here, There, Running
<1>6. ASSUME in.m_ack, Tr(x).fault # {}, fault_code' = Tr(x).fault, state' = "S_DONE",
             cache' = cache
      PROVE  There
  <2>1. AtOutcome(job.vaddr, Tr(x).fault, image, beats, reads)
    <3>1. state \in States
      BY <1>1 DEF States
    <3> QED BY <1>1, <1>2, <1>3, <1>6, <3>1, BeatFaults DEF x
  <2> QED BY <1>1, <1>6, <2>1 DEF There, Running
<1>7. CASE in.m_ack /\ ~PteOf(x).valid
  <2>1. Tr(x).fault = {"FAULT"}
    BY <1>4, <1>7, Translated
  <2>2. fault_code' = {"FAULT"} /\ state' = "S_DONE" /\ cache' = cache
    BY <1>7 DEF Eng!Pte, Eng!Faults, x
  <2> QED BY <1>6, <1>7, <2>1, <2>2
<1>8. CASE in.m_ack /\ PteOf(x).valid /\ regs.to_host /\ ~PteOf(x).wrok
  <2>1. Tr(x).fault = {"CLEAN"}
    BY <1>4, <1>8, Translated
  <2>2. fault_code' = {"CLEAN"} /\ state' = "S_DONE" /\ cache' = cache
    BY <1>3, <1>8 DEF Eng!Pte, Eng!Faults, x
  <2> QED BY <1>6, <1>8, <2>1, <2>2
<1>9. CASE in.m_ack /\ PteOf(x).valid /\ ~(regs.to_host /\ ~PteOf(x).wrok)
  <2>1. /\ cache' = [valid |-> TRUE, tag |-> x \div PAGE,
                     base |-> PteOf(x).frame * PAGE, wrok |-> PteOf(x).wrok]
        /\ state' = (IF part.for_b THEN "S_MEMB" ELSE "S_MEMA") /\ fault_code' = fault_code
    BY <1>3, <1>9 DEF Eng!Pte, x
  <2>2. CacheOk(cache')
    <3>1. ASSUME NEW a \in Addresses, a \div PAGE = x \div PAGE
          PROVE  /\ Tr(a).fault = {} /\ Tr(a).phys = PteOf(x).frame * PAGE + (a % PAGE)
      <4>1. Hits(a) = Hits(x) /\ Mapping(a) = Mapping(x) /\ PteOf(a) = PteOf(x)
        BY <1>3, <3>1, PageTranslation
      <4>2. Tr(a) = [phys |-> PteOf(a).frame * PAGE + (a % PAGE), fault |-> {}]
        BY <1>4, <1>9, <4>1, Translated
      <4> QED BY <4>1, <4>2
    <3> QED BY <1>9, <2>1, <3>1 DEF CacheOk
  <2>3. Progress(s, state', job, part, beat, image, beats, reads)
    BY <1>1, <1>2, <2>1 DEF Progress, InA, InB
  <2>4. Asking(state', job, part)
    BY <2>1 DEF Asking
  <2> QED BY <1>1, <1>2, <2>1, <2>2, <2>3, <2>4 DEF There, Running, States
<1> QED BY <1>5, <1>7, <1>8, <1>9

-----------------------------------------------------------------------------
(* A half of a beat at memory.                                             *)

\* The bytes i0 to i1 - 1 of the beat at m are in doubleword q, byte i in
\* lane i + d.
InDword(m, i0, i1, q, d) ==
    \A i \in i0..(i1 - 1) :
        /\ At(m, i).fault = {} /\ At(m, i).phys \in Addresses
        /\ At(m, i).phys \div QW = q /\ At(m, i).phys % QW = i + d

LEMMA HalfTranslates ==
    ASSUME NEW m, NEW i0 \in Nat, NEW i1 \in Nat, NEW q, NEW d,
           InDword(m, i0, i1, q, d), Translates(m, i0)
    PROVE  Translates(m, i1)
<1> SUFFICES ASSUME NEW i \in 0..(i1 - 1) PROVE At(m, i).fault = {}
  BY DEF Translates
<1>1. i \in 0..(i0 - 1) \/ i \in i0..(i1 - 1)
  OBVIOUS
<1> QED BY <1>1 DEF Translates, InDword

LEMMA HalfWritten ==
    ASSUME NEW m \in Addresses, NEW i0 \in Nat, NEW i1 \in Nat, i0 <= i1, i1 <= QW,
           NEW q, NEW d \in Int, InDword(m, i0, i1, q, d), Translates(m, i0), TablesOk,
           NEW img, NEW old, NEW r, NEW b, NEW new,
           Lays(img, old, i0, m, r), \A i \in 0..(i1 - 1) : b[i] = Byte(r, i),
           new = [a \in Addresses |->
                    IF a \div QW = q /\ a % QW \in (i0 + d)..(i1 - 1 + d)
                    THEN b[(a % QW) - d] ELSE img[a]]
    PROVE  Lays(new, old, i1, m, r)
<1> DEFINE In(a) == a \div QW = q /\ a % QW \in (i0 + d)..(i1 - 1 + d)
<1>1. \A a \in Addresses : new[a] = IF In(a) THEN b[(a % QW) - d] ELSE img[a]
  OBVIOUS
<1>2. new = [a \in Addresses |-> new[a]]
  OBVIOUS
<1>3. QW \in Nat
  BY Numbers
<1>4. ASSUME NEW a \in Addresses, In(a)
      PROVE  \E i \in i0..(i1 - 1) : At(m, i).phys = a /\ (a % QW) - d = i
  <2> DEFINE l == a % QW
             i == l - d
  <2>1. l \in Int /\ l \in (i0 + d)..(i1 - 1 + d)
    BY <1>4
  <2>2. i \in i0..(i1 - 1) /\ l = i + d
    <3> HIDE DEF l
    <3> QED BY <2>1
  <2> HIDE DEF i
  <2>3. At(m, i).phys \in Addresses /\ At(m, i).phys \div QW = a \div QW
        /\ At(m, i).phys % QW = a % QW
    BY <1>4, <2>2 DEF InDword
  <2>4. At(m, i).phys = a
    BY <2>3, SamePlace
  <2> QED BY <2>2, <2>4 DEF i
<1>5. ASSUME NEW i \in 0..(i1 - 1) PROVE new[At(m, i).phys] = Byte(r, i)
  <2> DEFINE a == At(m, i).phys
  <2>1. CASE i >= i0
    <3>1. i \in i0..(i1 - 1) /\ i \in Int
      BY <2>1
    <3>2. a \in Addresses /\ a \div QW = q /\ a % QW = i + d
      BY <3>1 DEF InDword
    <3> HIDE DEF a
    <3>3. i + d \in (i0 + d)..(i1 - 1 + d) /\ (i + d) - d = i
      BY <3>1
    <3>4. In(a) /\ (a % QW) - d = i
      BY <3>2, <3>3
    <3> HIDE DEF In
    <3>5. new[a] = b[i]
      BY <1>1, <3>2, <3>4
    <3> QED BY <3>5 DEF a
  <2>2. CASE i < i0
    <3>1. i \in 0..(i0 - 1) /\ i \in 0..(QW - 1) /\ At(m, i).fault = {}
      BY <1>3, <2>2 DEF Translates
    <3>2. a \in Addresses
      BY <3>1, Lanes
    <3>3. ~In(a)
      <4> SUFFICES ASSUME In(a) PROVE FALSE
        OBVIOUS
      <4>1. PICK k \in i0..(i1 - 1) : At(m, k).phys = a
        <5> HIDE DEF a, In
        <5> QED BY <1>4, <3>2
      <4>2. k # i /\ k \in 0..(QW - 1) /\ At(m, k).fault = {}
        BY <1>3, <2>2 DEF InDword
      <4> QED BY <3>1, <4>1, <4>2, Apart
    <3>4. new[a] = img[a]
      <4> HIDE DEF In, a
      <4> QED BY <1>1, <3>2, <3>3
    <3>5. img[a] = Byte(r, i)
      BY <3>1 DEF Lays
    <3> QED BY <3>4, <3>5
  <2> QED BY <2>1, <2>2
<1>6. ASSUME NEW a \in Addresses, \A i \in 0..(i1 - 1) : At(m, i).phys # a
      PROVE  new[a] = old[a]
  <2>1. ~In(a)
    <3> HIDE DEF In
    <3> QED BY <1>4, <1>6
  <2>2. new[a] = img[a]
    <3> HIDE DEF In
    <3> QED BY <1>1, <2>1
  <2>3. img[a] = old[a]
    <3>1. \A i \in 0..(i0 - 1) : i \in 0..(i1 - 1)
      OBVIOUS
    <3> QED BY <1>6, <3>1 DEF Lays
  <2> QED BY <2>2, <2>3
<1> HIDE DEF In
<1> QED BY <1>2, <1>5, <1>6 DEF Lays

LEMMA HalfRead ==
    ASSUME NEW m, NEW i0 \in Nat, NEW i1 \in Nat, NEW q, NEW d \in Int,
           InDword(m, i0, i1, q, d), NEW i \in i0..(i1 - 1)
    PROVE  At(m, i).phys = q * QW + (i + d)
<1> DEFINE a == At(m, i).phys
<1>1. a \in Addresses /\ a \div QW = q /\ a % QW = i + d
  BY DEF InDword
<1> HIDE DEF a
<1>2. a \in Nat
  BY <1>1, Numbers DEF Addresses
<1>3. a \div QW \in Nat /\ a = QW * (a \div QW) + (a % QW)
  BY <1>2, Division, Numbers
<1>4. q \in Nat /\ a = QW * q + (i + d)
  BY <1>1, <1>3
<1>5. a = q * QW + (i + d)
  BY <1>4, Numbers
<1> QED BY <1>5 DEF a

\* Where the bytes of a half are, and what the machine has of its lanes.
LEMMA HalfPlace ==
    ASSUME Given, Here, state \in {"S_MEMA", "S_MEMB"}, ~Eng!XlNeed,
           NEW s, Beside(s, job), Progress(s, state, job, part, beat, image, beats, reads)
    PROVE  LET i0 == IF state = "S_MEMA" THEN 0 ELSE part.n0
               i1 == IF state = "S_MEMA" THEN part.n0 ELSE part.len
               d == IF state = "S_MEMA" THEN part.lane0 ELSE -part.n0
           IN  /\ i0 \in Nat /\ i1 \in Nat /\ i0 <= i1 /\ i1 <= QW /\ i1 <= part.len
               /\ d \in Int
               /\ InDword(s.mem, i0, i1, Eng!MAddr, d)
               /\ Translates(s.mem, i0)
               /\ Eng!MLanes = (i0 + d)..(i1 - 1 + d)
               /\ \A l \in Int : Eng!MWdata(l) = beat[l - d]
               /\ regs.to_host => Lays(image, s.image, i0, s.mem, s.reads)
               /\ \A i \in i0..(i1 - 1) : i + d \in Bytes
<1> DEFINE m == s.mem
           l == m % QW
           q == Eng!MAddr
           x == Where(state, job, part)
           i0 == IF state = "S_MEMA" THEN 0 ELSE part.n0
           i1 == IF state = "S_MEMA" THEN part.n0 ELSE part.len
           d == IF state = "S_MEMA" THEN part.lane0 ELSE -part.n0
<1>1. /\ Sampled(job) /\ Counting(job) /\ job.bytes > 0 /\ PartOk(part, job)
      /\ regs \in RegsType /\ TablesOk /\ m = job.vaddr /\ m \in Addresses
  BY DEF Here, Running, Given, Progress, Beside, Sampled
<1>2. /\ part.len \in 1..QW /\ part.n0 \in 1..part.len /\ part.len \in Nat /\ part.n0 \in Nat
      /\ \A i \in 0..(part.len - 1) : i < part.n0 <=> l + i < QW
      /\ part.len > part.n0 => part.n0 = QW - l
      /\ l \in Nat /\ l < QW /\ part.lane0 = l
  BY <1>1, PartIs DEF PartOk
<1>3. x \in Addresses /\ Tr(x).fault = {} /\ q = Tr(x).phys \div QW
  BY WhereIs
<1>0. /\ state = "S_MEMA" => i0 = 0 /\ i1 = part.n0 /\ d = l
      /\ state = "S_MEMB" => i0 = part.n0 /\ i1 = part.len /\ d = -part.n0
  BY <1>2
<1> HIDE DEF x, q, l, i0, i1, d
<1>4. CASE state = "S_MEMA"
  <2>1. x = m
    BY <1>1, <1>4 DEF x, Where, InB
  <2>2. ASSUME NEW i \in 0..(part.n0 - 1)
        PROVE  /\ At(m, i).fault = {} /\ At(m, i).phys \in Addresses
               /\ At(m, i).phys \div QW = q /\ At(m, i).phys % QW = i + l
               /\ i + l \in Bytes
    <3>1. i \in Nat /\ l + i < QW /\ l + i = i + l
      <4>1. i \in 0..(part.len - 1) /\ i < part.n0
        BY <1>2, Numbers
      <4> QED BY <1>2, <4>1, Numbers
    <3>2. (m % QW) + i < QW
      BY <3>1 DEF l
    <3>3. /\ At(m, i).fault = Tr(m).fault
          /\ Tr(m).fault = {} => /\ At(m, i).phys \in Addresses
                                 /\ At(m, i).phys \div QW = Tr(m).phys \div QW
                                 /\ At(m, i).phys % QW = (m % QW) + i
      BY <1>1, <3>1, <3>2, FirstHalf
    <3>4. i + l \in Bytes
      BY <1>2, <3>1, Numbers DEF Bytes
    <3> QED BY <1>3, <2>1, <3>1, <3>3, <3>4 DEF l
  <2>3. i0 = 0 /\ i1 = part.n0 /\ d = l
    BY <1>0, <1>4
  <2>4. InDword(m, i0, i1, q, d) /\ \A i \in i0..(i1 - 1) : i + d \in Bytes
    BY <2>2, <2>3 DEF InDword
  <2>5. Translates(m, i0)
    BY <2>3 DEF Translates
  <2>6. Eng!MLanes = l..(l + part.n0 - 1) /\ \A k \in Int : Eng!MWdata(k) = beat[k - l]
    BY <1>2, <1>4 DEF Eng!MLanes, Eng!MWdata
  <2>7. i0 + d = l /\ i1 - 1 + d = l + part.n0 - 1 /\ i0 \in Nat /\ i1 \in Nat /\ i0 <= i1
        /\ i1 <= QW /\ i1 <= part.len /\ d \in Int
    BY <1>2, <2>3, Numbers
  <2>8. regs.to_host => Lays(image, s.image, i0, m, s.reads)
    <3>1. image = s.image
      BY <1>4 DEF Progress, InA
    <3>2. image = [a \in Addresses |-> image[a]]
      BY DEF Given
    <3> QED BY <2>3, <3>1, <3>2 DEF Lays
  <2>9. Eng!MLanes = (i0 + d)..(i1 - 1 + d) /\ \A k \in Int : Eng!MWdata(k) = beat[k - d]
    BY <2>3, <2>6, <2>7
  <2> QED BY <2>4, <2>5, <2>7, <2>8, <2>9 DEF i0, i1, d, q
<1>5. CASE state = "S_MEMB"
  <2>0. AHalf(s, part, beat, image)
    BY <1>5 DEF Progress, InB
  <2>1. x = Eng!NextQword(m) /\ part.len > part.n0 /\ part.n0 = QW - l /\ d = -part.n0
    BY <1>0, <1>1, <1>2, <1>5, <2>0 DEF x, Where, InB, AHalf
  <2>2. ASSUME NEW i \in part.n0..(part.len - 1)
        PROVE  /\ At(m, i).fault = {} /\ At(m, i).phys \in Addresses
               /\ At(m, i).phys \div QW = q /\ At(m, i).phys % QW = i + d
               /\ i + d \in Bytes
    <3>1. i \in Nat /\ i < QW /\ l + i >= QW /\ l + i - QW = i + d
      <4>1. i \in 0..(part.len - 1) /\ ~(i < part.n0)
        BY <1>2, Numbers
      <4> QED BY <1>2, <2>1, <4>1, Numbers
    <3>2. (m % QW) + i >= QW
      BY <3>1 DEF l
    <3>3. /\ At(m, i).fault = Tr(Eng!NextQword(m)).fault
          /\ Tr(Eng!NextQword(m)).fault = {} =>
                 /\ At(m, i).phys \in Addresses
                 /\ At(m, i).phys \div QW = Tr(Eng!NextQword(m)).phys \div QW
                 /\ At(m, i).phys % QW = (m % QW) + i - QW
      BY <1>1, <3>1, <3>2, SecondHalf
    <3>4. i + d \in Bytes
      BY <1>2, <3>1, Numbers DEF Bytes
    <3> QED BY <1>3, <2>1, <3>1, <3>3, <3>4 DEF l
  <2>3. i0 = part.n0 /\ i1 = part.len /\ d = -part.n0
    BY <1>0, <1>5
  <2>4. InDword(m, i0, i1, q, d) /\ \A i \in i0..(i1 - 1) : i + d \in Bytes
    BY <2>2, <2>3 DEF InDword
  <2>5. Translates(m, i0) /\ (regs.to_host => Lays(image, s.image, i0, m, s.reads))
    BY <2>0, <2>3 DEF AHalf
  <2>6. Eng!MLanes = 0..(part.len - part.n0 - 1) /\ \A k \in Int : Eng!MWdata(k) = beat[part.n0 + k]
    BY <1>5 DEF Eng!MLanes, Eng!MWdata
  <2>7. i0 + d = 0 /\ i1 - 1 + d = part.len - part.n0 - 1 /\ i0 \in Nat /\ i1 \in Nat /\ i0 <= i1
        /\ i1 <= QW /\ i1 <= part.len /\ d \in Int
    BY <1>2, <2>1, <2>3, Numbers
  <2>8. Eng!MLanes = (i0 + d)..(i1 - 1 + d)
    BY <2>6, <2>7
  <2>9. ASSUME NEW k \in Int PROVE Eng!MWdata(k) = beat[k - d]
    <3>1. k - d = part.n0 + k
      BY <1>2, <2>3
    <3> QED BY <2>6, <3>1
  <2> QED BY <2>4, <2>5, <2>7, <2>8, <2>9 DEF i0, i1, d, q
<1> QED BY <1>4, <1>5

\* Memory takes or gives the half.
LEMMA HalfDone ==
    ASSUME Given, Here, NEW in, Eng!MemHalf(in), in.m_ack, ~Eng!XlNeed,
           in.rdata = [l \in Bytes |-> image[Eng!MAddr * QW + l]],
           UNCHANGED <<beats, reads>>,
           image' = [a \in Addresses |->
                       IF Eng!MemIsWrite /\ a \div QW = Eng!MAddr /\ a % QW \in Eng!MLanes
                       THEN Eng!MWdata(a % QW) ELSE image[a]]
    PROVE  There
<1>1. /\ state \in {"S_MEMA", "S_MEMB"} /\ UNCHANGED <<job, cache, beats, reads>>
      /\ Sampled(job) /\ CacheOk(cache) /\ DOMAIN part = {"len", "lane0", "n0", "for_b"}
      /\ fault_code = {} /\ Counting(job) /\ regs \in RegsType /\ TablesOk
      /\ image = [a \in Addresses |-> image[a]]
  BY DEF Here, Running, Eng!MemHalf, Given
<1>2. PICK s : Beside(s, job) /\ Progress(s, state, job, part, beat, image, beats, reads)
  BY <1>1 DEF Here, Running
<1> DEFINE m == s.mem
           q == Eng!MAddr
           i0 == IF state = "S_MEMA" THEN 0 ELSE part.n0
           i1 == IF state = "S_MEMA" THEN part.n0 ELSE part.len
           d == IF state = "S_MEMA" THEN part.lane0 ELSE -part.n0
<1>3. /\ i0 \in Nat /\ i1 \in Nat /\ i0 <= i1 /\ i1 <= QW /\ i1 <= part.len
      /\ d \in Int
      /\ InDword(m, i0, i1, q, d)
      /\ Translates(m, i0)
      /\ Eng!MLanes = (i0 + d)..(i1 - 1 + d)
      /\ \A l \in Int : Eng!MWdata(l) = beat[l - d]
      /\ regs.to_host => Lays(image, s.image, i0, m, s.reads)
      /\ \A i \in i0..(i1 - 1) : i + d \in Bytes
  BY <1>1, <1>2, HalfPlace
<1>4. /\ ~Eng!XlClean /\ (Eng!MemIsWrite <=> regs.to_host)
  BY <1>1, WhereIs
<1>5. /\ state = "S_MEMA" => i0 = 0 /\ i1 = part.n0 /\ d = part.lane0
      /\ state = "S_MEMB" => i0 = part.n0 /\ i1 = part.len /\ d = -part.n0
  OBVIOUS
<1>6. /\ job.bytes > 0 /\ PartOk(part, job) /\ m = job.vaddr /\ m \in Addresses
      /\ beats = s.beats /\ reads = ReadsOf(s)
      /\ Filled(s, part, beat)
  BY <1>1, <1>2 DEF Progress, InA, InB, AHalf, Beside, Sampled
<1>7. /\ part.len \in 1..QW /\ part.n0 \in 1..part.len /\ part.len \in Nat /\ part.n0 \in Nat
      /\ \A i \in 0..(part.len - 1) : i < part.n0 <=> (m % QW) + i < QW
      /\ part.lane0 = m % QW /\ m % QW \in Nat
  BY <1>1, <1>6, PartIs DEF PartOk
<1>8. /\ job.kind = "FILL" <=> IsFill(regs)
      /\ job.kind = "M2G" <=> IsM2G(regs)
      /\ IsFill(regs) => ~IsM2G(regs) /\ ~IsG2M(regs)
      /\ IsM2G(regs) => ~IsG2M(regs)
      /\ regs.to_host <=> ~IsM2G(regs)
      /\ regs.to_host \in BOOLEAN
  BY <1>1, Kinds DEF Counting, RegsType
<1>9. /\ part' = part /\ fault_code' = {}
      /\ state' = IF state = "S_MEMA" /\ part.len > part.n0 THEN "S_MEMB"
                  ELSE IF job.kind = "M2G" THEN "S_GIO" ELSE "S_STEP"
      /\ beat' = IF Eng!MemIsWrite THEN beat ELSE Eng!Gathered(in.rdata)
  <2>1. ~Eng!XlMiss(in.tlb)
    BY DEF Eng!XlMiss
  <2> QED BY <1>1, <1>4, <2>1 DEF Eng!MemHalf, Eng!AfterHalf
<1>10. Translates(m, i1)
  BY <1>3, HalfTranslates
<1> HIDE DEF i0, i1, d, m, q
<1>13. i0 \in Nat /\ i1 \in Nat /\ i0 <= i1 /\ i1 <= QW /\ i1 <= part.len /\ d \in Int
  BY <1>3
<1>14. InDword(m, i0, i1, q, d) /\ Translates(m, i0)
  BY <1>3
<1>15. \A i \in 0..(i1 - 1) : i \in 0..(part.len - 1)
  <2>1. part.len \in Nat
    BY <1>7
  <2> QED BY <1>13, <2>1
<1>11. CASE regs.to_host
  <2>1. beat' = beat /\ ~IsM2G(regs) /\ job.kind # "M2G"
    BY <1>4, <1>8, <1>9, <1>11
  <2>2. Lays(image', s.image, i1, m, s.reads)
    <3>1. image' = [a \in Addresses |->
                      IF a \div QW = q /\ a % QW \in (i0 + d)..(i1 - 1 + d)
                      THEN beat[(a % QW) - d] ELSE image[a]]
      <4>1. ASSUME NEW a \in Addresses PROVE Eng!MWdata(a % QW) = beat[(a % QW) - d]
        <5>1. a % QW \in Int
          BY Numbers DEF Addresses
        <5> QED BY <1>3, <5>1
      <4> QED BY <1>3, <1>4, <1>11, <4>1 DEF q
    <3>2. \A i \in 0..(i1 - 1) : beat[i] = Byte(s.reads, i)
      BY <1>6, <1>11, <1>15 DEF Filled
    <3>3. Lays(image, s.image, i0, m, s.reads)
      BY <1>3, <1>11
    <3> QED BY <1>1, <1>6, <1>13, <1>14, <3>1, <3>2, <3>3, HalfWritten
  <2>3. CASE state = "S_MEMA" /\ part.len > part.n0
    <3>1. state' = "S_MEMB" /\ i1 = part.n0
      BY <1>5, <1>9, <2>3
    <3>2. AHalf(s, part, beat, image')
      BY <1>10, <1>11, <2>2, <2>3, <3>1 DEF AHalf, m
    <3>3. Progress(s, "S_MEMB", job, part, beat, image', beats, reads)
      BY <1>6, <3>2 DEF Progress, InA, InB
    <3>4. Asking("S_MEMB", job, part)
      BY DEF Asking
    <3> QED BY <1>1, <1>2, <1>9, <2>1, <3>1, <3>3, <3>4 DEF There, Running, States
  <2>4. CASE ~(state = "S_MEMA" /\ part.len > part.n0)
    <3>1. state' = "S_STEP" /\ i1 = part.len
      BY <1>1, <1>5, <1>7, <1>9, <2>1, <2>4
    <3>2. All(s, part, image') /\ beats = BeatsOf(s, part.len)
      BY <1>6, <1>10, <1>11, <2>1, <2>2, <3>1 DEF All, BeatsOf, m
    <3>3. Progress(s, "S_STEP", job, part, beat, image', beats, reads)
      BY <1>6, <3>2 DEF Progress, InA, InB
    <3>4. Asking("S_STEP", job, part)
      BY DEF Asking
    <3> QED BY <1>1, <1>2, <1>9, <2>1, <3>1, <3>3, <3>4 DEF There, Running, States
  <2> QED BY <2>3, <2>4
<1>12. CASE ~regs.to_host
  <2>1. /\ beat' = Eng!Gathered(in.rdata) /\ IsM2G(regs) /\ ~IsFill(regs) /\ ~IsG2M(regs)
        /\ job.kind = "M2G"
    BY <1>4, <1>8, <1>9, <1>12
  <2>2. image' = image
    <3>1. ~Eng!MemIsWrite
      BY <1>4, <1>12
    <3> QED BY <1>1, <3>1
  <2>3. image = s.image
    BY <1>1, <1>2, <1>12 DEF Progress, InA, InB, AHalf
  <2>4. beat' = [i \in Bytes |-> IF i < i1 THEN image[At(m, i).phys] ELSE Zero]
    <3>1. beat' = [i \in Bytes |->
             CASE i >= part.len -> Zero
               [] i < part.len /\ state = "S_MEMA" ->
                     IF part.lane0 + i < QW THEN in.rdata[part.lane0 + i] ELSE Zero
               [] i < part.len /\ state = "S_MEMB" ->
                     IF i < part.n0 THEN beat[i] ELSE in.rdata[i - part.n0]]
      BY <2>1 DEF Eng!Gathered, Eng!Bytes, Bytes, Eng!Zero, Zero
    <3>2. ASSUME NEW i \in i0..(i1 - 1) PROVE in.rdata[i + d] = image[At(m, i).phys]
      <4>1. i + d \in Bytes
        BY <1>3
      <4>2. in.rdata[i + d] = image[q * QW + (i + d)]
        BY <4>1 DEF q
      <4>3. At(m, i).phys = q * QW + (i + d)
        BY <1>13, <1>14, HalfRead
      <4> QED BY <4>2, <4>3
    <3>3. ASSUME NEW i \in Bytes
          PROVE  (CASE i >= part.len -> Zero
                    [] i < part.len /\ state = "S_MEMA" ->
                          IF part.lane0 + i < QW THEN in.rdata[part.lane0 + i] ELSE Zero
                    [] i < part.len /\ state = "S_MEMB" ->
                          IF i < part.n0 THEN beat[i] ELSE in.rdata[i - part.n0])
                 = IF i < i1 THEN image[At(m, i).phys] ELSE Zero
      <4>0. i \in Int /\ 0 <= i /\ i \in Nat
        BY Numbers DEF Bytes
      <4>1. CASE i >= part.len
        BY <1>3, <1>7, <4>0, <4>1
      <4>2. CASE i < part.len /\ state = "S_MEMA"
        <5>1. i0 = 0 /\ i1 = part.n0 /\ d = part.lane0 /\ i \in 0..(part.len - 1)
          BY <1>5, <1>7, <4>0, <4>2
        <5>2. i < part.n0 <=> part.lane0 + i < QW
          BY <1>7, <5>1
        <5>3. i < part.n0 => in.rdata[part.lane0 + i] = image[At(m, i).phys]
          <6>1. part.lane0 + i = i + d
            BY <1>3, <4>0, <5>1
          <6> QED BY <1>7, <3>2, <4>0, <5>1, <6>1
        <5> QED BY <1>7, <4>0, <4>2, <5>1, <5>2, <5>3
      <4>3. CASE i < part.len /\ state = "S_MEMB"
        <5>1. i0 = part.n0 /\ i1 = part.len /\ d = -part.n0
          BY <1>5, <4>3
        <5>2. i < part.n0 => beat[i] = image[At(m, i).phys]
          <6>1. \A k \in 0..(part.n0 - 1) : beat[k] = image[At(m, k).phys]
            BY <1>2, <1>12, <4>3 DEF Progress, InB, AHalf, m
          <6> QED BY <1>7, <4>0, <6>1
        <5>3. ~(i < part.n0) => in.rdata[i - part.n0] = image[At(m, i).phys]
          <6>1. i - part.n0 = i + d
            BY <1>7, <4>0, <5>1
          <6> QED BY <1>7, <3>2, <4>0, <4>3, <5>1, <6>1
        <5> QED BY <1>7, <4>0, <4>3, <5>1, <5>2, <5>3
      <4> QED BY <1>1, <1>7, <4>0, <4>1, <4>2, <4>3
    <3> QED BY <3>1, <3>3
  <2>5. CASE state = "S_MEMA" /\ part.len > part.n0
    <3>1. state' = "S_MEMB" /\ i1 = part.n0
      BY <1>5, <1>9, <2>5
    <3>2. \A i \in 0..(part.n0 - 1) : beat'[i] = image[At(m, i).phys]
      <4>1. \A i \in 0..(part.n0 - 1) : i \in Bytes /\ i < part.n0
        BY <1>7, Numbers DEF Bytes
      <4> QED BY <2>4, <3>1, <4>1
    <3>3. AHalf(s, part, beat', image)
      BY <1>10, <1>12, <2>3, <2>5, <3>1, <3>2 DEF AHalf, m
    <3>4. Progress(s, "S_MEMB", job, part, beat', image, beats, reads)
      BY <1>6, <1>12, <3>3 DEF Progress, InA, InB, Filled
    <3>5. Asking("S_MEMB", job, part)
      BY DEF Asking
    <3> QED BY <1>1, <1>2, <1>9, <2>2, <3>1, <3>4, <3>5 DEF There, Running, States
  <2>6. CASE ~(state = "S_MEMA" /\ part.len > part.n0)
    <3>1. state' = "S_GIO" /\ i1 = part.len
      BY <1>1, <1>5, <1>7, <1>9, <2>1, <2>6
    <3>2. beat' = Packed(s.image, part.len, m)
      BY <2>1, <2>3, <2>4, <3>1 DEF Packed, Place
    <3>3. Sending(s, part, beat')
      BY <1>10, <3>1, <3>2 DEF Sending, m
    <3>4. Nothing(s, image, beats, reads)
      BY <1>6, <2>1, <2>3 DEF Nothing, ReadsOf
    <3>5. Progress(s, "S_GIO", job, part, beat', image, beats, reads)
      BY <1>6, <2>1, <3>3, <3>4 DEF Progress, InA, InB
    <3>6. Asking("S_GIO", job, part)
      BY DEF Asking
    <3> QED BY <1>1, <1>2, <1>9, <2>2, <3>1, <3>5, <3>6 DEF There, Running, States
  <2> QED BY <2>5, <2>6
<1> QED BY <1>8, <1>11, <1>12

LEMMA MemHalfGoes ==
    ASSUME Given, Here, NEW in, Eng!MemHalf(in), in.tlb = regs.tlb, in.m_ack => Eng!MReq,
           in.rdata = [l \in Bytes |-> image[Eng!MAddr * QW + l]],
           UNCHANGED <<beats, reads>>,
           image' = [a \in Addresses |->
                       IF /\ in.m_ack /\ Eng!MemIsWrite
                          /\ a \div QW = Eng!MAddr /\ a % QW \in Eng!MLanes
                       THEN Eng!MWdata(a % QW) ELSE image[a]]
    PROVE  There
<1> DEFINE x == Where(state, job, part)
<1>1. /\ state \in {"S_MEMA", "S_MEMB"} /\ UNCHANGED <<job, cache, beats, reads>>
      /\ Sampled(job) /\ CacheOk(cache) /\ DOMAIN part = {"len", "lane0", "n0", "for_b"}
      /\ fault_code = {} /\ Counting(job) /\ regs \in RegsType /\ TablesOk
      /\ image = [a \in Addresses |-> image[a]] /\ Asking(state, job, part)
  BY DEF Here, Running, Eng!MemHalf, Given
<1>2. PICK s : Beside(s, job) /\ Progress(s, state, job, part, beat, image, beats, reads)
  BY <1>1 DEF Here, Running
<1>3. ~in.m_ack => image' = image
  BY <1>1
<1>4. /\ InA(state, part) \/ InB(state, part)
      /\ Eng!XlMiss(regs.tlb) => Tr(x).fault = {"TLB_MISS"}
      /\ ~Eng!XlNeed => ~Eng!XlClean
      /\ Eng!XlNeed /\ ~Eng!XlMiss(regs.tlb) => regs.xlate /\ Hits(x) # {} /\ Mapping(x).valid
  BY <1>1, WhereIs
<1>5. Eng!XlNeed => ~Eng!XlClean /\ ~in.m_ack
  <2>1. Eng!XlNeed => ~Eng!MReq
    BY <1>1 DEF Eng!MReq
  <2> QED BY <2>1 DEF Eng!XlNeed, Eng!XlClean
<1>6. CASE Eng!XlNeed /\ Eng!XlMiss(regs.tlb)
  <2>1. state' = "S_DONE" /\ fault_code' = {"TLB_MISS"} /\ part' = part
    BY <1>5, <1>6 DEF Eng!MemHalf, Eng!Faults
  <2>2. AtOutcome(job.vaddr, Tr(x).fault, image, beats, reads)
    <3>1. state \in States /\ Tr(x).fault # {}
      BY <1>1, <1>4, <1>6 DEF States
    <3> QED BY <1>1, <1>2, <1>4, <3>1, BeatFaults
  <2> QED BY <1>1, <1>3, <1>4, <1>5, <1>6, <2>1, <2>2 DEF There, Running
<1>7. CASE Eng!XlNeed /\ ~Eng!XlMiss(regs.tlb)
  <2>1. state' = "S_PTE" /\ beat' = beat /\ fault_code' = {}
        /\ part' = [part EXCEPT !.for_b = (state = "S_MEMB")]
    BY <1>1, <1>5, <1>7 DEF Eng!MemHalf
  <2>2. /\ DOMAIN part' = {"len", "lane0", "n0", "for_b"} /\ (part'.for_b <=> state = "S_MEMB")
        /\ part'.len = part.len /\ part'.n0 = part.n0 /\ part'.lane0 = part.lane0
    BY <1>1, <2>1
  <2>3. /\ InA("S_PTE", part') <=> InA(state, part)
        /\ InB("S_PTE", part') <=> InB(state, part)
    BY <1>1, <2>2 DEF InA, InB
  <2>4. Where("S_PTE", job, part') = x
    BY <2>3 DEF Where
  <2>5. Asking("S_PTE", job, part')
    <3>1. job.xlate
      BY <1>1, <1>4, <1>7 DEF Sampled
    <3> QED BY <1>4, <1>7, <2>4, <3>1 DEF Asking
  <2>6. Progress(s, "S_PTE", job, part', beat, image, beats, reads)
    <3>1. PartOk(part, job) /\ job.bytes > 0
      BY <1>1, <1>2 DEF Progress
    <3>2. PartOk(part', job)
      BY <2>2, <3>1 DEF PartOk
    <3>3. Filled(s, part, beat) => Filled(s, part', beat)
      BY <2>2 DEF Filled
    <3>4. AHalf(s, part, beat, image) => AHalf(s, part', beat, image)
      BY <2>2 DEF AHalf
    <3> QED BY <1>2, <2>3, <3>1, <3>2, <3>3, <3>4 DEF Progress
  <2> QED BY <1>1, <1>2, <1>3, <1>5, <1>7, <2>1, <2>2, <2>5, <2>6 DEF There, Running, States
<1>8. CASE ~Eng!XlNeed /\ in.m_ack
  <2>1. image' = [a \in Addresses |->
                    IF Eng!MemIsWrite /\ a \div QW = Eng!MAddr /\ a % QW \in Eng!MLanes
                    THEN Eng!MWdata(a % QW) ELSE image[a]]
    BY <1>8
  <2> QED BY <1>8, <2>1, HalfDone
<1>9. CASE ~Eng!XlNeed /\ ~in.m_ack
  <2>1. UNCHANGED <<state, beat, part, fault_code>>
    <3>1. ~Eng!XlMiss(in.tlb)
      BY <1>9 DEF Eng!XlMiss
    <3> QED BY <1>4, <1>9, <3>1 DEF Eng!MemHalf
  <2> QED BY <1>1, <1>2, <1>3, <1>9, <2>1 DEF Here, There, Running
<1> QED BY <1>6, <1>7, <1>8, <1>9

-----------------------------------------------------------------------------
(* A write of MEMADR while a transfer runs.                                *)

\* Two descriptors that a transfer under way cannot tell apart.
Alike(d, e) ==
    /\ d.fill = e.fill /\ d.to_host = e.to_host /\ d.up = e.up /\ d.xlate = e.xlate
    /\ d.width = e.width /\ d.line_zoom = e.line_zoom /\ d.stride = e.stride

LEMMA SameTranslation ==
    ASSUME NEW d, NEW e, Alike(d, e), NEW tlb, NEW t, NEW a, NEW w
    PROVE  Translate(d, tlb, t, a, w) = Translate(e, tlb, t, a, w)
  BY DEF Translate, Alike

LEMMA SameRound ==
    ASSUME NEW d, NEW e, Alike(d, e), NEW tlb, NEW t, NEW s
    PROVE  LoopStep(d, tlb, t, s) = LoopStep(e, tlb, t, s)
<1>1. /\ IsFill(d) <=> IsFill(e)
      /\ IsM2G(d) <=> IsM2G(e)
      /\ IsG2M(d) <=> IsG2M(e)
      /\ d.to_host = e.to_host /\ d.up = e.up /\ d.width = e.width
      /\ d.line_zoom = e.line_zoom /\ d.stride = e.stride
  BY DEF Alike, IsFill, IsM2G, IsG2M
<1> DEFINE len(c) == IF IsFill(c) THEN Word ELSE Min({s.bytes, QW})
           at(c, j) == Translate(c, tlb, t, (s.mem + j) % ASIZE, c.to_host)
           bad(c) == {j \in 0..(len(c) - 1) : at(c, IF IsFill(c) THEN 0 ELSE j).fault # {}}
           got(c) == IF bad(c) = {} THEN len(c) ELSE Min(bad(c))
           phys(c, j) == IF IsFill(c) THEN (at(c, 0).phys + j) % ASIZE ELSE at(c, j).phys
           byte(c, j) == IF IsFill(c) THEN FillByte(j) ELSE GioByte(s.reads, j)
           moved(c) == IF IsFill(c) /\ bad(c) # {} THEN 0
                       ELSE IF IsFill(c) /\ ~c.up THEN -len(c) ELSE got(c)
           laid(c) == [a \in Addresses |->
                          IF \E j \in 0..(got(c) - 1) : phys(c, j) = a
                          THEN byte(c, CHOOSE j \in 0..(got(c) - 1) : phys(c, j) = a)
                          ELSE s.image[a]]
           packed(c) == [j \in Bytes |-> IF j < len(c) THEN s.image[phys(c, j)] ELSE Zero]
           fault(c) == at(c, IF IsFill(c) THEN 0 ELSE got(c)).fault
<1>2. len(d) = len(e)
  BY <1>1
<1>3. \A j : at(d, j) = at(e, j)
  BY <1>1, SameTranslation
<1> HIDE DEF len, at
<1>4. bad(d) = bad(e)
  BY <1>1, <1>2, <1>3
<1> HIDE DEF bad
<1>5. got(d) = got(e) /\ moved(d) = moved(e)
  BY <1>1, <1>2, <1>4
<1>6. (\A j : phys(d, j) = phys(e, j)) /\ (\A j : byte(d, j) = byte(e, j))
  BY <1>1, <1>3
<1>7. fault(d) = fault(e)
  BY <1>1, <1>3, <1>5
<1> HIDE DEF got, moved, phys, byte, fault
<1>8. laid(d) = laid(e)
  <2>1. ASSUME NEW a
        PROVE  /\ (\E j \in 0..(got(d) - 1) : phys(d, j) = a)
                  <=> (\E j \in 0..(got(e) - 1) : phys(e, j) = a)
               /\ (CHOOSE j \in 0..(got(d) - 1) : phys(d, j) = a)
                  = (CHOOSE j \in 0..(got(e) - 1) : phys(e, j) = a)
    BY <1>5, <1>6
  <2>2. ASSUME NEW a \in Addresses PROVE laid(d)[a] = laid(e)[a]
    BY <1>6, <2>1
  <2> QED BY <2>2
<1>9. packed(d) = packed(e)
  BY <1>2, <1>6
<1> HIDE DEF laid, packed
<1>10. Move(d, tlb, t, s) = Move(e, tlb, t, s)
  <2> DEFINE after(c) == [s EXCEPT
                            !.mem = (s.mem + moved(c)) % ASIZE,
                            !.image = IF c.to_host THEN laid(c) ELSE s.image,
                            !.reads = IF IsG2M(c) THEN s.reads + 1 ELSE s.reads]
             move(c) == IF bad(c) # {} THEN [after(c) EXCEPT !.in = "out", !.fault = fault(c)]
                        ELSE [after(c) EXCEPT
                                !.bytes = IF @ >= len(c) THEN @ - len(c) ELSE 0,
                                !.beats = IF IsM2G(c) THEN Append(@, packed(c)) ELSE @]
  <2>1. ASSUME NEW c PROVE Move(c, tlb, t, s) = move(c)
    BY DEF Move, len, at, bad, got, moved, phys, byte, laid, packed, fault
  <2>2. after(d) = after(e)
    BY <1>1, <1>5, <1>8
  <2> HIDE DEF after
  <2>3. move(d) = move(e)
    BY <1>1, <1>2, <1>4, <1>7, <1>9, <2>2
  <2> HIDE DEF move
  <2> QED BY <2>1, <2>3
<1> QED BY <1>1, <1>10 DEF LoopStep

\* The registers differ in what the transfer has taken over.
Alongside ==
    /\ regs \in RegsType /\ regs' \in RegsType /\ Alike(regs', regs) /\ regs'.tlb = regs.tlb
    /\ table' = table /\ want' = want

LEMMA SameTerms ==
    ASSUME Alongside
    PROVE  /\ IsFill(regs') <=> IsFill(regs)
           /\ IsM2G(regs') <=> IsM2G(regs)
           /\ IsG2M(regs') <=> IsG2M(regs)
           /\ Supported(regs') <=> Supported(regs)
           /\ \A a : Tr(a)' = Tr(a)
           /\ \A m, j : At(m, j)' = At(m, j)
           /\ \A m, j : Place(m, j)' = Place(m, j)
           /\ \A r, j : Byte(r, j)' = Byte(r, j)
           /\ \A s : Leads(s)' <=> Leads(s)
<1>1. /\ IsFill(regs') <=> IsFill(regs)
      /\ IsM2G(regs') <=> IsM2G(regs)
      /\ IsG2M(regs') <=> IsG2M(regs)
  BY DEF Alongside, Alike, IsFill, IsM2G, IsG2M
<1>2. Supported(regs') <=> Supported(regs)
  BY <1>1 DEF Supported
<1>3. ASSUME NEW a PROVE Tr(a)' = Tr(a)
  <2>1. Translate(regs', regs.tlb, table, a, regs.to_host) = Tr(a)
    BY SameTranslation DEF Alongside, Tr
  <2>2. Tr(a)' = Translate(regs', regs.tlb, table, a, regs.to_host)
    BY DEF Alongside, Alike, Tr
  <2> QED BY <2>1, <2>2
<1>4. ASSUME NEW m, NEW j PROVE At(m, j)' = At(m, j)
  BY <1>3 DEF At
<1>5. ASSUME NEW m, NEW j PROVE Place(m, j)' = Place(m, j)
  BY <1>1, <1>4 DEF Place
<1>6. ASSUME NEW r, NEW j PROVE Byte(r, j)' = Byte(r, j)
  BY <1>1 DEF Byte
<1>7. ASSUME NEW s PROVE Leads(s)' <=> Leads(s)
  <2>1. ASSUME NEW t PROVE Round(t)' = Round(t)
    <3>1. LoopStep(regs', regs.tlb, table, t) = Round(t)
      BY SameRound DEF Alongside, Round
    <3> QED BY <3>1 DEF Alongside, Round
  <2> QED BY <2>1 DEF Leads, LeadsTo, Alongside
<1> QED BY <1>1, <1>2, <1>3, <1>4, <1>5, <1>6, <1>7

LEMMA Frame == ASSUME There, Alongside PROVE Here'
<1>1. /\ IsFill(regs') <=> IsFill(regs)
      /\ IsM2G(regs') <=> IsM2G(regs)
      /\ IsG2M(regs') <=> IsG2M(regs)
      /\ Supported(regs') <=> Supported(regs)
      /\ \A a : Tr(a)' = Tr(a)
      /\ \A m, j : At(m, j)' = At(m, j)
      /\ \A m, j : Place(m, j)' = Place(m, j)
      /\ \A r, j : Byte(r, j)' = Byte(r, j)
      /\ \A s : Leads(s)' <=> Leads(s)
  BY SameTerms
<1>2. /\ regs'.up = regs.up /\ regs'.xlate = regs.xlate /\ regs'.width = regs.width
      /\ regs'.line_zoom = regs.line_zoom /\ regs'.stride = regs.stride
      /\ regs'.to_host = regs.to_host /\ regs'.tlb = regs.tlb /\ want' = want
  BY DEF Alongside, Alike
<1>3. Sampled(job)'
  <2>1. Sampled(job')
    BY DEF There, Running
  <2> QED BY <1>1, <1>2, <2>1 DEF Sampled
<1>4. CacheOk(cache)'
  <2>1. CacheOk(cache')
    BY DEF There, Running
  <2> QED BY <1>1, <1>2, <2>1 DEF CacheOk
<1>5. CASE state' = "S_DONE"
  <2>1. AtOutcome(job'.vaddr, fault_code', image', beats', reads')
        /\ DOMAIN part' = {"len", "lane0", "n0", "for_b"}
    BY <1>5 DEF There, Running
  <2>2. AtOutcome(job.vaddr, fault_code, image, beats, reads)'
    BY <1>1, <1>2, <2>1 DEF AtOutcome
  <2> QED BY <1>3, <1>4, <1>5, <2>1, <2>2 DEF Here, Running
<1>6. CASE state' # "S_DONE"
  <2>1. /\ state' \in States /\ fault_code' = {} /\ Counting(job')
        /\ Asking(state', job', part') /\ DOMAIN part' = {"len", "lane0", "n0", "for_b"}
    BY <1>6 DEF There, Running
  <2>2. PICK s : /\ Beside(s, job')
                 /\ Progress(s, state', job', part', beat', image', beats', reads')
    BY <1>6 DEF There, Running
  <2>3. Counting(job)'
    BY <1>1, <1>2, <2>1 DEF Counting
  <2>4. Asking(state, job, part)'
    BY <1>2, <2>1 DEF Asking, Hits, Mapping, Where, InB
  <2>5. Beside(s, job)'
    BY <1>1, <2>2 DEF Beside
  <2>6. /\ \A n : BeatsOf(s, n)' = BeatsOf(s, n)
        /\ ReadsOf(s)' = ReadsOf(s)
    BY <1>1 DEF BeatsOf, ReadsOf, Packed
  <2>7. AHalf(s, part', beat', image') => AHalf(s, part, beat, image)'
    BY <1>1, <1>2 DEF AHalf, Translates, Lays
  <2>8. All(s, part', image') => All(s, part, image)'
    BY <1>1, <1>2 DEF All, Translates, Lays
  <2>9. Filled(s, part', beat') => Filled(s, part, beat)'
    BY <1>1, <1>2 DEF Filled
  <2>10. Sending(s, part', beat') => Sending(s, part, beat)'
    BY <1>1, <1>2 DEF Sending, Translates, Packed
  <2>11. Progress(s, state, job, part, beat, image, beats, reads)'
    BY <1>1, <2>2, <2>6, <2>7, <2>8, <2>9, <2>10
       DEF Progress, Nothing, PartOk, BeatOf, InA, InB, BeatsOf, Packed
  <2> QED BY <1>3, <1>4, <1>6, <2>1, <2>3, <2>4, <2>5, <2>11 DEF Here, Running, States
<1> QED BY <1>5, <1>6

-----------------------------------------------------------------------------
(* The engine among its inputs.                                            *)

LEMMA InputsAre ==
    ASSUME NEW ack
    PROVE  LET in == Inputs(ack) IN
           /\ in.start = start_q /\ in.d = regs /\ in.tlb = regs.tlb
           /\ in.m_ack = (ack /\ Eng!MReq) /\ in.g_ack = (ack /\ Eng!GReq)
           /\ in.rdata = [l \in Bytes |-> image[Eng!MAddr * QW + l]]
           /\ in.g_rdata = [i \in Bytes |-> GioByte(reads, i)]
           /\ state = "S_PTE" => in.pte = PteOf(Eng!XlVaddr)
<1>1. \A S : Eng!Min(S) = Min(S)
  BY DEF Eng!Min, Min
<1>2. Eng!TlbHits(regs.tlb) = Hits(Eng!XlVaddr)
  BY DEF Eng!TlbHits, Hits
<1>3. Eng!TlbEntry(regs.tlb) = Mapping(Eng!XlVaddr)
  BY <1>1, <1>2 DEF Eng!TlbEntry, Mapping
<1>4. Eng!PteAddr(regs.tlb).base = Mapping(Eng!XlVaddr).base
      /\ Eng!PteAddr(regs.tlb).vpn = (Eng!XlVaddr % SEG) \div PAGE
  BY <1>3 DEF Eng!PteAddr
<1>5. state = "S_PTE" => Inputs(ack).pte = PteOf(Eng!XlVaddr)
  BY <1>4 DEF Inputs, PteOf
<1> QED BY <1>5 DEF Inputs

\* A clock of a transfer.
LEMMA WorkGoes ==
    ASSUME Given, Here, NEW ack \in BOOLEAN, state # "S_IDLE", state # "S_DONE",
           Eng!Clock(Inputs(ack)), Memory(ack), GioBus(ack, FALSE)
    PROVE  There /\ image' = [a \in Addresses |-> image'[a]]
<1> DEFINE in == Inputs(ack)
<1>1. /\ in.start = start_q /\ in.d = regs /\ in.tlb = regs.tlb
      /\ in.m_ack = (ack /\ Eng!MReq) /\ in.g_ack = (ack /\ Eng!GReq)
      /\ in.rdata = [l \in Bytes |-> image[Eng!MAddr * QW + l]]
      /\ in.g_rdata = [i \in Bytes |-> GioByte(reads, i)]
      /\ state = "S_PTE" => in.pte = PteOf(Eng!XlVaddr)
  BY InputsAre
<1>2. Eng!Clock(in)
  OBVIOUS
<1> HIDE DEF in
<1>3. image' = [a \in Addresses |->
                  IF /\ ack /\ Eng!MReq /\ state # "S_PTE" /\ Eng!MemIsWrite
                     /\ a \div QW = Eng!MAddr /\ a % QW \in Eng!MLanes
                  THEN Eng!MWdata(a % QW) ELSE image[a]]
  BY DEF Memory
<1>4. image' = [a \in Addresses |-> image'[a]]
  <2> DEFINE g(a) == IF /\ ack /\ Eng!MReq /\ state # "S_PTE" /\ Eng!MemIsWrite
                        /\ a \div QW = Eng!MAddr /\ a % QW \in Eng!MLanes
                     THEN Eng!MWdata(a % QW) ELSE image[a]
  <2>1. image' = [a \in Addresses |-> g(a)]
    BY <1>3
  <2> HIDE DEF g
  <2> QED BY <2>1
<1>5. /\ beats' = (IF ack /\ Eng!GReq /\ job.kind = "M2G" THEN Append(beats, beat) ELSE beats)
      /\ reads' = (IF ack /\ Eng!GReq /\ job.kind = "G2M" THEN reads + 1 ELSE reads)
  BY DEF GioBus
<1>6. state \notin {"S_MEMA", "S_MEMB"} => image' = image
  <2>1. image = [a \in Addresses |-> image[a]]
    BY DEF Given
  <2>2. ASSUME state \notin {"S_MEMA", "S_MEMB"} PROVE ~(Eng!MReq /\ state # "S_PTE")
    BY <2>2 DEF Eng!MReq
  <2> QED BY <1>3, <2>1, <2>2
<1>7. state # "S_GIO" => beats' = beats /\ reads' = reads
  BY <1>5 DEF Eng!GReq
<1>8. There
  <2>1. CASE Eng!Idle(in)
    BY <2>1 DEF Eng!Idle
  <2>2. CASE Eng!Check
    <3>1. UNCHANGED Bus
      BY <1>6, <1>7, <2>2 DEF Eng!Check, Bus
    <3> QED BY <2>2, <3>1, CheckGoes
  <2>3. CASE Eng!Beat
    <3>1. UNCHANGED Bus
      BY <1>6, <1>7, <2>3 DEF Eng!Beat, Bus
    <3> QED BY <2>3, <3>1, BeatGoes
  <2>4. CASE Eng!MemHalf(in)
    <3>1. state \in {"S_MEMA", "S_MEMB"} /\ state # "S_PTE" /\ UNCHANGED <<beats, reads>>
      BY <1>7, <2>4 DEF Eng!MemHalf
    <3>2. image' = [a \in Addresses |->
                      IF /\ in.m_ack /\ Eng!MemIsWrite
                         /\ a \div QW = Eng!MAddr /\ a % QW \in Eng!MLanes
                      THEN Eng!MWdata(a % QW) ELSE image[a]]
      BY <1>1, <1>3, <3>1
    <3> QED BY <1>1, <2>4, <3>1, <3>2, MemHalfGoes
  <2>5. CASE Eng!Pte(in)
    <3>1. state = "S_PTE" /\ UNCHANGED Bus
      BY <1>6, <1>7, <2>5 DEF Eng!Pte, Bus
    <3>2. Eng!XlVaddr = Where(state, job, part)
      BY <3>1, WhereIs
    <3>3. in.m_ack => in.pte = PteOf(Where(state, job, part))
      BY <1>1, <3>1, <3>2
    <3> QED BY <2>5, <3>1, <3>3, PteGoes
  <2>6. CASE Eng!Gio(in)
    <3>1. state = "S_GIO" /\ image' = image
      BY <1>6, <2>6 DEF Eng!Gio
    <3>2. /\ beats' = (IF in.g_ack /\ job.kind = "M2G" THEN Append(beats, beat) ELSE beats)
          /\ reads' = (IF in.g_ack /\ job.kind = "G2M" THEN reads + 1 ELSE reads)
      BY <1>1, <1>5
    <3> QED BY <1>1, <2>6, <3>1, <3>2, GioGoes
  <2>7. CASE Eng!Step
    <3>1. UNCHANGED Bus
      BY <1>6, <1>7, <2>7 DEF Eng!Step, Bus
    <3> QED BY <2>7, <3>1, StepGoes
  <2>8. CASE Eng!Finish
    BY <2>8 DEF Eng!Finish
  <2> QED BY <1>2, <2>1, <2>2, <2>3, <2>4, <2>5, <2>6, <2>7, <2>8 DEF Eng!Clock
<1> QED BY <1>4, <1>8

\* And its last.
LEMMA DoneGoes ==
    ASSUME Given, Here, NEW ack \in BOOLEAN, state = "S_DONE",
           Eng!Clock(Inputs(ack)), Memory(ack), GioBus(ack, FALSE)
    PROVE  /\ done'.up /\ done'.fault = fault_code /\ done'.memadr = job.vaddr
           /\ (done'.wb <=> Supported(regs)) /\ UNCHANGED Bus /\ job' = job
           /\ Sampled(job) /\ AtOutcome(job.vaddr, fault_code, image, beats, reads)
           /\ UNCHANGED <<cache, part>> /\ DOMAIN cache = {"valid", "tag", "base", "wrok"}
           /\ DOMAIN part = {"len", "lane0", "n0", "for_b"}
<1>1. Eng!Finish
  BY DEF Eng!Clock, Eng!Idle, Eng!Check, Eng!Beat, Eng!MemHalf, Eng!Pte, Eng!Gio, Eng!Step
<1>2. /\ Sampled(job) /\ AtOutcome(job.vaddr, fault_code, image, beats, reads) /\ CacheOk(cache)
      /\ DOMAIN part = {"len", "lane0", "n0", "for_b"}
  BY DEF Here, Running
<1>3. /\ done'.up /\ done'.fault = fault_code /\ done'.memadr = job.vaddr
      /\ (done'.wb <=> ~job.skip) /\ job' = job /\ UNCHANGED <<cache, part>>
  BY <1>1 DEF Eng!Finish
<1>4. done'.wb <=> Supported(regs)
  BY <1>2, <1>3 DEF Sampled
<1>5. UNCHANGED Bus
  <2>1. image = [a \in Addresses |-> image[a]]
    BY DEF Given
  <2>2. ~Eng!MReq /\ ~Eng!GReq
    BY DEF Eng!MReq, Eng!GReq
  <2>3. image' = image
    BY <2>1, <2>2 DEF Memory
  <2> QED BY <2>2, <2>3 DEF GioBus, Bus
<1> QED BY <1>2, <1>3, <1>4, <1>5 DEF CacheOk

-----------------------------------------------------------------------------
(* A transfer from its start to its end.                                   *)

Shaped ==
    /\ DOMAIN cache = {"valid", "tag", "base", "wrok"}
    /\ DOMAIN part = {"len", "lane0", "n0", "for_b"}
    /\ image = [a \in Addresses |-> image[a]]

RestOk == Startable /\ Shaped
StartOk ==
    /\ Startable /\ Shaped /\ beats = <<>> /\ want.in = "out"
    /\ \E s : Begins(s, image, reads) /\ Leads(s)
WorkOk == Given /\ Rounds(regs) <= FUEL /\ Here
EndOk ==
    /\ RestartLosesNothing /\ Shaped
    /\ regs \in RegsType /\ TablesOk /\ Rounds(regs) <= FUEL
    /\ (done.wb <=> Supported(regs)) /\ done.memadr \in Addresses

\* Whatever the phase, the reference is with the engine.
TransferInv ==
    /\ ToldInv
    /\ Resting => RestOk
    /\ Starting => StartOk
    /\ Working => WorkOk
    /\ Ending => EndOk

\* The engine takes the descriptor.
LEMMA IdleStarts ==
    ASSUME StartOk, NEW in, Eng!Idle(in), in.start, in.d = regs, UNCHANGED Bus
    PROVE  There
<1>1. /\ regs \in RegsType /\ TablesOk /\ Shaped /\ beats = <<>> /\ want.in = "out"
      /\ regs.lines = 0 \/ ~Supported(regs) \/ Legal(regs)
      /\ UNCHANGED <<image, beats, reads>>
  BY DEF StartOk, Startable, Bus
<1>2. PICK s : Begins(s, image, reads) /\ Leads(s)
  BY DEF StartOk
<1>3. /\ Eng!IsFill(regs) <=> IsFill(regs)
      /\ Eng!IsM2G(regs) <=> IsM2G(regs)
      /\ Eng!Supported(regs) <=> Supported(regs)
  BY DEF Eng!Supported, Supported, Eng!IsFill, IsFill, Eng!IsM2G, IsM2G, Eng!IsG2M, IsG2M
<1>4. job' = [kind |-> CASE IsFill(regs) -> "FILL" [] IsM2G(regs) -> "M2G" [] OTHER -> "G2M",
              up |-> regs.up, xlate |-> regs.xlate, skip |-> ~Supported(regs),
              lines |-> regs.lines, width |-> regs.width, line_zoom |-> regs.line_zoom,
              stride |-> regs.stride, zoom |-> regs.zoom, bytes |-> regs.bytes,
              vaddr |-> regs.memadr]
  BY <1>3 DEF Eng!Idle
<1>5. /\ fault_code' = {} /\ cache' = [cache EXCEPT !.valid = FALSE]
      /\ part' = [part EXCEPT !.for_b = FALSE]
      /\ state' = IF ~Supported(regs) \/ regs.lines = 0 THEN "S_DONE" ELSE "S_CHECK"
  BY <1>3 DEF Eng!Idle
<1>6. Sampled(job')
  <2>1. /\ DOMAIN job' = JobFields
        /\ job'.kind = (CASE IsFill(regs) -> "FILL" [] IsM2G(regs) -> "M2G" [] OTHER -> "G2M")
        /\ job'.up = regs.up /\ job'.xlate = regs.xlate /\ (job'.skip <=> ~Supported(regs))
        /\ job'.width = regs.width /\ job'.line_zoom = regs.line_zoom
        /\ job'.stride = regs.stride /\ job'.vaddr = regs.memadr
    <3> DEFINE k == CASE IsFill(regs) -> "FILL" [] IsM2G(regs) -> "M2G" [] OTHER -> "G2M"
               u == ~Supported(regs)
    <3>1. job' = [kind |-> k, up |-> regs.up, xlate |-> regs.xlate, skip |-> u,
                  lines |-> regs.lines, width |-> regs.width, line_zoom |-> regs.line_zoom,
                  stride |-> regs.stride, zoom |-> regs.zoom, bytes |-> regs.bytes,
                  vaddr |-> regs.memadr]
      BY <1>4
    <3> HIDE DEF k, u
    <3>2. /\ DOMAIN job' = JobFields /\ job'.kind = k /\ job'.up = regs.up
          /\ job'.xlate = regs.xlate /\ job'.skip = u /\ job'.width = regs.width
          /\ job'.line_zoom = regs.line_zoom /\ job'.stride = regs.stride
          /\ job'.vaddr = regs.memadr
      BY <3>1 DEF JobFields
    <3> QED BY <3>2 DEF k, u
  <2>2. regs.memadr \in Addresses
    BY <1>1 DEF RegsType
  <2> QED BY <2>1, <2>2 DEF Sampled
<1>7. job'.vaddr = regs.memadr /\ job'.lines = regs.lines /\ job'.zoom = regs.zoom
      /\ job'.bytes = regs.bytes
  BY <1>4
<1>8. CacheOk(cache')
  BY <1>1, <1>5 DEF CacheOk, Shaped
<1>9. DOMAIN part' = {"len", "lane0", "n0", "for_b"}
  BY <1>1, <1>5 DEF Shaped
<1>10. CASE ~Supported(regs) \/ regs.lines = 0
  <2>1. want.image = image /\ want.beats = <<>> /\ want.reads = reads /\ want.fault = {}
        /\ want.mem = regs.memadr
    BY <1>1, <1>2, <1>10, NoLines
  <2>2. AtOutcome(job'.vaddr, {}, image, beats, reads)
    BY <1>1, <1>7, <2>1 DEF AtOutcome
  <2> QED BY <1>1, <1>5, <1>6, <1>8, <1>9, <1>10, <2>2 DEF There, Running
<1>11. CASE Supported(regs) /\ regs.lines # 0
  <2>1. /\ regs.lines \in Nat /\ regs.lines > 0 /\ regs.zoom \in Nat /\ regs.zoom > 0
        /\ regs.bytes \in Nat /\ regs.line_zoom > 0
        /\ IsFill(regs) /\ regs.xlate =>
              regs.memadr % Word = 0 /\ regs.width % Word = 0 /\ regs.stride % Word = 0
    BY <1>1, <1>11 DEF Legal, RegsType
  <2>2. PICK t : /\ DOMAIN t = RefFields /\ Leads(t) /\ t.in = "bytes"
                 /\ t.lines = regs.lines - 1 /\ t.zoom = regs.zoom - 1
                 /\ t.bytes = regs.bytes /\ t.mem = regs.memadr
                 /\ Same(t, s, Data)
    BY <1>1, <1>2, <1>11, <2>1, FirstLine
  <2>3. Counting(job')
    <3>1. job'.width = regs.width /\ job'.stride = regs.stride
      BY <1>6 DEF Sampled
    <3> QED BY <1>7, <1>11, <2>1 DEF Counting
  <2>4. Beside(t, job') /\ Nothing(t, image, beats, reads)
    <3>1. t.image = image /\ t.beats = beats /\ t.reads = reads /\ t.fault = {}
      BY <1>1, <1>2, <2>2 DEF Same, Data, Begins
    <3> QED BY <1>1, <1>7, <2>2, <3>1 DEF Beside, Nothing, Shaped
  <2>5. Progress(t, "S_CHECK", job', part', beat', image, beats, reads)
        /\ Asking("S_CHECK", job', part')
    BY <2>4 DEF Progress, InA, InB, Asking
  <2> QED BY <1>1, <1>5, <1>6, <1>8, <1>9, <1>11, <2>3, <2>4, <2>5 DEF There, Running, States
<1> QED BY <1>10, <1>11

\* What a clock of the model may write, and what it does with the rest.
Allowed(w, starts) ==
    /\ w.reg \in {"none", "CAUSE", "MEMADR", "DESCRIPTOR"}
    /\ w.reg = "CAUSE" => w.value = {}
    /\ w.reg = "MEMADR" => w.value \in Addresses /\ run.running
    /\ w.reg # "DESCRIPTOR" => table' = table
    /\ w.reg = "DESCRIPTOR" =>
          /\ ~run.running
          /\ w.value \in RegsType /\ Legal(w.value) /\ Rounds(w.value) <= FUEL
          /\ \A i \in DOMAIN w.value.tlb :
                w.value.xlate => table'[w.value.tlb[i].base] \in Fragment
    /\ w # NoWrite => ~gap /\ ~starts
    /\ starts => /\ ~gap /\ ~run.running
                 /\ want' = Outcome(regs, regs.tlb, table, image, reads, FUEL)
    /\ ~starts => want' = want

\* The registers after it.
Poked(w) ==
    IF w.reg = "MEMADR" THEN [regs EXCEPT !.memadr = w.value]
    ELSE IF w.reg = "DESCRIPTOR" THEN w.value ELSE regs

LEMMA RegsAre ==
    ASSUME NEW w, NEW starts, Clock(w, starts),
           w.reg \in {"none", "CAUSE", "MEMADR", "DESCRIPTOR"}
    PROVE  regs' = IF done.up /\ done.wb
                   THEN [Poked(w) EXCEPT !.memadr = done.memadr, !.lines = 0,
                                         !.zoom = 0, !.bytes = 0]
                   ELSE Poked(w)
<1> DEFINE written == Written(w)
           started == IF start_q THEN [written EXCEPT !.run = [run EXCEPT !.running = TRUE]]
                      ELSE written
           m == Ended(started)
<1>1. regs' = m.regs
  BY DEF Clock, Registers
<1>2. DOMAIN written = {"regs", "cause", "run", "int"} /\ written.regs = Poked(w)
  BY DEF Written, Poked
<1> HIDE DEF written
<1>3. started.regs = Poked(w)
  BY <1>2
<1> HIDE DEF started
<1>4. CASE ~done.up
  BY <1>1, <1>3, <1>4 DEF Ended
<1>5. CASE done.up
  <2>1. m.regs = IF done.wb
                 THEN [started.regs EXCEPT !.memadr = done.memadr, !.lines = 0,
                                           !.zoom = 0, !.bytes = 0]
                 ELSE started.regs
    BY <1>5 DEF Ended
  <2> HIDE DEF m
  <2> QED BY <1>1, <1>3, <1>5, <2>1
<1> QED BY <1>4, <1>5

\* A write of MEMADR, or none, leaves the rest of the descriptor.
LEMMA PokeLeaves ==
    ASSUME regs \in RegsType, NEW w, w.reg # "DESCRIPTOR", w.reg = "MEMADR" => w.value \in Addresses
    PROVE  /\ Poked(w) \in RegsType /\ Alike(Poked(w), regs) /\ Poked(w).tlb = regs.tlb
           /\ Poked(w).lines = regs.lines /\ Poked(w).zoom = regs.zoom
           /\ Poked(w).bytes = regs.bytes /\ Rounds(Poked(w)) = Rounds(regs)
<1>1. CASE w.reg = "MEMADR"
  <2> DEFINE v == w.value
  <2>1. Poked(w) = [regs EXCEPT !.memadr = v] /\ v \in Addresses
    BY <1>1 DEF Poked
  <2> HIDE DEF v
  <2>2. /\ Poked(w) \in RegsType /\ Alike(Poked(w), regs) /\ Poked(w).tlb = regs.tlb
        /\ Poked(w).lines = regs.lines /\ Poked(w).zoom = regs.zoom
        /\ Poked(w).bytes = regs.bytes
    BY <2>1 DEF RegsType, Alike
  <2> QED BY <2>2 DEF Rounds, Alike
<1>2. CASE w.reg # "MEMADR"
  <2>1. Poked(w) = regs
    BY <1>2 DEF Poked
  <2> QED BY <2>1 DEF Alike
<1> QED BY <1>1, <1>2

\* The engine at rest.
LEMMA IdleClock ==
    ASSUME ToldInv, state = "S_IDLE", Shaped, NEW ack, NEW starts,
           Eng!Clock(Inputs(ack)), Memory(ack), GioBus(ack, starts)
    PROVE  /\ Eng!Idle(Inputs(ack))
           /\ image' = image /\ reads' = reads
           /\ beats' = IF starts THEN <<>> ELSE beats
           /\ ~start_q => Shaped' /\ state' = "S_IDLE"
<1>1. Eng!Idle(Inputs(ack))
  BY DEF Eng!Clock, Eng!Finish, Eng!Check, Eng!Beat, Eng!MemHalf, Eng!Pte, Eng!Gio, Eng!Step
<1>2. ~Eng!MReq /\ ~Eng!GReq
  BY DEF Eng!MReq, Eng!GReq
<1>3. image' = image
  <2>1. image = [a \in Addresses |-> image[a]]
    BY DEF Shaped
  <2> QED BY <1>2, <2>1 DEF Memory
<1>4. reads' = reads /\ beats' = IF starts THEN <<>> ELSE beats
  BY <1>2 DEF GioBus
<1>5. ASSUME ~start_q PROVE Shaped' /\ state' = "S_IDLE"
  <2>1. ~Inputs(ack).start
    BY <1>5 DEF Inputs
  <2>2. UNCHANGED <<state, part, cache>>
    BY <1>1, <2>1 DEF Eng!Idle
  <2> QED BY <1>3, <2>2 DEF Shaped
<1> QED BY <1>1, <1>3, <1>4, <1>5

\* Nothing under way: the descriptor is as the driver laid it out.
LEMMA RestClock ==
    ASSUME ToldInv, Resting, RestOk, NEW w, NEW starts \in BOOLEAN,
           Clock(w, starts), Allowed(w, starts)
    PROVE  RestOk' /\ (starts => StartOk')
<1>1. PICK ack \in BOOLEAN :
         Eng!Clock(Inputs(ack)) /\ Memory(ack) /\ GioBus(ack, starts)
  BY DEF Clock
<1>2. state = "S_IDLE" /\ ~start_q /\ ~done.up /\ ~run.running /\ Shaped /\ Startable
  BY DEF Resting, RestOk
<1>3. /\ image' = image /\ reads' = reads
      /\ beats' = IF starts THEN <<>> ELSE beats
      /\ Shaped'
  BY <1>1, <1>2, IdleClock
<1>4. regs' = IF w.reg = "DESCRIPTOR" THEN w.value ELSE regs
  BY <1>2, RegsAre DEF Allowed, Poked
<1>5. Startable'
  <2>1. CASE w.reg = "DESCRIPTOR"
    <3>1. /\ regs' = w.value /\ w.value \in RegsType /\ Legal(w.value) /\ Rounds(w.value) <= FUEL
          /\ \A i \in DOMAIN w.value.tlb :
                w.value.xlate => table'[w.value.tlb[i].base] \in Fragment
      BY <1>4, <2>1 DEF Allowed
    <3>2. regs'.tlb \in UTlb
      BY <3>1 DEF RegsType
    <3>3. TablesOk'
      BY <3>1, <3>2 DEF TablesOk
    <3> QED BY <3>1, <3>3 DEF Startable
  <2>2. CASE w.reg # "DESCRIPTOR"
    <3>1. regs' = regs /\ table' = table
      BY <1>4, <2>2 DEF Allowed
    <3>2. TablesOk'
      BY <1>2, <3>1 DEF TablesOk, Startable
    <3> QED BY <1>2, <3>1, <3>2 DEF Startable
  <2> QED BY <2>1, <2>2
<1>6. ASSUME starts PROVE StartOk'
  <2>1. regs' = regs /\ table' = table /\ beats' = <<>>
        /\ want' = Outcome(regs, regs.tlb, table, image, reads, FUEL)
    <3>1. w = NoWrite
      BY <1>6 DEF Allowed
    <3> QED BY <1>3, <1>4, <1>6, <3>1 DEF Allowed, NoWrite
  <2>2. PICK s : Begins(s, image, reads)
                 /\ LeadsTo(s, Outcome(regs, regs.tlb, table, image, reads, FUEL))
    BY StartLeads
  <2>3. want'.in = "out"
    BY <1>2, <2>1, Terminates
  <2>4. Begins(s, image, reads)'
    BY <1>3, <2>1, <2>2 DEF Begins
  <2>5. Leads(s)'
    <3>1. ASSUME NEW t PROVE Round(t)' = Round(t)
      BY <2>1 DEF Round
    <3>2. LeadsTo(s, want')
      BY <2>1, <2>2
    <3> QED BY <3>1, <3>2 DEF Leads, LeadsTo
  <2> QED BY <1>3, <1>5, <2>1, <2>3, <2>4, <2>5 DEF StartOk
<1> QED BY <1>3, <1>5, <1>6 DEF RestOk

\* The clock in which the engine sees the start.
LEMMA StartClock ==
    ASSUME ToldInv, Starting, StartOk, NEW w, NEW starts \in BOOLEAN,
           Clock(w, starts), Allowed(w, starts)
    PROVE  WorkOk'
<1>1. PICK ack \in BOOLEAN :
         Eng!Clock(Inputs(ack)) /\ Memory(ack) /\ GioBus(ack, starts)
  BY DEF Clock
<1>2. state = "S_IDLE" /\ start_q /\ ~done.up /\ gap /\ Shaped /\ Startable
  BY DEF Starting, StartOk
<1>3. w = NoWrite /\ ~starts /\ w.reg = "none"
  BY <1>2 DEF Allowed, NoWrite
<1>4. /\ Eng!Idle(Inputs(ack)) /\ image' = image /\ reads' = reads /\ beats' = beats
  BY <1>1, <1>2, <1>3, IdleClock
<1>5. regs' = regs /\ table' = table /\ want' = want
  BY <1>2, <1>3, RegsAre DEF Allowed, Poked
<1>6. There
  <2>1. Inputs(ack).start /\ Inputs(ack).d = regs
    BY <1>2 DEF Inputs
  <2> QED BY <1>4, <2>1, IdleStarts DEF Bus
<1>7. Alongside
  BY <1>2, <1>5 DEF Alongside, Alike, Startable
<1>8. Here'
  BY <1>6, <1>7, Frame
<1>9. Given'
  BY <1>2, <1>4, <1>5 DEF Given, Startable, Shaped, StartOk, TablesOk
<1>10. (Rounds(regs) <= FUEL)'
  BY <1>2, <1>5 DEF Startable
<1> QED BY <1>8, <1>9, <1>10 DEF WorkOk

\* A transfer under way.
LEMMA WorkClock ==
    ASSUME ToldInv, Working, WorkOk, NEW w, NEW starts \in BOOLEAN,
           Clock(w, starts), Allowed(w, starts)
    PROVE  /\ state # "S_DONE" => WorkOk' /\ state' # "S_IDLE"
           /\ state = "S_DONE" => EndOk'
<1>1. PICK ack \in BOOLEAN :
         Eng!Clock(Inputs(ack)) /\ Memory(ack) /\ GioBus(ack, starts)
  BY DEF Clock
<1>2. /\ state # "S_IDLE" /\ ~done.up /\ run.running /\ Given /\ Here /\ Rounds(regs) <= FUEL
      /\ regs \in RegsType
  BY DEF Working, WorkOk, Given
<1>3. starts = FALSE /\ w.reg # "DESCRIPTOR"
  BY <1>2 DEF Allowed
<1>4. regs' = Poked(w) /\ table' = table /\ want' = want
  BY <1>2, <1>3, RegsAre DEF Allowed
<1>5. /\ Poked(w) \in RegsType /\ Alike(Poked(w), regs) /\ Poked(w).tlb = regs.tlb
      /\ Rounds(Poked(w)) = Rounds(regs)
  BY <1>2, <1>3, PokeLeaves DEF Allowed
<1>6. /\ Alongside /\ (Rounds(regs) <= FUEL)' /\ regs' \in RegsType
      /\ regs'.xlate = regs.xlate /\ regs'.tlb = regs.tlb
  BY <1>2, <1>4, <1>5 DEF Alongside, Alike
<1>7. TablesOk'
  BY <1>2, <1>4, <1>6 DEF TablesOk, Given
<1>8. ASSUME state # "S_DONE" PROVE WorkOk' /\ state' # "S_IDLE"
  <2>1. There /\ image' = [a \in Addresses |-> image'[a]]
    BY <1>1, <1>2, <1>3, <1>8, WorkGoes
  <2>2. Here'
    BY <1>6, <2>1, Frame
  <2>3. state' # "S_IDLE"
    BY <2>1 DEF There, Running, States
  <2>4. Given'
    BY <1>2, <1>4, <1>6, <1>7, <2>1 DEF Given
  <2> QED BY <1>6, <2>2, <2>3, <2>4 DEF WorkOk
<1>9. ASSUME state = "S_DONE" PROVE EndOk'
  <2>1. /\ done'.up /\ done'.fault = fault_code /\ done'.memadr = job.vaddr
        /\ (done'.wb <=> Supported(regs)) /\ UNCHANGED Bus /\ job' = job
        /\ Sampled(job) /\ AtOutcome(job.vaddr, fault_code, image, beats, reads)
        /\ UNCHANGED <<cache, part>> /\ DOMAIN cache = {"valid", "tag", "base", "wrok"}
        /\ DOMAIN part = {"len", "lane0", "n0", "for_b"}
    BY <1>1, <1>2, <1>3, <1>9, DoneGoes
  <2>2. Supported(regs') <=> Supported(regs)
    BY <1>6, SameTerms
  <2>3. RestartLosesNothing'
    BY <1>2, <1>4, <2>1 DEF RestartLosesNothing, SameWork, AtOutcome, Given, Bus, ShortOf
  <2>4. Shaped'
    BY <1>2, <2>1 DEF Shaped, Bus, Given
  <2>5. done'.memadr \in Addresses
    BY <2>1 DEF Sampled
  <2> QED BY <1>6, <1>7, <2>1, <2>2, <2>3, <2>4, <2>5 DEF EndOk
<1> QED BY <1>8, <1>9

\* The registers' clock of the end.
LEMMA EndClock ==
    ASSUME ToldInv, Ending, EndOk, NEW w, NEW starts \in BOOLEAN,
           Clock(w, starts), Allowed(w, starts)
    PROVE  RestOk'
<1>1. PICK ack \in BOOLEAN :
         Eng!Clock(Inputs(ack)) /\ Memory(ack) /\ GioBus(ack, starts)
  BY DEF Clock
<1>2. /\ state = "S_IDLE" /\ ~start_q /\ done.up /\ run.running /\ Shaped /\ regs \in RegsType
      /\ TablesOk /\ Rounds(regs) <= FUEL /\ (done.wb <=> Supported(regs))
      /\ done.memadr \in Addresses
  BY DEF Ending, EndOk
<1>3. Shaped'
  BY <1>1, <1>2, IdleClock
<1>4. w.reg # "DESCRIPTOR" /\ table' = table
  BY <1>2 DEF Allowed
<1>5. /\ Poked(w) \in RegsType /\ Alike(Poked(w), regs) /\ Poked(w).tlb = regs.tlb
      /\ Rounds(Poked(w)) = Rounds(regs)
  BY <1>2, <1>4, PokeLeaves DEF Allowed
<1>6. regs' = IF done.wb
              THEN [Poked(w) EXCEPT !.memadr = done.memadr, !.lines = 0, !.zoom = 0, !.bytes = 0]
              ELSE Poked(w)
  BY <1>2, RegsAre DEF Allowed
<1> DEFINE p == Poked(w)
<1>7. regs' \in RegsType /\ regs'.xlate = regs.xlate /\ regs'.tlb = regs.tlb
  <2> HIDE DEF p
  <2>1. p \in RegsType /\ p.tlb = regs.tlb /\ p.xlate = regs.xlate
    BY <1>5 DEF p, Alike
  <2> QED BY <1>2, <1>6, <2>1 DEF RegsType, p
<1>8. TablesOk'
  BY <1>2, <1>4, <1>7 DEF TablesOk
<1>9. Startable'
  <2>1. CASE done.wb
    <3>1. regs'.lines = 0
      BY <1>5, <1>6, <2>1 DEF RegsType
    <3>2. Rounds(regs') <= FUEL
      <4> DEFINE n == Larger(regs'.zoom, regs'.line_zoom)
                        * (Larger(regs'.width, regs'.bytes) + 2) + 2
      <4>1. n \in Nat
        <5>1. regs'.zoom \in Nat /\ regs'.line_zoom \in Nat /\ regs'.width \in Nat
              /\ regs'.bytes \in Nat
          BY <1>7 DEF RegsType
        <5>2. Larger(regs'.zoom, regs'.line_zoom) \in Nat
              /\ Larger(regs'.width, regs'.bytes) \in Nat
          BY <5>1, Larger2
        <5> QED BY <5>2
      <4>2. Rounds(regs') = regs'.lines * n + 1
        BY DEF Rounds
      <4> HIDE DEF n
      <4>3. 0 * n = 0
        BY <4>1
      <4> QED BY <3>1, <4>2, <4>3, PathAssumption
    <3> QED BY <1>7, <1>8, <3>1, <3>2 DEF Startable
  <2>2. CASE ~done.wb
    <3>1. regs' = Poked(w) /\ ~Supported(regs)
      BY <1>2, <1>6, <2>2
    <3>2. ~Supported(regs')
      BY <1>5, <3>1 DEF Alike, Supported, IsFill, IsM2G, IsG2M
    <3> QED BY <1>2, <1>5, <1>7, <1>8, <3>1, <3>2 DEF Startable
  <2> QED BY <2>1, <2>2
<1> QED BY <1>3, <1>9 DEF RestOk

LEMMA TransferClock ==
    ASSUME TransferInv, NEW w, NEW starts \in BOOLEAN, Clock(w, starts), Allowed(w, starts)
    PROVE  TransferInv'
<1>1. ToldInv /\ ToldInv'
  <2>1. w.reg \in {"none", "CAUSE", "MEMADR", "DESCRIPTOR"} /\ (w.reg = "CAUSE" => w.value = {})
        /\ (starts => ~gap /\ ~run.running) /\ (w # NoWrite => ~gap)
    BY DEF Allowed
  <2>2. ToldInv
    BY DEF TransferInv
  <2> QED BY <2>1, <2>2, ToldClock
<1>2. /\ start_q' = (starts /\ state = "S_IDLE")
      /\ asked' = (starts \/ (asked /\ ~done.up))
  BY DEF Clock, Registers
<1>3. PICK ack \in BOOLEAN : Eng!Clock(Inputs(ack))
  BY DEF Clock
<1>4. /\ state = "S_IDLE" => ~done'.up /\ (state' # "S_IDLE" <=> start_q)
      /\ state # "S_IDLE" => (state' = "S_IDLE" <=> done'.up)
  <2>1. Inputs(ack).start = start_q
    BY DEF Inputs
  <2> QED BY <1>1, <1>3, <2>1, EngineGoes DEF ToldInv
<1>5. CASE Resting
  <2>1. RestOk' /\ (starts => StartOk')
    BY <1>1, <1>5, RestClock DEF TransferInv
  <2>2. ~Working' /\ ~Ending'
    BY <1>4, <1>5 DEF Resting, Working, Ending
  <2>3. Starting' => starts
    BY <1>2 DEF Starting
  <2> QED BY <1>1, <2>1, <2>2, <2>3 DEF TransferInv
<1>6. CASE Starting
  <2>1. WorkOk'
    BY <1>1, <1>6, StartClock DEF TransferInv
  <2>2. ~Resting' /\ ~Starting' /\ ~Ending'
    BY <1>4, <1>6 DEF Resting, Starting, Ending
  <2> QED BY <1>1, <2>1, <2>2 DEF TransferInv
<1>7. CASE Working
  <2>1. /\ state # "S_DONE" => WorkOk' /\ state' # "S_IDLE"
        /\ state = "S_DONE" => EndOk'
    BY <1>1, <1>7, WorkClock DEF TransferInv
  <2>2. ~Resting' /\ ~Starting'
    BY <1>2, <1>4, <1>7 DEF Working, Resting, Starting
  <2>3. state # "S_DONE" => ~Ending'
    BY <2>1 DEF Ending
  <2>4. state = "S_DONE" => ~Working'
    <3>1. ASSUME state = "S_DONE" PROVE state' = "S_IDLE"
      BY <1>3, <3>1 DEF Eng!Clock, Eng!Idle, Eng!Check, Eng!Beat, Eng!MemHalf, Eng!Pte,
                        Eng!Gio, Eng!Step, Eng!Finish
    <3> QED BY <3>1 DEF Working
  <2> QED BY <1>1, <2>1, <2>2, <2>3, <2>4 DEF TransferInv
<1>8. CASE Ending
  <2>1. RestOk'
    BY <1>1, <1>8, EndClock DEF TransferInv
  <2>2. ~Starting' /\ ~Working' /\ ~Ending'
    <3>1. ~starts
      BY <1>8 DEF Ending, Allowed
    <3> QED BY <1>2, <1>4, <1>8, <3>1 DEF Ending, Starting, Working
  <2> QED BY <1>1, <2>1, <2>2 DEF TransferInv
<1> QED BY <1>1, <1>5, <1>6, <1>7, <1>8 DEF ToldInv

LEMMA TransferInit == Init => TransferInv
<1> SUFFICES ASSUME Init PROVE TransferInv
  OBVIOUS
<1>1. ToldInv /\ ~Starting /\ ~Working /\ ~Ending
  BY ToldInit DEF Init, Eng!Init, Starting, Working, Ending
<1>2. Shaped
  <2>1. image = [a \in Addresses |-> Initial(a)]
    BY DEF Init
  <2>2. image = [a \in Addresses |-> image[a]]
    BY <2>1
  <2> QED BY <2>2 DEF Init, Eng!Init, Shaped
<1>3. Startable
  <2>1. regs = NoDescriptor
    BY DEF Init
  <2>2. regs \in RegsType
    <3>1. <<>> \in UTlb
      BY DEF UTlb
    <3>2. 0 \in Addresses
      BY Numbers DEF Addresses
    <3> QED BY <2>1, <3>1, <3>2 DEF NoDescriptor, RegsType
  <2>3. TablesOk /\ regs.lines = 0
    BY <2>1 DEF TablesOk, NoDescriptor
  <2>4. Rounds(regs) <= FUEL
    <3>1. Rounds(regs) = 1
      BY <2>1 DEF Rounds, NoDescriptor, Larger
    <3> QED BY <3>1, PathAssumption
  <2> QED BY <2>2, <2>3, <2>4 DEF Startable
<1> QED BY <1>1, <1>2, <1>3 DEF TransferInv, RestOk

\* What a driver's descriptor is, in the registers.
LEMMA ProgrammedIs ==
    ASSUME NEW d \in Descriptors \union Later, NEW t \in Tlbs
    PROVE  /\ Programmed(d, t) \in RegsType /\ Legal(Programmed(d, t))
           /\ Rounds(Programmed(d, t)) <= FUEL
           /\ Programmed(d, t).tlb = t /\ Programmed(d, t).xlate = d.xlate
<1> DEFINE p == Programmed(d, t)
<1>1. d \in Descriptor /\ Legal(d) /\ Rounds(d) <= FUEL /\ t \in UTlb
  BY PathAssumption
<1>2. /\ DOMAIN p = {"fill", "to_host", "up", "xlate", "ie", "memadr", "lines", "width",
                     "line_zoom", "stride", "zoom", "bytes", "tlb"}
      /\ p = [f \in DOMAIN p |-> p[f]]
      /\ p.tlb = t /\ p.fill = d.fill /\ p.to_host = d.to_host /\ p.up = d.up
      /\ p.xlate = d.xlate /\ p.ie = d.ie /\ p.memadr = d.memadr /\ p.lines = d.lines
      /\ p.width = d.width /\ p.line_zoom = d.line_zoom /\ p.stride = d.stride
      /\ p.zoom = d.zoom /\ p.bytes = d.bytes
  BY <1>1 DEF Programmed, Descriptor
<1> HIDE DEF p
<1>3. p \in RegsType
  BY <1>1, <1>2 DEF Descriptor, RegsType
<1>4. Legal(p)
  BY <1>1, <1>2 DEF Legal, IsFill
<1>5. Rounds(p) <= FUEL
  BY <1>1, <1>2 DEF Rounds
<1> QED BY <1>2, <1>3, <1>4, <1>5 DEF p

LEMMA TransferStays == ASSUME TransferInv, UNCHANGED vars PROVE TransferInv'
<1>1. /\ state' = state /\ job' = job /\ part' = part /\ beat' = beat /\ cache' = cache
      /\ fault_code' = fault_code /\ done' = done /\ regs' = regs /\ cause' = cause
      /\ run' = run /\ int' = int /\ start_q' = start_q /\ image' = image /\ table' = table
      /\ beats' = beats /\ reads' = reads /\ gap' = gap /\ want' = want /\ asked' = asked
      /\ owed' = owed
  BY DEF vars, Eng!engVars, mcVars
<1>2. ToldInv'
  BY <1>1 DEF TransferInv, ToldInv, Resting, Starting, Working, Ending
<1>3. /\ Resting' => Resting
      /\ Starting' => Starting
      /\ Working' => Working
      /\ Ending' => Ending
  BY <1>1 DEF Resting, Starting, Working, Ending
<1>4. /\ TablesOk => TablesOk'
      /\ Startable => Startable'
      /\ Shaped => Shaped'
  BY <1>1 DEF TablesOk, Startable, Shaped
<1>5. ASSUME NEW t PROVE Round(t)' = Round(t)
  BY <1>1 DEF Round
<1>6. StartOk => StartOk'
  <2>1. ASSUME NEW s PROVE Leads(s)' <=> Leads(s)
    BY <1>1, <1>5 DEF Leads, LeadsTo
  <2>2. ASSUME NEW s PROVE Begins(s, image, reads)' <=> Begins(s, image, reads)
    BY <1>1 DEF Begins
  <2> QED BY <1>1, <1>4, <2>1, <2>2 DEF StartOk
<1>7. WorkOk => WorkOk'
  <2> SUFFICES ASSUME WorkOk PROVE WorkOk'
    OBVIOUS
  <2>1. There
    BY <1>1 DEF WorkOk, Here, There
  <2>2. Alongside
    BY <1>1 DEF Alongside, Alike, WorkOk, Given
  <2>3. Here'
    BY <2>1, <2>2, Frame
  <2>4. Given'
    BY <1>1, <1>4 DEF WorkOk, Given
  <2> QED BY <1>1, <2>3, <2>4 DEF WorkOk
<1>8. EndOk => EndOk'
  BY <1>1, <1>4 DEF EndOk, RestartLosesNothing, SameWork, ShortOf
<1> QED BY <1>2, <1>3, <1>4, <1>6, <1>7, <1>8 DEF TransferInv, RestOk

LEMMA TransferNext == TransferInv /\ [Next]_vars => TransferInv'
<1> SUFFICES ASSUME TransferInv, [Next]_vars PROVE TransferInv'
  OBVIOUS
<1>1. CASE Tick
  <2>1. Clock(NoWrite, FALSE) /\ Allowed(NoWrite, FALSE)
    BY <1>1 DEF Tick, NoWrite, Allowed
  <2> QED BY <2>1, TransferClock
<1>2. CASE Programs
  <2>1. PICK d \in Descriptors \union Later, t \in Tlbs :
           /\ table' \in IF d.xlate THEN Tables ELSE {table}
           /\ Clock([reg |-> "DESCRIPTOR", value |-> Programmed(d, t)], FALSE)
    BY <1>2 DEF Programs
  <2>2. ~gap /\ ~run.running /\ want' = want
    BY <1>2 DEF Programs
  <2> DEFINE w == [reg |-> "DESCRIPTOR", value |-> Programmed(d, t)]
  <2>3. /\ w.value \in RegsType /\ Legal(w.value) /\ Rounds(w.value) <= FUEL
        /\ w.value.tlb = t /\ w.value.xlate = d.xlate
    BY ProgrammedIs
  <2>4. \A i \in DOMAIN w.value.tlb : w.value.xlate => table'[w.value.tlb[i].base] \in Fragment
    <3>1. ASSUME NEW i \in DOMAIN t, d.xlate PROVE table'[t[i].base] \in Fragment
      BY <2>1, <3>1, PathAssumption
    <3> HIDE DEF w
    <3> QED BY <2>3, <3>1
  <2>5. w.reg = "DESCRIPTOR"
    OBVIOUS
  <2>6. Clock(w, FALSE)
    BY <2>1
  <2> HIDE DEF w
  <2>7. Allowed(w, FALSE)
    BY <2>2, <2>3, <2>4, <2>5 DEF Allowed
  <2> QED BY <2>6, <2>7, TransferClock
<1>3. CASE Starts
  <2>1. Clock(NoWrite, TRUE) /\ Allowed(NoWrite, TRUE)
    BY <1>3 DEF Starts, NoWrite, Allowed
  <2> QED BY <2>1, TransferClock
<1>4. CASE Retires
  <2> DEFINE w == [reg |-> "CAUSE", value |-> {}]
  <2>1. Clock(w, FALSE) /\ Allowed(w, FALSE)
    BY <1>4 DEF Retires, Allowed
  <2> HIDE DEF w
  <2> QED BY <2>1, TransferClock
<1>5. CASE Pokes
  <2>1. PICK d \in Later : Clock([reg |-> "MEMADR", value |-> d.memadr], FALSE)
    BY <1>5 DEF Pokes
  <2> DEFINE w == [reg |-> "MEMADR", value |-> d.memadr]
  <2>2. d.memadr \in Addresses
    <3>1. d \in Descriptor
      BY PathAssumption
    <3> QED BY <3>1 DEF Descriptor
  <2>3. Clock(w, FALSE) /\ Allowed(w, FALSE)
    BY <1>5, <2>1, <2>2 DEF Pokes, Allowed
  <2> HIDE DEF w
  <2> QED BY <2>3, TransferClock
<1>6. CASE UNCHANGED vars
  BY <1>6, TransferStays
<1> QED BY <1>1, <1>2, <1>3, <1>4, <1>5, <1>6 DEF Next

\* A transfer leaves the bytes of memory and of the GIO bus, and tells the fault,
\* that the loops of the reference say, whatever the descriptor, the uTLB, the page
\* tables, the delays of memory and bus, and the early write of the next address.
\* The address it writes back is the reference's or, of a transfer that faults where
\* a doubleword starts, less than a doubleword before it.
THEOREM RestartLosesNothingTheorem == Spec => []RestartLosesNothing
<1>1. TransferInv => RestartLosesNothing
  BY DEF TransferInv, ToldInv, Resting, Starting, Working, EndOk, RestartLosesNothing
<1> QED BY <1>1, TransferInit, TransferNext, PTL DEF Spec
=============================================================================
