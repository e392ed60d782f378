------------------------------ MODULE IntTest ------------------------------
(***************************************************************************)
(* The interrupts of IOC2 end to end: the 8254, the keyboard controller    *)
(* with verilator/sim_ps2.h at it, INT2, and the R4300 with its write FIFO *)
(* and its interrupt lines running tests/int/inttest.c, or another of      *)
(* Programs.                                                               *)
(*                                                                         *)
(* A program is [main, handler, typed, answers], sequences of             *)
(* instructions, of what is typed meanwhile and of what the keyboard       *)
(* controller answers.  A store to a register goes into the write FIFO; a  *)
(* load waits until the FIFO is empty and the device has answered; Status  *)
(* is mtc0 with IE and IM, Wait is wait_exc, Expect is check, Byte reads   *)
(* the keyboard's next byte and Drain all there are.  The bus takes an     *)
(* access after any delay up to DELAY; an instruction takes a clock.       *)
(***************************************************************************)
EXTENDS Naturals, SequencesExt

CONSTANTS
    BYTE, TICK_DIV,
    PERIOD,    \* counts main arms counter 0 with
    Programs,
    FIFO,      \* stores the write FIFO holds
    DELAY,
    SPINS,     \* clocks wait_exc waits
    QDEPTH,    \* bytes the keyboard's queue holds
    GAP,       \* clocks between two events of the host
    START      \* and before the first one, at most

ASSUME IntAssumption ==
    /\ BYTE \in Nat \ {0} /\ TICK_DIV \in Nat \ {0}
    /\ PERIOD \in 1..(BYTE * BYTE - 1) /\ SPINS > 2 * (PERIOD + 1) * TICK_DIV
    /\ FIFO \in Nat \ {0} /\ DELAY \in Nat \ {0}
    /\ QDEPTH \in Nat \ (0..6) /\ GAP \in Nat \ (0..8) /\ START \in Nat

VARIABLES
    counter, tick, tmr_stat, pit_out_d, mask,
    queue, push, pend, config_byte, next_write_is_mouse, kbd_scanning, mouse_enabled,
    arg_state, key_tog_q, mouse_tog_q, key_left, mouse_left,
    ps2,               \* the host's two inputs, what is still to type and when
    program, pc, hpc,  \* hpc = 0 outside the handler
    sr, ip,            \* Status.IE, IM and EXL; Cause.IP, a clock behind the lines
    fifo, waited,      \* the write FIFO; clocks the access at its head has waited
    got,               \* what was read: MAP_STAT, L0_STAT, a count, OBF, the keyboard
    exc, spins,        \* exc_count, exc_cause, exc_status's EXL; wait_exc's spins
    failures,
    expired,           \* counters that expired in the clock before
    owed,              \* counters that expired since their latch was last cleared
    news,              \* those of them that did so since the handler was entered
    latched_at         \* the count when the latch command was given

Pit == INSTANCE Pit8254
Kbd == INSTANCE I8042
Ints == INSTANCE Int2

vars == <<counter, tick, tmr_stat, pit_out_d, mask, Kbd!kbdVars, ps2, program, pc, hpc,
          sr, ip, fifo, waited, got, exc, spins, failures, expired, owed, news,
          latched_at>>

-----------------------------------------------------------------------------
(* tests/int/inttest.c.                                                    *)

Store(reg, value) == [op |-> "store", reg |-> reg, value |-> value]
PitC(i) == <<"PIT_C0", "PIT_C1", "PIT_C2">>[i + 1]
Load(reg) == [op |-> "load", reg |-> reg]
Status(ie, im) == [op |-> "status", ie |-> ie, im |-> im]
Wait == [op |-> "wait"]
Expect(what) == [op |-> "expect", what |-> what]
ClearCount == [op |-> "clear"]

PitArm(i, period) ==
    <<Store("PIT_CTL", [sc |-> i, rw |-> "BOTH", mode |-> 2]),
      Store(PitC(i), period % BYTE), Store(PitC(i), period \div BYTE)>>
PitStop == <<Store("PIT_CTL", [sc |-> 0, rw |-> "BOTH", mode |-> 0])>>

\* Mutant: the latches are cleared while the counter still runs.
ResetInt2ClearFirst ==
    <<Status(FALSE, {}), Store("TMR_CLR", {0, 1}),
      Store("L0_MASK", {}), Store("L1_MASK", {}), Store("MAP_MASK0", {}),
      Store("MAP_MASK1", {})>> \o PitStop \o <<ClearCount>>

ResetInt2 ==
    <<Status(FALSE, {})>> \o PitStop
    \o <<Store("L0_MASK", {}), Store("L1_MASK", {}), Store("MAP_MASK0", {}),
         Store("MAP_MASK1", {}), Store("TMR_CLR", {0, 1}), ClearCount>>

ExcHandler ==
    <<[op |-> "record"], Store("TMR_CLR", {0, 1}), Store("L0_MASK", {}),
      Store("MAP_MASK0", {}), Load("MAP_STAT"), [op |-> "eret"]>>

Section(setup, im, checks) ==
    ResetInt2 \o setup \o <<Status(TRUE, im), Wait, Status(FALSE, {})>> \o checks

Main ==
    Section(PitArm(0, PERIOD), {},
            <<Expect("none seen"), Load("MAP_STAT"), Expect("latched")>>)
    \o Section(PitArm(0, PERIOD), {4},
            <<Expect("seen"), Expect("IP4"), Expect("not IP2"), Expect("EXL"), Expect("once")>>)
    \o ResetInt2 \o <<Load("MAP_STAT"), Expect("cleared"), Status(TRUE, {4}), Wait,
                      Status(FALSE, {}), Expect("none seen")>>
    \o Section(<<Store("MAP_MASK0", {0}), Store("L0_MASK", {7})>> \o PitArm(0, PERIOD), {2},
            <<Expect("seen"), Expect("IP2")>>)
    \o Section(<<Store("MAP_MASK0", {0}), Store("L0_MASK", {})>> \o PitArm(0, PERIOD), {2},
            <<Expect("none seen"), Load("L0_STAT"), Expect("folded")>>)
    \o ResetInt2

Inttest == [main |-> Main, handler |-> ExcHandler, typed |-> <<>>, answers |-> <<>>]

\* Both counters at once, under a handler that clears what it found latched.
Clocks(period0, period1, im) ==
    [main |-> PitArm(0, period0) \o PitArm(1, period1)
              \o <<Status(TRUE, im), Wait, ClearCount, Wait, ClearCount, Wait,
                   Status(FALSE, {})>>,
     handler |-> <<[op |-> "record"], Load("MAP_STAT"), [op |-> "found"],
                   Load("MAP_STAT"), [op |-> "eret"]>>,
     typed |-> <<>>, answers |-> <<>>]

\* calibrate_delay of the boot PROM: a count of counter 2 latched as it runs.
Calibrate ==
    [main |-> PitArm(2, PERIOD) \o <<Store("PIT_CTL", [sc |-> 2, rw |-> "LATCH", mode |-> 0]),
              Load(PitC(2)), Load(PitC(2))>>,
     handler |-> <<>>, typed |-> <<>>, answers |-> <<>>]

\* A key and a movement of the mouse, as the guest is to read them.
Key(ext, pressed, code) ==
    [mouse |-> FALSE, bytes |-> (IF ext THEN <<\hE0>> ELSE <<>>)
                                \o (IF pressed THEN <<>> ELSE <<\hF0>>) \o <<code>>]
Move(dx, dy) == [mouse |-> TRUE, bytes |-> <<8, dx, dy>>]

Byte == [op |-> "byte"]
Drain == [op |-> "drain"]
EnableMouse == <<Store("KBD_CMD", \hD4), Store("KBD_DATA", \hF4)>>

\* POST's keyboard diagnostic, with keys hit during it.
Post(typed) ==
    [main |-> <<Store("KBD_CMD", \hAA), Byte, Byte, Store("KBD_CMD", \h60),
                Store("KBD_DATA", \h47), Store("KBD_CMD", \h20), Byte,
                Store("KBD_DATA", \hF5), Byte, Store("KBD_DATA", \hF4), Byte, Drain>>,
     handler |-> <<>>, typed |-> typed, answers |-> <<\h55, \hAA, \h47, \hFA, \hFA>>]

\* A driver that enables the mouse and reads on interrupts, n bytes at least,
\* and what comes later with interrupts off.
Driver(typed, n) ==
    [main |-> <<Store("MAP_MASK0", {4}), Store("L0_MASK", {7}), Status(TRUE, {2})>>
              \o EnableMouse \o <<[op |-> "until", bytes |-> n], [op |-> "untyped"],
                                  Status(FALSE, {}), Drain>>,
     handler |-> <<Drain, [op |-> "eret"]>>, typed |-> typed, answers |-> <<\hFA>>]

\* A guest that lets everything wait until it has all been typed.
Lazy(typed) ==
    [main |-> EnableMouse \o <<[op |-> "untyped"], Drain>>,
     handler |-> <<>>, typed |-> typed, answers |-> <<\hFA>>]

Holds(what) ==
    CASE what = "none seen" -> exc.count = 0
      [] what = "seen" -> exc.count >= 1
      [] what = "once" -> exc.count = 1
      [] what = "IP4" -> 4 \in exc.cause
      [] what = "IP2" -> 2 \in exc.cause
      [] what = "not IP2" -> 2 \notin exc.cause
      [] what = "EXL" -> exc.exl
      [] what = "latched" -> 0 \in got.map
      [] what = "cleared" -> 0 \notin got.map
      [] what = "folded" -> 7 \in got.l0

-----------------------------------------------------------------------------

Init ==
    /\ Pit!Init /\ Kbd!Init /\ Ints!Init
    /\ program \in Programs /\ pc = 1 /\ hpc = 0
    /\ sr = [ie |-> FALSE, im |-> {}, exl |-> FALSE] /\ ip = {}
    /\ fifo = <<>> /\ waited = 0
    /\ got = [map |-> {}, l0 |-> {}, count |-> <<>>, obf |-> FALSE, bytes |-> <<>>]
    /\ \E next \in IF program.typed = <<>> THEN {0} ELSE 0..START :
          ps2 = [key |-> [tog |-> FALSE, bytes |-> <<>>],
                 mouse |-> [tog |-> FALSE, bytes |-> <<>>],
                 left |-> program.typed, next |-> next]
    /\ exc = [count |-> 0, cause |-> {}, exl |-> FALSE] /\ spins = 0
    /\ failures = {} /\ owed = {} /\ expired = {} /\ news = {} /\ latched_at = 0

Over == hpc = 0 /\ pc > Len(program.main)
Instruction == IF hpc > 0 THEN program.handler[hpc] ELSE program.main[pc]

\* cop0: the lines as they were a clock ago, under IE, IM and not EXL.
IrqTrigger == sr.ie /\ ~sr.exl /\ ip \intersect sr.im # {}
Runs(op) == ~IrqTrigger /\ ~Over /\ Instruction.op = op

\* Mutant: a load does not wait for the stores before it.
AccessLoadFirst ==
    IF Runs("load") THEN [op |-> "rd", reg |-> Instruction.reg]
    ELSE IF fifo # <<>> THEN [op |-> "wr", reg |-> Head(fifo).reg, value |-> Head(fifo).value]
    ELSE IF Runs("byte") \/ Runs("drain")
    THEN [op |-> "rd", reg |-> IF got.obf THEN "KBD_DATA" ELSE "KBD_CMD"]
    ELSE [op |-> "none"]

\* The access the bus has next: stores in order, a load behind all of them.
Access ==
    IF fifo # <<>> THEN [op |-> "wr", reg |-> Head(fifo).reg, value |-> Head(fifo).value]
    ELSE IF Runs("load") THEN [op |-> "rd", reg |-> Instruction.reg]
    ELSE IF Runs("byte") \/ Runs("drain")
    THEN [op |-> "rd", reg |-> IF got.obf THEN "KBD_DATA" ELSE "KBD_CMD"]
    ELSE [op |-> "none"]

\* The 8254's side of it.
Channel(acc) == {i \in Pit!Channels : acc.op # "none" /\ acc.reg = PitC(i)}
PitAccess(acc) ==
    CASE acc.op = "wr" /\ acc.reg = "PIT_CTL" -> [op |-> "wr", sel |-> 3, din |-> acc.value]
      [] acc.op = "wr" /\ Channel(acc) # {} ->
            [op |-> "wr", sel |-> CHOOSE i \in Channel(acc) : TRUE, din |-> acc.value]
      [] acc.op = "rd" /\ Channel(acc) # {} ->
            [op |-> "rd", sel |-> CHOOSE i \in Channel(acc) : TRUE]
      [] OTHER -> [op |-> "none"]

\* And the keyboard controller's.
KbdAccess(acc) ==
    IF acc.op = "none" \/ acc.reg \notin {"KBD_CMD", "KBD_DATA"} THEN [op |-> "none"]
    ELSE IF acc.op = "rd" THEN [op |-> "rd", cmd |-> acc.reg = "KBD_CMD"]
    ELSE [op |-> "wr", cmd |-> acc.reg = "KBD_CMD", din |-> acc.value]

\* Ps2Injector::step: the next event's payload, and its toggle turned over.
Types ==
    ps2' = IF ps2.next > 0 THEN [ps2 EXCEPT !.next = @ - 1]
           ELSE IF ps2.left = <<>> THEN ps2
           ELSE LET e == Head(ps2.left)
                    port == IF e.mouse THEN "mouse" ELSE "key"
                IN [ps2 EXCEPT !.left = Tail(@), !.next = GAP - 1,
                               ![port] = [tog |-> ~@.tog, bytes |-> e.bytes]]

\* The history: what expired, what is still to be cleared, what was latched.
Observes(acc) ==
    LET cleared == IF acc.op = "wr" /\ acc.reg = "TMR_CLR" THEN acc.value ELSE {} IN
    /\ expired' = {i \in {0, 1} : Pit!Expires(i)}
    /\ owed' = (owed \ cleared) \union expired
    /\ news' = ((IF IrqTrigger THEN {} ELSE news) \ cleared) \union expired
    /\ latched_at' = IF acc.op = "wr" /\ acc.reg = "PIT_CTL" /\ acc.value.rw = "LATCH"
                     THEN counter[acc.value.sc].count ELSE latched_at

Advance ==
    IF hpc > 0 THEN hpc' = hpc + 1 /\ UNCHANGED pc ELSE pc' = pc + 1 /\ UNCHANGED hpc

\* What each instruction does beside going on to the next one.
StatusTo == sr' = IF Runs("status") THEN [ie |-> Instruction.ie, im |-> Instruction.im,
                                          exl |-> sr.exl]
                  ELSE [sr EXCEPT !.exl = (@ \/ IrqTrigger) /\ ~Runs("eret")]
MapSource == IF Kbd!Irq THEN {4} ELSE {}
Loads(acc) ==
    got' = IF acc.op # "rd" THEN got
           ELSE CASE acc.reg = "MAP_STAT" -> [got EXCEPT !.map = Ints!MapStat(MapSource)]
                  [] acc.reg = "L0_STAT" -> [got EXCEPT !.l0 = Ints!L0Stat(MapSource)]
                  [] acc.reg = "KBD_CMD" -> [got EXCEPT !.obf = Kbd!Obf]
                  [] acc.reg = "KBD_DATA" -> [got EXCEPT !.obf = FALSE,
                                                         !.bytes = Append(@, Kbd!Dout)]
                  [] OTHER -> [got EXCEPT !.count = Append(@, Pit!Dout(CHOOSE i \in Channel(acc) : TRUE))]
Counts ==
    exc' = CASE Runs("clear") -> [exc EXCEPT !.count = 0]
             [] Runs("record") -> IF exc.count = 0
                                  THEN [count |-> 1, cause |-> ip, exl |-> sr.exl]
                                  ELSE [exc EXCEPT !.count = 2]  \* 2: more than once
             [] OTHER -> exc
Checks == failures' = IF Runs("expect") /\ ~Holds(Instruction.what)
                      THEN failures \union {Instruction.what} ELSE failures

Stored == IF Runs("store") /\ Len(fifo) < FIFO
          THEN <<[reg |-> Instruction.reg, value |-> Instruction.value]>>
          ELSE IF Runs("found") /\ Len(fifo) < FIFO
          THEN <<[reg |-> "TMR_CLR", value |-> got.map]>>
          ELSE <<>>
Waits == exc.count = 0 /\ spins < SPINS
Retires(acc) ==
    \/ \E op \in {"status", "record", "expect", "clear"} : Runs(op)
    \/ Stored # <<>>
    \/ Runs("load") /\ acc.op = "rd"
    \/ Runs("wait") /\ ~Waits
    \/ Runs("byte") /\ acc.op = "rd" /\ acc.reg = "KBD_DATA"
    \/ Runs("drain") /\ acc.op = "rd" /\ acc.reg = "KBD_CMD" /\ ~Kbd!Obf
    \/ Runs("until") /\ Len(got.bytes) >= Instruction.bytes
    \/ Runs("untyped") /\ ps2.left = <<>> /\ ps2.next = 0

\* An interrupt enters the handler in place of the instruction; eret leaves it.
Cpu(acc) ==
    /\ IF IrqTrigger THEN hpc' = 1 /\ UNCHANGED pc
       ELSE IF Runs("eret") THEN hpc' = 0 /\ UNCHANGED pc
       ELSE IF Retires(acc) THEN Advance
       ELSE UNCHANGED <<pc, hpc>>
    /\ StatusTo /\ Loads(acc) /\ Counts /\ Checks
    /\ spins' = IF Runs("wait") /\ Waits THEN spins + 1
                ELSE IF Runs("wait") THEN 0 ELSE spins
    /\ fifo' = (IF acc.op = "wr" THEN Tail(fifo) ELSE fifo) \o Stored

\* One edge of the clock; the bus takes an access every other edge at most.
Clock ==
    \E acc \in {Access, [op |-> "none"]} :
        /\ acc.op # "none" => waited > 0
        /\ acc.op = "none" => Access.op = "none" \/ waited < DELAY
        /\ waited' = IF acc.op = "none" /\ Access.op # "none" THEN waited + 1 ELSE 0
        /\ Pit!Clock(PitAccess(acc))
        /\ Ints!Clock(acc, {i \in Pit!Channels : counter[i].out})
        /\ Kbd!Clock(KbdAccess(acc), ps2) /\ Types
        /\ ip' = Ints!IrqLines(MapSource)
        /\ Cpu(acc) /\ Observes(acc)
        /\ UNCHANGED program

Spec == Init /\ [][Clock]_vars
LiveSpec == Spec /\ WF_vars(Clock)

-----------------------------------------------------------------------------
(* Properties.                                                             *)

\* Every program comes to its end - no interrupt is taken for ever, no load waits
\* for ever - and every check of inttest.c comes out as main expects it, at every
\* delay of the bus and every phase of the tick: masked sources stay masked, the
\* ones let through arrive by the line they should, the cleared ones stay away,
\* and the handler runs once.
TestPasses == <>Over /\ [](failures = {})

\* The handler is entered for news only: for a counter that has expired since it
\* was last entered and has not been cleared since, or a byte that waits.  The
\* line is a level and the clear waits in the write FIFO, so a handler that does
\* not read back enters twice for one expiry.
OneEntryPerExpiry == [][hpc' = 1 /\ hpc = 0 => news # {} \/ Kbd!Obf]_vars

\* A counter that has expired is latched until a write clears it, also when it
\* expires in the clock of the write that clears it or the other one.
NoExpiryLost == owed \subseteq tmr_stat

\* The two bytes read after the latch command are of the count at the command,
\* whatever the counter did between the two reads.
LatchedReadWhole ==
    Len(got.count) = 2 => got.count[1] + BYTE * got.count[2] = latched_at

\* The programs it is for.  Main reads no count, or it latches one of a channel and
\* reads the two bytes of it next; otherwise it sets channels up, by both bytes.
\* The handler, if it can be entered, returns, and leaves the timer to main.
PitCounts == {PitC(i) : i \in Pit!Channels}
OtherLoads == {"MAP_STAT", "L0_STAT", "KBD_CMD", "KBD_DATA"}
LeavesPit(i) ==
    /\ i.op = "load" => i.reg \in OtherLoads
    /\ i.op = "store" => i.reg \notin PitCounts \union {"PIT_CTL"}
SetsUp(i) ==
    /\ i.op = "load" => i.reg \in OtherLoads
    /\ i.op = "store" => /\ i.reg = "PIT_CTL" => i.value.rw = "BOTH"
                         /\ i.reg \in PitCounts => i.value \in Nat
ReadsAt(p, k, c) ==
    /\ \A i \in 1..Len(p.main) : i \notin k..(k + 2) => SetsUp(p.main[i])
    /\ k <= Len(p.main) =>
          /\ k + 2 <= Len(p.main)
          /\ p.main[k] = Store("PIT_CTL", [sc |-> c, rw |-> "LATCH", mode |-> 0])
          /\ p.main[k + 1] = Load(PitC(c)) /\ p.main[k + 2] = Load(PitC(c))
ReadsLatched(p) ==
    /\ p.main \in Seq(Range(p.main)) /\ p.handler \in Seq(Range(p.handler))
    /\ \A i \in DOMAIN p.handler : LeavesPit(p.handler[i])
    /\ IF p.handler = <<>> THEN \A i \in DOMAIN p.main : p.main[i].op = "status" => ~p.main[i].ie
       ELSE p.handler[Len(p.handler)].op = "eret"
    /\ \E k \in 1..(Len(p.main) + 1), c \in Pit!Channels : ReadsAt(p, k, c)

\* The programs OneEntryPerExpiry is for.  While interrupts are on main takes no byte
\* and clears no latch; and when it turns them on no clear of its own waits in the
\* write FIFO, since it has loaded something or has stored FIFO times since.  The
\* handler clears both latches, or what it found latched, and loads something before
\* it returns; or main sets no counter up.
IsClear(i) == i.op = "found" \/ (i.op = "store" /\ i.reg = "TMR_CLR")
TakesByte(i) == i.op \in {"byte", "drain"} \/ (i.op = "load" /\ i.reg = "KBD_DATA")
ClearBoth == Store("TMR_CLR", {0, 1})
MainReadsBack(main) ==
    /\ \A i \in 1..Len(main) : IsClear(main[i]) => main[i] = ClearBoth
    /\ \A j \in 1..Len(main) : main[j].op = "status" /\ main[j].ie =>
          /\ \A k \in (j + 1)..Len(main) :
                (\A m \in (j + 1)..(k - 1) : main[m].op # "status") =>
                    ~IsClear(main[k]) /\ ~TakesByte(main[k])
          /\ \A c \in 1..(j - 1) : IsClear(main[c]) =>
                \/ \E l \in (c + 1)..(j - 1) : main[l].op = "load"
                \/ c < j - FIFO /\ \A s \in (j - FIFO)..(j - 1) : main[s].op = "store"
ServesAt(handler, a, b) ==
    /\ a < b /\ handler[b].op = "load"
    /\ \/ handler[a] = ClearBoth
       \/ a > 1 /\ handler[a].op = "found" /\ handler[a - 1] = Load("MAP_STAT")
    /\ \A i \in 1..Len(handler) : i # a => ~IsClear(handler[i])
ReadsBack(p) ==
    /\ MainReadsBack(p.main)
    /\ \A i \in 1..Len(p.handler) :
          p.handler[i].op # "status" /\ (p.handler[i].op = "eret" => i = Len(p.handler))
    /\ \/ p.handler = <<>>
       \/ \A i \in 1..Len(p.main) : LeavesPit(p.main[i])
       \/ \E a, b \in 1..Len(p.handler) : ServesAt(p.handler, a, b)

\* What the guest reads of the keyboard and the mouse is what was typed, in order,
\* each event whole or not at all, among the answers to its commands in theirs:
\* no byte lost, given twice or read as another, whatever is written and read
\* while they come; and the queue never takes more than it holds, since an event
\* is taken when it has room and the answers have the rest (i8042.sv:68-76,
\* 124-135, 332-334, 366-370).
AnswerBytes == {0, \hFA, \hAA, \h55, \h47}
Encoded(kept) ==
    FlattenSeq([i \in DOMAIN program.typed |->
                   IF i \in kept THEN program.typed[i].bytes ELSE <<>>])
TypedIsRead ==
    /\ IsPrefix(SelectSeq(got.bytes, LAMBDA b : b \in AnswerBytes), program.answers)
    /\ \E kept \in SUBSET DOMAIN program.typed :
          IsPrefix(SelectSeq(got.bytes, LAMBDA b : b \notin AnswerBytes), Encoded(kept))
    /\ Len(queue) <= QDEPTH

=============================================================================
