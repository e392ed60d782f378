------------------------------ MODULE Pit8254 ------------------------------
(***************************************************************************)
(* The three-channel timer of rtl/sgi/pit8254.sv.  Clock(acc) is one edge  *)
(* with the register access acc: [op |-> "none"], a read [op |-> "rd",     *)
(* sel] or a write [op |-> "wr", sel, din], where sel 0..2 is a counter    *)
(* and din a byte of its count, and sel 3 the control word, din =          *)
(* [sc, rw, mode] with rw "LATCH", "LSB", "MSB" or "BOTH".                 *)
(***************************************************************************)
EXTENDS Naturals

CONSTANTS
    BYTE,     \* values of a byte; a count has two.  256
    TICK_DIV  \* clocks of a tick

VARIABLES
    counter,  \* per channel: count, reload, latch, rw, mode and its flags
    tick      \* clocks of the tick under way

pitVars == <<counter, tick>>

Channels == 0..2

Init ==
    /\ counter = [i \in Channels |->
         [count |-> 0, reload |-> 0, latch |-> 0, latched |-> FALSE, rw |-> "BOTH",
          mode |-> 0, running |-> FALSE, rd_msb |-> FALSE, wr_msb |-> FALSE, out |-> FALSE]]
    /\ tick \in 0..(TICK_DIV - 1)

OneShot(m) == m \in {0, 4}
Ticks == tick >= TICK_DIV - 1
Expires(i) == Ticks /\ counter[i].running /\ counter[i].count = 0

\* A channel as the tick leaves it.
Counted(i) ==
    LET c == counter[i] IN
    IF ~(Ticks /\ c.running) THEN c
    ELSE IF c.count > 0 THEN [c EXCEPT !.count = @ - 1, !.out = FALSE]
    ELSE IF OneShot(c.mode) THEN [c EXCEPT !.running = FALSE, !.out = TRUE]
    ELSE [c EXCEPT !.count = c.reload, !.out = TRUE]

\* The control word: a copy for the reader, or a channel stopped and set up.
Commanded(i, din) ==
    IF din.rw = "LATCH"
    THEN [Counted(i) EXCEPT !.latch = counter[i].count, !.latched = TRUE, !.rd_msb = FALSE]
    ELSE [Counted(i) EXCEPT !.rw = din.rw, !.mode = din.mode, !.running = FALSE,
                            !.latched = FALSE, !.rd_msb = FALSE, !.wr_msb = FALSE]

\* A byte of a count; a channel set to both starts with the second.
Loaded(i, din) ==
    LET c == counter[i]
        load(v) == [Counted(i) EXCEPT !.reload = v, !.count = v, !.running = TRUE]
    IN CASE c.rw = "LSB" -> load(din)
         [] c.rw = "MSB" -> load(din * BYTE)
         [] c.rw \notin {"LSB", "MSB"} /\ ~c.wr_msb ->
               [Counted(i) EXCEPT !.reload = (c.reload \div BYTE) * BYTE + din,
                                  !.wr_msb = TRUE, !.running = FALSE]
         [] OTHER ->
               [load(din * BYTE + (c.reload % BYTE)) EXCEPT !.wr_msb = FALSE]

\* What a read returns, and what it does.
Dout(i) ==
    LET c == counter[i]
        v == IF c.latched THEN c.latch ELSE c.count
    IN IF c.rw = "MSB" \/ (c.rw = "BOTH" /\ c.rd_msb) THEN v \div BYTE ELSE v % BYTE

\* Mutant: the copy is gone after the first of its bytes.
HasReadOnce(i) == [Counted(i) EXCEPT !.rd_msb = ~@, !.latched = FALSE]

HasRead(i) ==
    LET c == counter[i] IN
    IF c.rw = "BOTH"
    THEN [Counted(i) EXCEPT !.rd_msb = ~@, !.latched = @ /\ ~c.rd_msb]
    ELSE [Counted(i) EXCEPT !.latched = FALSE]

Clock(acc) ==
    /\ tick' = IF Ticks THEN 0 ELSE tick + 1
    /\ counter' = [i \in Channels |->
         CASE acc.op = "wr" /\ acc.sel = 3 /\ acc.din.sc = i -> Commanded(i, acc.din)
           [] acc.op = "wr" /\ acc.sel = i -> Loaded(i, acc.din)
           [] acc.op = "rd" /\ acc.sel = i -> HasRead(i)
           [] OTHER -> Counted(i)]
=============================================================================
