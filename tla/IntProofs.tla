----------------------------- MODULE IntProofs ------------------------------
(***************************************************************************)
(* No expiry of a counter is lost between the 8254 and the latches of      *)
(* INT2, whatever program runs, however slow the bus is, and whenever the  *)
(* latches are cleared - as long as no counter runs on a count of zero,    *)
(* which expires in every tick with its output never falling.              *)
(*                                                                         *)
(* A count is read whole: the two bytes read after a latch command are of  *)
(* the count at the command.                                               *)
(*                                                                         *)
(* And the handler is entered for news: for no expiry twice, and for none  *)
(* that has been cleared.                                                  *)
(***************************************************************************)
EXTENDS IntTest, TLAPS

Timers == {0, 1}

(* The counters are armed with counts, and none of them with zero.         *)
CountsArmed == \A i \in Timers : counter[i].running => counter[i].reload \in Nat \ {0}

Fields == {"count", "reload", "latch", "latched", "rw", "mode", "running", "rd_msb",
           "wr_msb", "out"}

(* A counter about to expire has had its output low.                       *)
Falls(c) == c.running => c.count \in Nat /\ (c.out => c.count > 0)
CounterInv ==
    /\ counter = [i \in Pit!Channels |-> counter[i]]
    /\ \A i \in Timers : DOMAIN counter[i] = Fields /\ Falls(counter[i])

(* What expired in the last clock shows as an edge in this one; what       *)
(* expired before is latched or has been cleared.                          *)
EdgeInv == expired \subseteq {i \in Timers : counter[i].out /\ i \notin pit_out_d}

IInv == CounterInv /\ EdgeInv /\ NoExpiryLost

-----------------------------------------------------------------------------

\* A tick moves a counter on; an expiry raises the output.
LEMMA Counting ==
    ASSUME CounterInv, CountsArmed, NEW i \in Timers
    PROVE  /\ DOMAIN Pit!Counted(i) = Fields /\ Falls(Pit!Counted(i))
           /\ Pit!Expires(i) => Pit!Counted(i).out /\ ~counter[i].out
<1> DEFINE c == counter[i]
<1>1. DOMAIN c = Fields /\ Falls(c) /\ (c.running => c.reload \in Nat \ {0})
  BY DEF CounterInv, CountsArmed
<1> HIDE DEF c
<1>2. CASE ~(Pit!Ticks /\ c.running)
  BY <1>1, <1>2 DEF Pit!Counted, Pit!Expires, c
<1>3. CASE Pit!Ticks /\ c.running /\ c.count > 0
  <2>1. Pit!Counted(i) = [c EXCEPT !.count = @ - 1, !.out = FALSE]
    BY <1>3 DEF Pit!Counted, c
  <2>2. /\ DOMAIN Pit!Counted(i) = Fields
        /\ Pit!Counted(i).count = c.count - 1 /\ Pit!Counted(i).out = FALSE
    BY <1>1, <2>1 DEF Fields
  <2>3. c.count \in Nat /\ c.count # 0
    BY <1>1, <1>3 DEF Falls
  <2>4. QED BY <1>3, <2>2, <2>3 DEF Falls, Pit!Expires, c
<1>4. CASE Pit!Ticks /\ c.running /\ ~(c.count > 0)
  <2>1. ~c.out
    BY <1>1, <1>4 DEF Falls
  <2>2. CASE Pit!OneShot(c.mode)
    <3>1. Pit!Counted(i) = [c EXCEPT !.running = FALSE, !.out = TRUE]
      BY <1>4, <2>2 DEF Pit!Counted, c
    <3>2. DOMAIN Pit!Counted(i) = Fields /\ ~Pit!Counted(i).running /\ Pit!Counted(i).out
      BY <1>1, <3>1 DEF Fields
    <3>3. QED BY <2>1, <3>2 DEF Falls, c
  <2>3. CASE ~Pit!OneShot(c.mode)
    <3>1. Pit!Counted(i) = [c EXCEPT !.count = c.reload, !.out = TRUE]
      BY <1>4, <2>3 DEF Pit!Counted, c
    <3>2. /\ DOMAIN Pit!Counted(i) = Fields /\ Pit!Counted(i).count = c.reload
          /\ Pit!Counted(i).out
      BY <1>1, <3>1 DEF Fields
    <3>3. c.reload \in Nat \ {0}
      BY <1>1, <1>4
    <3>4. QED BY <2>1, <3>2, <3>3 DEF Falls, c
  <2>4. QED BY <2>2, <2>3
<1>5. QED BY <1>2, <1>3, <1>4

\* A register access changes a counter's count only to arm it, and never its output.
LEMMA Accessing ==
    ASSUME CounterInv, CountsArmed, CountsArmed', NEW acc, Pit!Clock(acc), NEW i \in Timers
    PROVE  /\ DOMAIN counter'[i] = Fields /\ Falls(counter'[i])
           /\ Pit!Expires(i) => counter'[i].out /\ ~counter[i].out
<1> DEFINE d == Pit!Counted(i)
<1>1. /\ DOMAIN d = Fields /\ Falls(d)
      /\ Pit!Expires(i) => d.out /\ ~counter[i].out
  BY Counting
<1>2. counter'[i] = CASE acc.op = "wr" /\ acc.sel = 3 /\ acc.din.sc = i -> Pit!Commanded(i, acc.din)
                      [] acc.op = "wr" /\ acc.sel = i -> Pit!Loaded(i, acc.din)
                      [] acc.op = "rd" /\ acc.sel = i -> Pit!HasRead(i)
                      [] OTHER -> d
  BY DEF Pit!Clock, Pit!Channels, Timers
<1>3. counter'[i].running => counter'[i].reload \in Nat \ {0}
  BY DEF CountsArmed
<1> HIDE DEF d
\* A counter moved on, with other fields, or stopped, or loaded.
<1>4. \/ counter'[i] = d
      \/ /\ DOMAIN counter'[i] = Fields /\ counter'[i].out = d.out
         /\ \/ counter'[i].count = d.count /\ counter'[i].running = d.running
            \/ ~counter'[i].running
            \/ counter'[i].count = counter'[i].reload
  <2>1. CASE counter'[i] = Pit!Commanded(i, acc.din)
    BY <1>1, <2>1 DEF Pit!Commanded, d, Fields
  <2>2. CASE counter'[i] = Pit!Loaded(i, acc.din)
    <3> DEFINE din == acc.din
               c == counter[i]
               load(v) == [d EXCEPT !.reload = v, !.count = v, !.running = TRUE]
    <3>1. ASSUME NEW v
          PROVE  /\ DOMAIN load(v) = Fields /\ load(v).out = d.out
                 /\ load(v).count = v /\ load(v).reload = v
      BY <1>1 DEF Fields
    <3>2. ASSUME NEW v, NEW e, e = [load(v) EXCEPT !.wr_msb = FALSE]
          PROVE  /\ DOMAIN e = Fields /\ e.out = d.out /\ e.count = e.reload
      <4>1. DOMAIN e = DOMAIN load(v) /\ e.out = load(v).out /\ e.count = load(v).count
            /\ e.reload = load(v).reload
        BY <3>1, <3>2 DEF Fields
      <4>2. QED BY <3>1, <4>1
    <3>3. ASSUME NEW v, NEW e, e = [d EXCEPT !.reload = v, !.wr_msb = TRUE, !.running = FALSE]
          PROVE  DOMAIN e = Fields /\ e.out = d.out /\ ~e.running
      BY <1>1, <3>3 DEF Fields
    <3> HIDE DEF load
    <3>4. \/ \E v : counter'[i] = load(v) \/ counter'[i] = [load(v) EXCEPT !.wr_msb = FALSE]
          \/ \E v : counter'[i] = [d EXCEPT !.reload = v, !.wr_msb = TRUE, !.running = FALSE]
      BY <2>2, Zenon DEF Pit!Loaded, d, load
    <3>5. ASSUME NEW v, counter'[i] = load(v)
          PROVE  /\ DOMAIN counter'[i] = Fields /\ counter'[i].out = d.out
                 /\ counter'[i].count = counter'[i].reload
      BY <3>1, <3>5
    <3>6. ASSUME NEW v, counter'[i] = [load(v) EXCEPT !.wr_msb = FALSE]
          PROVE  /\ DOMAIN counter'[i] = Fields /\ counter'[i].out = d.out
                 /\ counter'[i].count = counter'[i].reload
      BY <3>2, <3>6
    <3>7. ASSUME NEW v, counter'[i] = [d EXCEPT !.reload = v, !.wr_msb = TRUE, !.running = FALSE]
          PROVE  DOMAIN counter'[i] = Fields /\ counter'[i].out = d.out /\ ~counter'[i].running
      BY <3>3, <3>7
    <3>8. QED BY <3>4, <3>5, <3>6, <3>7, Zenon
  <2>3. CASE counter'[i] = Pit!HasRead(i)
    BY <1>1, <2>3 DEF Pit!HasRead, d, Fields
  <2>4. QED BY <1>2, <2>1, <2>2, <2>3
<1>5. QED BY <1>1, <1>3, <1>4 DEF Falls

LEMMA Initially == Init => IInv
<1> SUFFICES ASSUME Init
             PROVE  IInv
  OBVIOUS
<1>1. \A i \in Pit!Channels : counter[i] =
         [count |-> 0, reload |-> 0, latch |-> 0, latched |-> FALSE, rw |-> "BOTH",
          mode |-> 0, running |-> FALSE, rd_msb |-> FALSE, wr_msb |-> FALSE, out |-> FALSE]
  BY DEF Init, Pit!Init
<1>2. CounterInv
  <2>1. counter = [i \in Pit!Channels |-> counter[i]]
    BY DEF Init, Pit!Init
  <2>2. ASSUME NEW i \in Timers
        PROVE  DOMAIN counter[i] = Fields /\ Falls(counter[i])
    BY <1>1 DEF Falls, Fields, Timers, Pit!Channels
  <2>3. QED BY <2>1, <2>2 DEF CounterInv
<1>3. QED BY <1>2 DEF Init, IInv, EdgeInv, NoExpiryLost, Ints!Init

\* Latches go only with a clear, and not in the clock of an edge.
LEMMA Latching ==
    ASSUME NEW acc, NEW out, Ints!Clock(acc, out), Observes(acc), NoExpiryLost,
           expired \subseteq (out \ pit_out_d) \intersect Timers
    PROVE  NoExpiryLost'
<1> DEFINE clr == IF acc.op = "wr" /\ acc.reg = "TMR_CLR" THEN acc.value ELSE {}
<1>1. owed' = (owed \ clr) \union expired
  BY DEF Observes
<1>2. tmr_stat' = IF Ints!PitEdge(out) # {} THEN tmr_stat \union Ints!PitEdge(out)
                  ELSE tmr_stat \ clr
  BY DEF Ints!Clock, Ints!Latches
<1>3. expired \subseteq Ints!PitEdge(out)
  BY DEF Ints!PitEdge, Timers
<1>4. QED BY <1>1, <1>2, <1>3 DEF NoExpiryLost

LEMMA Step ==
    ASSUME IInv, CountsArmed, CountsArmed', Clock
    PROVE  IInv'
<1> DEFINE outs == {i \in Pit!Channels : counter[i].out}
<1>1. PICK acc \in {Access, [op |-> "none"]} :
         /\ Pit!Clock(PitAccess(acc)) /\ Ints!Clock(acc, outs) /\ Observes(acc)
  BY DEF Clock
<1>2. CounterInv'
  <2>1. counter' = [i \in Pit!Channels |-> counter'[i]]
    BY <1>1 DEF Pit!Clock
  <2>2. \A i \in Timers : DOMAIN counter'[i] = Fields /\ Falls(counter'[i])
    BY <1>1, Accessing DEF IInv
  <2>3. QED BY <2>1, <2>2 DEF CounterInv, Falls
<1>3. EdgeInv'
  <2>1. expired' = {i \in Timers : Pit!Expires(i)} /\ pit_out_d' = outs
    BY <1>1 DEF Observes, Ints!Clock, Timers
  <2>2. \A i \in Timers : Pit!Expires(i) => counter'[i].out /\ ~counter[i].out
    BY <1>1, Accessing DEF IInv
  <2>3. QED BY <2>1, <2>2 DEF EdgeInv
<1>4. NoExpiryLost'
  <2>1. expired \subseteq (outs \ pit_out_d) \intersect Timers
    BY DEF IInv, EdgeInv, Timers, Pit!Channels
  <2>2. QED BY <1>1, <2>1, Latching DEF IInv
<1>5. QED BY <1>2, <1>3, <1>4 DEF IInv

(* No expiry is lost on its way to the latches of INT2, by the clear of    *)
(* the latch or of the other one in the very clock, nor by a register      *)
(* access in the clock of the tick, as long as the counters are armed.     *)
THEOREM ExpiriesKept == Spec /\ []CountsArmed => []NoExpiryLost
<1>1. IInv /\ CountsArmed /\ CountsArmed' /\ [Clock]_vars => IInv'
  <2>1. IInv /\ UNCHANGED vars => IInv'
    BY DEF IInv, CounterInv, Falls, EdgeInv, NoExpiryLost, vars
  <2>2. QED BY <2>1, Step
<1>2. IInv => NoExpiryLost
  BY DEF IInv
<1>3. QED BY Initially, <1>1, <1>2, PTL DEF Spec

-----------------------------------------------------------------------------
(* A count read through its latch.  Between the latch command and the two  *)
(* reads the write FIFO and the handler lie: a store main gave before, and *)
(* one the handler gives after, must not reach the channel in between.     *)

PitRegs == PitCounts \union {"PIT_CTL"}

(* What a store can hold that sets a channel up, and one that latches.     *)
Plain(e) ==
    /\ e.reg = "PIT_CTL" => e.value.rw = "BOTH"
    /\ e.reg \in PitCounts => e.value \in Nat
Quiet(e) == e.reg \notin PitRegs
Latches(e, c) == e.reg = "PIT_CTL" /\ e.value.rw = "LATCH" /\ e.value.sc = c

(* Every channel is set up by both bytes.                                  *)
ChannelOk(ch) ==
    DOMAIN ch = Fields /\ ch.count \in Nat /\ ch.reload \in Nat /\ ch.rw = "BOTH"
ChannelsOk ==
    /\ counter = [i \in Pit!Channels |-> counter[i]]
    /\ \A i \in Pit!Channels : ChannelOk(counter[i])

(* The channel holds the copy, and the reader has had its first byte.      *)
Held(c, first) ==
    /\ counter[c].latched /\ counter[c].latch = latched_at /\ latched_at \in Nat
    /\ counter[c].rd_msb = first

\* Bytes and counts.
LEMMA Bytes ==
    /\ BYTE \in Nat \ {0}
    /\ \A n \in Nat : n % BYTE \in Nat /\ n \div BYTE \in Nat
    /\ \A n \in Nat : (n % BYTE) + BYTE * (n \div BYTE) = n
    /\ \A a, b, n \in Nat : (a * BYTE) + b \in Nat /\ (a * BYTE) + (n % BYTE) \in Nat
<1>1. BYTE \in Nat \ {0}
  BY IntAssumption
<1>2. \A b \in Nat \ {0} : \A n \in Nat :
         n % b \in Nat /\ n \div b \in Nat /\ (n % b) + b * (n \div b) = n
  OBVIOUS
<1>3. \A n \in Nat : n % BYTE \in Nat /\ n \div BYTE \in Nat /\ (n % BYTE) + BYTE * (n \div BYTE) = n
  BY <1>1, <1>2
<1>4. \A a, b, m \in Nat : (a * m) + b \in Nat
  OBVIOUS
<1>5. QED BY <1>1, <1>3, <1>4

\* The registers of the counts are three.
LEMMA PitNames ==
    /\ \A i, j \in Pit!Channels : PitC(i) = PitC(j) => i = j
    /\ \A i \in Pit!Channels : PitC(i) \in {"PIT_C0", "PIT_C1", "PIT_C2"} /\ PitC(i) \in PitCounts
    /\ \A r \in PitCounts : r \in {"PIT_C0", "PIT_C1", "PIT_C2"}
    /\ \A acc : acc.op # "none" /\ acc.reg \notin PitCounts => Channel(acc) = {}
    /\ \A acc, c : c \in Pit!Channels /\ acc.op # "none" /\ acc.reg = PitC(c) => Channel(acc) = {c}
<1>1. /\ PitC(0) = "PIT_C0" /\ PitC(1) = "PIT_C1" /\ PitC(2) = "PIT_C2"
      /\ Pit!Channels = {0, 1, 2}
  BY DEF PitC, Pit!Channels
<1>2. \A i, j \in Pit!Channels : PitC(i) = PitC(j) => i = j
  BY <1>1
<1>3. \A i \in Pit!Channels : PitC(i) \in {"PIT_C0", "PIT_C1", "PIT_C2"} /\ PitC(i) \in PitCounts
  BY <1>1 DEF PitCounts
<1>4. QED BY <1>2, <1>3 DEF PitCounts, Channel

\* A tick leaves the copy and the ways to read it alone.
LEMMA CountsOn ==
    ASSUME NEW i \in Pit!Channels, ChannelOk(counter[i])
    PROVE  /\ ChannelOk(Pit!Counted(i))
           /\ \A f \in {"latched", "latch", "rd_msb", "wr_msb"} : Pit!Counted(i)[f] = counter[i][f]
<1> DEFINE ch == counter[i]
<1>1. ChannelOk(ch)
  OBVIOUS
<1>2. \/ Pit!Counted(i) = ch
      \/ ch.count > 0 /\ Pit!Counted(i) = [ch EXCEPT !.count = @ - 1, !.out = FALSE]
      \/ Pit!Counted(i) = [ch EXCEPT !.running = FALSE, !.out = TRUE]
      \/ Pit!Counted(i) = [ch EXCEPT !.count = ch.reload, !.out = TRUE]
  BY DEF Pit!Counted
<1> HIDE DEF ch
<1>3. CASE ch.count > 0 /\ Pit!Counted(i) = [ch EXCEPT !.count = @ - 1, !.out = FALSE]
  <2>1. ch.count - 1 \in Nat
    BY <1>1, <1>3 DEF ChannelOk
  <2>2. QED BY <1>1, <1>3, <2>1 DEF ChannelOk, Fields, ch
<1>4. CASE Pit!Counted(i) = [ch EXCEPT !.running = FALSE, !.out = TRUE]
  BY <1>1, <1>4 DEF ChannelOk, Fields, ch
<1>5. CASE Pit!Counted(i) = [ch EXCEPT !.count = ch.reload, !.out = TRUE]
  BY <1>1, <1>5 DEF ChannelOk, Fields, ch
<1>6. CASE Pit!Counted(i) = ch
  BY <1>1, <1>6 DEF ch
<1>7. QED BY <1>2, <1>3, <1>4, <1>5, <1>6

\* What an access is to a channel.
LEMMA AtChannel ==
    ASSUME NEW acc, Pit!Clock(PitAccess(acc)), NEW i \in Pit!Channels
    PROVE  /\ acc.op = "wr" /\ acc.reg = "PIT_CTL" =>
                counter'[i] = IF acc.value.sc = i THEN Pit!Commanded(i, acc.value) ELSE Pit!Counted(i)
           /\ acc.op = "wr" /\ acc.reg = PitC(i) => counter'[i] = Pit!Loaded(i, acc.value)
           /\ acc.op = "rd" /\ acc.reg = PitC(i) => counter'[i] = Pit!HasRead(i)
           /\ (\/ acc.op = "none"
               \/ acc.op \in {"rd", "wr"} /\ acc.reg \notin {"PIT_CTL", PitC(i)}
               \/ acc.op = "rd" /\ acc.reg = "PIT_CTL")
              => counter'[i] = Pit!Counted(i)
<1> DEFINE a == PitAccess(acc)
<1>1. counter'[i] = CASE a.op = "wr" /\ a.sel = 3 /\ a.din.sc = i -> Pit!Commanded(i, a.din)
                      [] a.op = "wr" /\ a.sel = i -> Pit!Loaded(i, a.din)
                      [] a.op = "rd" /\ a.sel = i -> Pit!HasRead(i)
                      [] OTHER -> Pit!Counted(i)
  BY DEF Pit!Clock
<1>2. Pit!Channels = {0, 1, 2}
  BY DEF Pit!Channels
<1>3. CASE acc.op = "wr" /\ acc.reg = "PIT_CTL"
  <2>1. a = [op |-> "wr", sel |-> 3, din |-> acc.value]
    BY <1>3, PitNames DEF PitAccess
  <2>2. QED BY <1>1, <1>2, <1>3, <2>1, PitNames
<1>4. ASSUME NEW j \in Pit!Channels, acc.op \in {"rd", "wr"}, acc.reg = PitC(j)
      PROVE  a = IF acc.op = "wr" THEN [op |-> "wr", sel |-> j, din |-> acc.value]
                 ELSE [op |-> "rd", sel |-> j]
  <2>1. Channel(acc) = {j} /\ acc.reg # "PIT_CTL"
    BY <1>4, PitNames
  <2>2. (CHOOSE n \in Channel(acc) : TRUE) = j
    BY <2>1
  <2>3. QED BY <1>4, <2>1, <2>2 DEF PitAccess
<1>5. CASE acc.op \in {"rd", "wr"} /\ acc.reg \in PitCounts
  <2>1. PICK j \in Pit!Channels : acc.reg = PitC(j)
    BY <1>5 DEF PitCounts
  <2>2. a = IF acc.op = "wr" THEN [op |-> "wr", sel |-> j, din |-> acc.value]
            ELSE [op |-> "rd", sel |-> j]
    BY <1>4, <1>5, <2>1
  <2>3. acc.reg # "PIT_CTL" /\ (acc.reg = PitC(i) <=> i = j)
    BY <2>1, PitNames
  <2>4. CASE acc.op = "wr"
    BY <1>1, <1>2, <2>2, <2>3, <2>4
  <2>5. CASE acc.op = "rd"
    BY <1>1, <1>2, <2>2, <2>3, <2>5
  <2>6. QED BY <1>5, <2>4, <2>5
<1>6. ASSUME \/ acc.op = "none"
             \/ acc.op \in {"rd", "wr"} /\ acc.reg \notin PitRegs
             \/ acc.op = "rd" /\ acc.reg = "PIT_CTL"
      PROVE  counter'[i] = Pit!Counted(i)
  <2>1. Channel(acc) = {}
    BY <1>6, PitNames DEF PitRegs, Channel
  <2>2. ~(acc.op = "wr" /\ acc.reg = "PIT_CTL")
    BY <1>6 DEF PitRegs
  <2>3. a = [op |-> "none"]
    BY <2>1, <2>2 DEF PitAccess
  <2>4. QED BY <1>1, <2>3
<1>7. QED BY <1>3, <1>5, <1>6, PitNames DEF PitRegs

\* The channels stay set up by both bytes, whatever of this is stored.
LEMMA ChannelsGoOn ==
    ASSUME ChannelsOk, NEW acc, Pit!Clock(PitAccess(acc)), acc.op \in {"none", "rd", "wr"},
           acc.op = "wr" => Plain(acc) \/ (acc.reg = "PIT_CTL" /\ acc.value.rw = "LATCH")
    PROVE  ChannelsOk'
<1>1. counter' = [i \in Pit!Channels |-> counter'[i]]
  BY DEF Pit!Clock
<1>2. ASSUME NEW i \in Pit!Channels
      PROVE  ChannelOk(counter'[i])
  <2> DEFINE d == Pit!Counted(i)
             w == acc.value
             ch == counter[i]
  <2>1. ChannelOk(d) /\ ChannelOk(ch)
    BY CountsOn DEF ChannelsOk
  <2>2. \/ counter'[i] = d
        \/ counter'[i] = Pit!Commanded(i, w) /\ w.rw \in {"BOTH", "LATCH"}
        \/ counter'[i] = Pit!Loaded(i, w) /\ w \in Nat
        \/ counter'[i] = Pit!HasRead(i)
    <3>1. PitC(i) \in PitCounts /\ PitC(i) # "PIT_CTL"
      BY PitNames
    <3>2. CASE acc.op = "wr" /\ acc.reg = "PIT_CTL"
      <4>1. acc.value.rw \in {"BOTH", "LATCH"}
        BY <3>2 DEF Plain
      <4>2. QED BY <3>2, <4>1, AtChannel
    <3>3. CASE acc.op = "wr" /\ acc.reg = PitC(i)
      BY <3>1, <3>3, AtChannel DEF Plain
    <3>4. CASE acc.op = "rd" /\ acc.reg = PitC(i)
      BY <3>4, AtChannel
    <3>5. QED BY <3>1, <3>2, <3>3, <3>4, AtChannel
  <2>3. CASE counter'[i] = Pit!Commanded(i, w) /\ w.rw \in {"BOTH", "LATCH"}
    <3>1. \/ counter'[i] = [d EXCEPT !.latch = ch.count, !.latched = TRUE, !.rd_msb = FALSE]
          \/ counter'[i] = [d EXCEPT !.rw = "BOTH", !.mode = w.mode, !.running = FALSE,
                                     !.latched = FALSE, !.rd_msb = FALSE, !.wr_msb = FALSE]
      BY <2>3, Zenon DEF Pit!Commanded
    <3> HIDE DEF d, w, ch
    <3>2. QED BY <2>1, <3>1 DEF ChannelOk, Fields
  <2>4. CASE counter'[i] = Pit!Loaded(i, w) /\ w \in Nat
    <3> DEFINE full == w * BYTE + (ch.reload % BYTE)
               low == (ch.reload \div BYTE) * BYTE + w
    <3>1. full \in Nat /\ low \in Nat
      BY <2>1, <2>4, Bytes DEF ChannelOk
    <3>2. \/ counter'[i] = [d EXCEPT !.reload = low, !.wr_msb = TRUE, !.running = FALSE]
          \/ counter'[i] = [[d EXCEPT !.reload = full, !.count = full, !.running = TRUE]
                               EXCEPT !.wr_msb = FALSE]
      <4>1. ch.rw = "BOTH"
        BY <2>1 DEF ChannelOk
      <4>2. CASE ch.wr_msb
        BY <2>4, <4>1, <4>2 DEF Pit!Loaded
      <4>3. CASE ~ch.wr_msb
        BY <2>4, <4>1, <4>3 DEF Pit!Loaded
      <4>4. QED BY <4>2, <4>3
    <3> HIDE DEF full, low, d, w, ch
    <3>3. CASE counter'[i] = [d EXCEPT !.reload = low, !.wr_msb = TRUE, !.running = FALSE]
      BY <2>1, <3>1, <3>3 DEF ChannelOk, Fields
    <3>4. ASSUME NEW e, e = [d EXCEPT !.reload = full, !.count = full, !.running = TRUE]
          PROVE  ChannelOk(e)
      BY <2>1, <3>1, <3>4 DEF ChannelOk, Fields
    <3>5. ASSUME NEW e, ChannelOk(e)
          PROVE  ChannelOk([e EXCEPT !.wr_msb = FALSE])
      BY <3>5 DEF ChannelOk, Fields
    <3> DEFINE loaded == [d EXCEPT !.reload = full, !.count = full, !.running = TRUE]
    <3>6. ChannelOk([loaded EXCEPT !.wr_msb = FALSE])
      <4>1. ChannelOk(loaded)
        BY <3>4
      <4> HIDE DEF loaded
      <4>2. QED BY <3>5, <4>1
    <3>7. QED BY <3>2, <3>3, <3>6, Zenon
  <2>5. CASE counter'[i] = Pit!HasRead(i)
    <3>1. \/ counter'[i] = [d EXCEPT !.rd_msb = ~@, !.latched = @ /\ ~ch.rd_msb]
          \/ counter'[i] = [d EXCEPT !.latched = FALSE]
      BY <2>5 DEF Pit!HasRead
    <3> HIDE DEF d, w, ch
    <3>2. QED BY <2>1, <3>1 DEF ChannelOk, Fields
  <2>6. QED BY <2>1, <2>2, <2>3, <2>4, <2>5
<1>3. QED BY <1>1, <1>2 DEF ChannelsOk

\* The copy is taken at the command.
LEMMA TakesCopy ==
    ASSUME ChannelsOk, NEW acc, Pit!Clock(PitAccess(acc)), Observes(acc),
           NEW c \in Pit!Channels, acc.op = "wr", Latches(acc, c)
    PROVE  Held(c, FALSE)'
<1>1. ChannelOk(Pit!Counted(c)) /\ counter[c].count \in Nat
  BY CountsOn DEF ChannelsOk, ChannelOk
<1>2. counter'[c] = [Pit!Counted(c) EXCEPT !.latch = counter[c].count, !.latched = TRUE,
                                           !.rd_msb = FALSE]
  BY AtChannel DEF Latches, Pit!Commanded
<1>3. latched_at' = counter[c].count
  BY DEF Observes, Latches
<1>4. QED BY <1>1, <1>2, <1>3 DEF Held, ChannelOk, Fields

\* It stays while nothing comes to the timer.
LEMMA CopyStays ==
    ASSUME ChannelsOk, NEW acc, Pit!Clock(PitAccess(acc)), NEW c \in Pit!Channels,
           NEW first \in BOOLEAN, Held(c, first), latched_at' = latched_at,
           acc.op = "none" \/ (acc.op \in {"rd", "wr"} /\ acc.reg \notin PitRegs)
    PROVE  Held(c, first)'
<1>1. counter'[c] = Pit!Counted(c)
  <2>1. PitC(c) \in PitCounts
    BY PitNames
  <2>2. QED BY <2>1, AtChannel DEF PitRegs
<1>2. \A f \in {"latched", "latch", "rd_msb"} : Pit!Counted(c)[f] = counter[c][f]
  BY CountsOn DEF ChannelsOk
<1>3. QED BY <1>1, <1>2 DEF Held

\* The first read returns its low byte and leaves it, the second its high one.
LEMMA ReadsCopy ==
    ASSUME ChannelsOk, NEW acc, Pit!Clock(PitAccess(acc)), Loads(acc), NEW c \in Pit!Channels,
           NEW first \in BOOLEAN, Held(c, first), latched_at' = latched_at,
           acc.op = "rd", acc.reg = PitC(c), "count" \in DOMAIN got
    PROVE  /\ got'.count = Append(got.count, IF first THEN latched_at \div BYTE
                                             ELSE latched_at % BYTE)
           /\ ~first => Held(c, TRUE)'
<1>1. Channel(acc) = {c} /\ acc.reg \in {"PIT_C0", "PIT_C1", "PIT_C2"}
  BY PitNames
<1>2. counter[c].rw = "BOTH"
  BY DEF ChannelsOk, ChannelOk
<1>3. got' = [got EXCEPT !.count = Append(@, Pit!Dout(c))]
  <2>1. (CHOOSE i \in Channel(acc) : TRUE) = c
    BY <1>1
  <2>2. QED BY <1>1, <2>1 DEF Loads
<1>4. Pit!Dout(c) = IF first THEN latched_at \div BYTE ELSE latched_at % BYTE
  BY <1>2 DEF Pit!Dout, Held
<1>5. ~first => Held(c, TRUE)'
  <2>1. counter'[c] = [Pit!Counted(c) EXCEPT !.rd_msb = ~@, !.latched = @ /\ ~counter[c].rd_msb]
    <3>1. counter'[c] = Pit!HasRead(c)
      BY AtChannel
    <3>2. QED BY <1>2, <3>1 DEF Pit!HasRead
  <2>2. /\ ChannelOk(Pit!Counted(c))
        /\ \A f \in {"latched", "latch", "rd_msb"} : Pit!Counted(c)[f] = counter[c][f]
    BY CountsOn DEF ChannelsOk
  <2>3. QED BY <2>1, <2>2 DEF Held, ChannelOk, Fields
<1>6. QED BY <1>3, <1>4, <1>5

-----------------------------------------------------------------------------
(* The processor and its write FIFO.                                       *)

\* What the FIFO can hold: main's stores, the handler's, and the clears of found.
Entries ==
    {[reg |-> i.reg, value |-> i.value] : i \in Range(program.main) \union Range(program.handler)}
    \union {[reg |-> "TMR_CLR", value |-> v] : v \in SUBSET Nat}

AllPlain(f) == \A n \in 1..Len(f) : Plain(f[n])
AllQuiet(f) == \A n \in 1..Len(f) : Quiet(f[n])

(* The latch command is on its way: before it what sets up, behind it what *)
(* leaves the timer alone.                                                 *)
Pending(f, c) ==
    \E m \in 1..Len(f) :
        /\ Latches(f[m], c)
        /\ \A n \in 1..(m - 1) : Plain(f[n])
        /\ \A n \in (m + 1)..Len(f) : Quiet(f[n])

GotFields == {"map", "l0", "count", "obf", "bytes"}

(* The processor is at an instruction it has.                              *)
CpuInv ==
    /\ ReadsLatched(program)
    /\ pc \in 1..(Len(program.main) + 1) /\ hpc \in 0..Len(program.handler)
    /\ DOMAIN sr = {"ie", "im", "exl"} /\ (sr.ie => program.handler # <<>>)
    /\ DOMAIN got = GotFields /\ got.map \subseteq Nat /\ tmr_stat \subseteq Nat
    /\ fifo \in Seq(Entries)

(* What was read is the two bytes of n.                                    *)
Both(read, n) == Len(read) = 2 /\ read[1] = n % BYTE /\ read[2] = n \div BYTE

(* How far main's reading of the count has come.                           *)
Stage(k, c) ==
    /\ pc <= k => AllPlain(fifo) /\ got.count = <<>>
    /\ pc = k + 1 => /\ got.count = <<>>
                     /\ Pending(fifo, c) \/ (AllQuiet(fifo) /\ Held(c, FALSE))
    /\ pc = k + 2 => AllQuiet(fifo) /\ Held(c, TRUE) /\ got.count = <<latched_at % BYTE>>
    /\ pc > k + 2 => /\ AllPlain(fifo) /\ latched_at \in Nat
                     /\ Both(got.count, latched_at)

ReadInv ==
    /\ CpuInv /\ ChannelsOk
    /\ \E k \in 1..(Len(program.main) + 1), c \in Pit!Channels :
          ReadsAt(program, k, c) /\ Stage(k, c)

\* The head and the tail of a queue, and an entry behind it.
LEMMA Queues ==
    ASSUME NEW S, NEW f \in Seq(S)
    PROVE  /\ f # <<>> => /\ Len(f) \in Nat \ {0} /\ Head(f) = f[1] /\ Head(f) \in S
                          /\ Tail(f) \in Seq(S) /\ Len(Tail(f)) = Len(f) - 1
                          /\ \A n \in 1..(Len(f) - 1) : Tail(f)[n] = f[n + 1]
           /\ \A e \in S : /\ f \o <<e>> \in Seq(S) /\ Len(f \o <<e>>) = Len(f) + 1
                           /\ (f \o <<e>>)[Len(f) + 1] = e
                           /\ \A n \in 1..Len(f) : (f \o <<e>>)[n] = f[n]
           /\ f \o <<>> = f
  OBVIOUS

\* The head goes.
LEMMA Pops ==
    ASSUME NEW S, NEW f \in Seq(S), f # <<>>, NEW c
    PROVE  /\ AllPlain(f) => Plain(f[1]) /\ AllPlain(Tail(f))
           /\ AllQuiet(f) => Quiet(f[1]) /\ AllQuiet(Tail(f))
           /\ Pending(f, c) => \/ Plain(f[1]) /\ Pending(Tail(f), c)
                               \/ Latches(f[1], c) /\ AllQuiet(Tail(f))
<1>1. /\ Len(f) \in Nat \ {0} /\ Len(Tail(f)) = Len(f) - 1
      /\ \A n \in 1..(Len(f) - 1) : Tail(f)[n] = f[n + 1]
  BY Queues
<1>2. AllPlain(f) => Plain(f[1]) /\ AllPlain(Tail(f))
  BY <1>1 DEF AllPlain
<1>3. AllQuiet(f) => Quiet(f[1]) /\ AllQuiet(Tail(f))
  BY <1>1 DEF AllQuiet
<1>4. ASSUME NEW m \in 1..Len(f), Latches(f[m], c),
             \A n \in 1..(m - 1) : Plain(f[n]), \A n \in (m + 1)..Len(f) : Quiet(f[n])
      PROVE  \/ Plain(f[1]) /\ Pending(Tail(f), c)
             \/ Latches(f[1], c) /\ AllQuiet(Tail(f))
  <2>1. CASE m = 1
    BY <1>1, <1>4, <2>1 DEF AllQuiet
  <2>2. CASE m > 1
    <3>1. m - 1 \in 1..Len(Tail(f)) /\ Tail(f)[m - 1] = f[m]
      BY <1>1, <2>2
    <3>2. \A n \in 1..(m - 1 - 1) : Plain(Tail(f)[n])
      BY <1>1, <1>4, <2>2
    <3>3. \A n \in (m - 1 + 1)..Len(Tail(f)) : Quiet(Tail(f)[n])
      BY <1>1, <1>4, <2>2
    <3>4. Plain(f[1])
      BY <1>4, <2>2
    <3>5. QED BY <1>4, <3>1, <3>2, <3>3, <3>4 DEF Pending
  <2>3. QED BY <2>1, <2>2
<1>5. QED BY <1>2, <1>3, <1>4 DEF Pending

\* An entry comes behind.
LEMMA Pushes ==
    ASSUME NEW S, NEW f \in Seq(S), NEW e \in S, NEW c
    PROVE  /\ AllPlain(f) /\ Plain(e) => AllPlain(f \o <<e>>)
           /\ AllQuiet(f) /\ Quiet(e) => AllQuiet(f \o <<e>>)
           /\ Pending(f, c) /\ Quiet(e) => Pending(f \o <<e>>, c)
           /\ AllPlain(f) /\ Latches(e, c) => Pending(f \o <<e>>, c)
<1> DEFINE g == f \o <<e>>
<1>1. /\ Len(f) \in Nat /\ Len(g) = Len(f) + 1 /\ g[Len(f) + 1] = e
      /\ \A n \in 1..Len(f) : g[n] = f[n]
  BY Queues
<1> HIDE DEF g
<1>2. AllPlain(f) /\ Plain(e) => AllPlain(g)
  BY <1>1 DEF AllPlain
<1>3. AllQuiet(f) /\ Quiet(e) => AllQuiet(g)
  BY <1>1 DEF AllQuiet
<1>4. ASSUME Pending(f, c), Quiet(e)
      PROVE  Pending(g, c)
  <2>1. PICK m \in 1..Len(f) : /\ Latches(f[m], c) /\ \A n \in 1..(m - 1) : Plain(f[n])
                               /\ \A n \in (m + 1)..Len(f) : Quiet(f[n])
    BY <1>4 DEF Pending
  <2>2. m \in 1..Len(g) /\ Latches(g[m], c) /\ \A n \in 1..(m - 1) : Plain(g[n])
    BY <1>1, <2>1
  <2>3. \A n \in (m + 1)..Len(g) : Quiet(g[n])
    <3>1. SUFFICES ASSUME NEW n \in (m + 1)..Len(g)
                   PROVE  Quiet(g[n])
      OBVIOUS
    <3>2. CASE n \in (m + 1)..Len(f)
      BY <1>1, <2>1, <3>2
    <3>3. CASE n = Len(f) + 1
      BY <1>1, <1>4, <3>3
    <3>4. QED BY <1>1, <3>2, <3>3
  <2>4. QED BY <2>2, <2>3 DEF Pending
<1>5. ASSUME AllPlain(f), Latches(e, c)
      PROVE  Pending(g, c)
  <2>1. Len(g) \in 1..Len(g) /\ Latches(g[Len(g)], c)
    BY <1>1, <1>5
  <2>2. \A n \in 1..(Len(g) - 1) : Plain(g[n])
    BY <1>1, <1>5 DEF AllPlain
  <2>3. \A n \in (Len(g) + 1)..Len(g) : Quiet(g[n])
    BY <1>1
  <2>4. QED BY <2>1, <2>2, <2>3 DEF Pending
<1>6. QED BY <1>2, <1>3, <1>4, <1>5 DEF g

\* What runs is an instruction of the handler, or of main.
LEMMA AtInstruction ==
    ASSUME CpuInv, NEW op, Runs(op)
    PROVE  /\ ~IrqTrigger /\ Instruction.op = op
           /\ hpc > 0 => hpc \in DOMAIN program.handler /\ Instruction = program.handler[hpc]
           /\ hpc = 0 => pc \in 1..Len(program.main) /\ Instruction = program.main[pc]
           /\ Instruction \in Range(program.main) \union Range(program.handler)
           /\ hpc > 0 => LeavesPit(Instruction)
<1>1. /\ program.main \in Seq(Range(program.main)) /\ program.handler \in Seq(Range(program.handler))
      /\ Len(program.main) \in Nat /\ Len(program.handler) \in Nat
      /\ DOMAIN program.main = 1..Len(program.main)
      /\ DOMAIN program.handler = 1..Len(program.handler)
  BY DEF CpuInv, ReadsLatched
<1>2. ~IrqTrigger /\ ~Over /\ Instruction.op = op
  BY DEF Runs
<1>3. hpc > 0 => hpc \in DOMAIN program.handler /\ Instruction = program.handler[hpc]
  BY <1>1 DEF CpuInv, Instruction
<1>4. hpc = 0 => pc \in 1..Len(program.main) /\ Instruction = program.main[pc]
  BY <1>1, <1>2 DEF CpuInv, Instruction, Over
<1>5. Instruction \in Range(program.main) \union Range(program.handler)
  <2>1. \A f : \A x \in DOMAIN f : f[x] \in Range(f)
    BY DEF Range
  <2>2. hpc > 0 \/ hpc = 0
    BY <1>1 DEF CpuInv
  <2>3. CASE hpc > 0
    BY <1>3, <2>1, <2>3
  <2>4. CASE hpc = 0
    BY <1>1, <1>4, <2>1, <2>4
  <2>5. QED BY <2>2, <2>3, <2>4
<1>6. hpc > 0 => LeavesPit(Instruction)
  BY <1>3 DEF CpuInv, ReadsLatched
<1>7. QED BY <1>2, <1>3, <1>4, <1>5, <1>6

\* What is stored is the store's, or the clear of what was found.
LEMMA StoredIs ==
    ASSUME CpuInv
    PROVE  \/ Stored = <<>>
           \/ \E e \in Entries :
                 /\ Stored = <<e>>
                 /\ \/ Runs("store") /\ e.reg = Instruction.reg /\ e.value = Instruction.value
                    \/ Runs("found") /\ Quiet(e) /\ Plain(e)
<1>1. CASE Runs("store") /\ Len(fifo) < FIFO
  <2> DEFINE e == [reg |-> Instruction.reg, value |-> Instruction.value]
  <2>1. Stored = <<e>>
    BY <1>1 DEF Stored
  <2>2. e \in Entries
    BY <1>1, AtInstruction DEF Entries
  <2>3. QED BY <1>1, <2>1, <2>2
<1>2. CASE Runs("found") /\ Len(fifo) < FIFO /\ ~Runs("store")
  <2> DEFINE e == [reg |-> "TMR_CLR", value |-> got.map]
  <2>1. Stored = <<e>>
    BY <1>2 DEF Stored
  <2>2. e \in Entries
    BY DEF Entries, CpuInv
  <2>3. "TMR_CLR" \notin PitRegs
    BY PitNames DEF PitRegs
  <2>4. QED BY <1>2, <2>1, <2>2, <2>3 DEF Quiet, Plain, PitRegs
<1>3. CASE ~(Runs("store") /\ Len(fifo) < FIFO) /\ ~(Runs("found") /\ Len(fifo) < FIFO /\ ~Runs("store"))
  BY <1>3 DEF Stored
<1>4. QED BY <1>1, <1>2, <1>3

\* The FIFO after a clock: its head has gone if a store was taken, and what was
\* stored is behind.
LEMMA FifoOn ==
    ASSUME CpuInv, NEW acc \in {Access, [op |-> "none"]}, Cpu(acc)
    PROVE  /\ \/ acc.op = "none"
              \/ acc.op = "wr" /\ fifo # <<>> /\ acc.reg = fifo[1].reg /\ acc.value = fifo[1].value
              \/ /\ acc.op = "rd" /\ fifo = <<>>
                 /\ \/ Runs("load") /\ acc.reg = Instruction.reg
                    \/ ~Runs("load") /\ acc.reg \in OtherLoads
           /\ fifo' = (IF acc.op = "wr" THEN Tail(fifo) ELSE fifo) \o Stored
           /\ (IF acc.op = "wr" THEN Tail(fifo) ELSE fifo) \in Seq(Entries)
           /\ fifo' \in Seq(Entries)
<1> DEFINE q == IF acc.op = "wr" THEN Tail(fifo) ELSE fifo
<1>1. \/ acc.op = "none"
      \/ acc.op = "wr" /\ fifo # <<>> /\ acc.reg = fifo[1].reg /\ acc.value = fifo[1].value
      \/ /\ acc.op = "rd" /\ fifo = <<>>
         /\ \/ Runs("load") /\ acc.reg = Instruction.reg
            \/ ~Runs("load") /\ acc.reg \in OtherLoads
  <2>1. CASE acc = [op |-> "none"]
    BY <2>1
  <2>2. CASE acc = Access /\ fifo # <<>>
    BY <2>2, Queues DEF Access, CpuInv
  <2>3. CASE acc = Access /\ fifo = <<>>
    BY <2>3 DEF Access, OtherLoads
  <2>4. QED BY <2>1, <2>2, <2>3
<1>2. fifo' = q \o Stored
  BY DEF Cpu
<1>3. q \in Seq(Entries)
  BY <1>1, Queues DEF CpuInv
<1>4. fifo' \in Seq(Entries)
  <2>1. q \o <<>> \in Seq(Entries) /\ \A e \in Entries : q \o <<e>> \in Seq(Entries)
    BY <1>3, Queues, Zenon
  <2>2. QED BY <1>2, <2>1, StoredIs
<1>5. QED BY <1>1, <1>2, <1>3, <1>4

\* What retires is at main, and it is not the handler's last.
LEMMA Advancing ==
    ASSUME CpuInv, NEW acc, Cpu(acc)
    PROVE  /\ hpc' \in 0..Len(program.handler)
           /\ \/ pc' = pc /\ (hpc > 0 \/ ~Retires(acc))
              \/ /\ pc' = pc + 1 /\ hpc = 0 /\ pc \in 1..Len(program.main) /\ Retires(acc)
                 /\ \E op : Runs(op)
           /\ Stored # <<>> => Retires(acc)
<1>1. /\ program.main \in Seq(Range(program.main)) /\ program.handler \in Seq(Range(program.handler))
      /\ Len(program.main) \in Nat /\ Len(program.handler) \in Nat
      /\ pc \in Nat /\ hpc \in Nat
  BY DEF CpuInv, ReadsLatched
<1>2. Retires(acc) => \E op : Runs(op) /\ op # "eret"
  BY StoredIs DEF Retires
<1>3. Retires(acc) => ~IrqTrigger /\ ~Runs("eret")
  BY <1>2 DEF Runs
<1>4. /\ IrqTrigger => hpc' = 1 /\ pc' = pc
      /\ ~IrqTrigger /\ Runs("eret") => hpc' = 0 /\ pc' = pc
      /\ ~IrqTrigger /\ ~Runs("eret") /\ Retires(acc) =>
            IF hpc > 0 THEN hpc' = hpc + 1 /\ pc' = pc ELSE pc' = pc + 1 /\ hpc' = hpc
      /\ ~IrqTrigger /\ ~Runs("eret") /\ ~Retires(acc) => hpc' = hpc /\ pc' = pc
  BY DEF Cpu, Advance
<1>5. IrqTrigger => program.handler # <<>> /\ Len(program.handler) >= 1
  BY <1>1 DEF IrqTrigger, CpuInv
<1>6. Retires(acc) /\ hpc > 0 => hpc + 1 <= Len(program.handler)
  <2>1. SUFFICES ASSUME Retires(acc), hpc > 0
                 PROVE  hpc # Len(program.handler)
    BY <1>1 DEF CpuInv
  <2>2. PICK op : Runs(op) /\ op # "eret"
    BY <1>2, <2>1
  <2>3. Instruction = program.handler[hpc] /\ Instruction.op = op
    BY <2>1, <2>2, AtInstruction
  <2>4. program.handler # <<>>
    BY <1>1, <2>1 DEF CpuInv
  <2>5. program.handler[Len(program.handler)].op = "eret"
    BY <2>4 DEF CpuInv, ReadsLatched
  <2>6. QED BY <2>2, <2>3, <2>5
<1>7. hpc' \in 0..Len(program.handler)
  BY <1>1, <1>3, <1>4, <1>5, <1>6 DEF CpuInv
<1>8. Retires(acc) /\ hpc = 0 => pc \in 1..Len(program.main) /\ \E op : Runs(op)
  BY <1>2, AtInstruction
<1>9. Stored # <<>> => Retires(acc)
  BY DEF Retires
<1>10. QED BY <1>1, <1>3, <1>4, <1>7, <1>8, <1>9

\* The processor stays at instructions it has.
LEMMA CpuStep ==
    ASSUME CpuInv, NEW acc \in {Access, [op |-> "none"]}, NEW outs, Cpu(acc),
           Ints!Clock(acc, outs), UNCHANGED program
    PROVE  CpuInv'
<1>1. ReadsLatched(program)'
  BY DEF CpuInv
<1>2. pc' \in 1..(Len(program'.main) + 1) /\ hpc' \in 0..Len(program'.handler)
  <2>1. Len(program.main) \in Nat
    BY DEF CpuInv, ReadsLatched
  <2>2. QED BY <2>1, Advancing DEF CpuInv
<1>3. DOMAIN sr' = {"ie", "im", "exl"} /\ (sr'.ie => program'.handler # <<>>)
  <2>1. CASE Runs("status")
    <3>1. sr' = [ie |-> Instruction.ie, im |-> Instruction.im, exl |-> sr.exl]
      BY <2>1 DEF Cpu, StatusTo
    <3>2. Instruction.ie => program.handler # <<>>
      <4>1. SUFFICES ASSUME Instruction.ie, program.handler = <<>>
                     PROVE  FALSE
        OBVIOUS
      <4>2. hpc = 0
        BY <4>1 DEF CpuInv
      <4>3. pc \in DOMAIN program.main /\ Instruction = program.main[pc] /\ Instruction.op = "status"
        BY <2>1, <4>2, AtInstruction DEF CpuInv, ReadsLatched
      <4>4. QED BY <4>1, <4>3 DEF CpuInv, ReadsLatched
    <3>3. QED BY <3>1, <3>2
  <2>2. CASE ~Runs("status")
    <3>1. sr' = [sr EXCEPT !.exl = (@ \/ IrqTrigger) /\ ~Runs("eret")]
      BY <2>2 DEF Cpu, StatusTo
    <3>2. DOMAIN sr' = DOMAIN sr /\ sr'.ie = sr.ie
      BY <3>1 DEF CpuInv
    <3>3. QED BY <3>2 DEF CpuInv
  <2>3. QED BY <2>1, <2>2
<1>4. tmr_stat' \subseteq Nat
  <2>1. Ints!PitEdge(outs) \subseteq Nat
    BY DEF Ints!PitEdge
  <2>2. tmr_stat' \subseteq tmr_stat \union Ints!PitEdge(outs)
    BY DEF Ints!Clock, Ints!Latches
  <2>3. QED BY <2>1, <2>2 DEF CpuInv
<1>5. DOMAIN got' = GotFields /\ got'.map \subseteq Nat
  <2>1. DOMAIN got' = DOMAIN got
    BY DEF Cpu, Loads
  <2>2. got'.map = got.map \/ got'.map = Ints!MapStat(MapSource)
    BY DEF Cpu, Loads, CpuInv, GotFields
  <2>3. Ints!MapStat(MapSource) \subseteq Nat
    <3>1. 4..7 \subseteq Nat
      OBVIOUS
    <3>2. QED BY <3>1, Zenon DEF Ints!MapStat, CpuInv
  <2>4. QED BY <2>1, <2>2, <2>3 DEF CpuInv
<1>6. fifo' \in Seq(Entries')
  BY FifoOn DEF Entries
<1>7. QED BY <1>1, <1>2, <1>3, <1>4, <1>5, <1>6 DEF CpuInv

\* Other reads leave the count that was read, other writes the count at the command.
LEMMA CountKept ==
    ASSUME CpuInv, NEW acc, Cpu(acc), acc.op = "rd" => acc.reg \in OtherLoads
    PROVE  got'.count = got.count
<1>1. CASE acc.op # "rd"
  BY <1>1 DEF Cpu, Loads
<1>2. CASE acc.op = "rd"
  BY <1>2 DEF Cpu, Loads, OtherLoads, CpuInv, GotFields
<1>3. QED BY <1>1, <1>2

LEMMA CommandKept ==
    ASSUME NEW acc, Observes(acc), acc.op = "wr" => Plain(acc) \/ Quiet(acc)
    PROVE  latched_at' = latched_at
<1>1. "PIT_CTL" \in PitRegs
  BY DEF PitRegs
<1>2. ~(acc.op = "wr" /\ acc.reg = "PIT_CTL" /\ acc.value.rw = "LATCH")
  BY <1>1 DEF Plain, Quiet
<1>3. QED BY <1>2 DEF Observes

LEMMA QuietIsPlain ==
    /\ \A e : Quiet(e) => Plain(e)
    /\ \A f : AllQuiet(f) => AllPlain(f)
    /\ \A r \in OtherLoads : r \notin PitRegs
<1>1. \A e : Quiet(e) => Plain(e)
  BY DEF Quiet, Plain, PitRegs
<1>2. \A r \in OtherLoads : r \notin PitRegs
  BY PitNames DEF OtherLoads, PitRegs
<1>3. QED BY <1>1, <1>2 DEF AllQuiet, AllPlain

\* What the handler stores and loads is not the timer's; nor what main does where
\* it is not at the reading.
LEMMA ElsewhereMain ==
    ASSUME CpuInv, NEW k \in 1..(Len(program.main) + 1), NEW c \in Pit!Channels,
           ReadsAt(program, k, c), NEW acc \in {Access, [op |-> "none"]}, Cpu(acc),
           hpc > 0 \/ pc \notin k..(k + 2)
    PROVE  /\ acc.op = "rd" => acc.reg \in OtherLoads
           /\ \A e : Stored = <<e>> => Plain(e) /\ (hpc > 0 => Quiet(e))
<1>1. ASSUME NEW op, Runs(op)
      PROVE  /\ Instruction.op = op /\ SetsUp(Instruction)
             /\ hpc > 0 => LeavesPit(Instruction)
  <2>1. CASE hpc > 0
    <3>1. Instruction.op = op /\ LeavesPit(Instruction)
      BY <1>1, <2>1, AtInstruction
    <3>2. QED BY <3>1 DEF LeavesPit, SetsUp
  <2>2. CASE hpc = 0
    <3>1. Instruction.op = op /\ pc \in 1..Len(program.main) /\ Instruction = program.main[pc]
      BY <1>1, <2>2, AtInstruction
    <3>2. QED BY <2>2, <3>1 DEF ReadsAt
  <2>3. QED BY <2>1, <2>2 DEF CpuInv
<1>2. acc.op = "rd" => acc.reg \in OtherLoads
  BY <1>1, FifoOn DEF SetsUp
<1>3. ASSUME NEW e, Stored = <<e>>
      PROVE  Plain(e) /\ (hpc > 0 => Quiet(e))
  <2>1. \/ Runs("store") /\ e.reg = Instruction.reg /\ e.value = Instruction.value
        \/ Runs("found") /\ Quiet(e) /\ Plain(e)
    <3>1. PICK d \in Entries :
             /\ Stored = <<d>>
             /\ \/ Runs("store") /\ d.reg = Instruction.reg /\ d.value = Instruction.value
                \/ Runs("found") /\ Quiet(d) /\ Plain(d)
      BY <1>3, StoredIs
    <3>2. d = e
      BY <1>3, <3>1
    <3>3. QED BY <3>1, <3>2
  <2>2. CASE Runs("store") /\ e.reg = Instruction.reg /\ e.value = Instruction.value
    BY <1>1, <2>2 DEF SetsUp, LeavesPit, Plain, Quiet, PitRegs
  <2>3. QED BY <2>1, <2>2
<1>4. QED BY <1>2, <1>3

\* Main where it reads.
LEMMA AtReading ==
    ASSUME CpuInv, NEW k \in 1..(Len(program.main) + 1), NEW c \in Pit!Channels,
           ReadsAt(program, k, c), NEW op, Runs(op), hpc = 0, pc \in k..(k + 2)
    PROVE  /\ pc = k => /\ op = "store" /\ Instruction.reg = "PIT_CTL"
                        /\ Instruction.value.rw = "LATCH" /\ Instruction.value.sc = c
           /\ pc # k => op = "load" /\ Instruction.reg = PitC(c)
<1>1. pc \in 1..Len(program.main) /\ Instruction = program.main[pc] /\ Instruction.op = op
  BY AtInstruction
<1>2. Len(program.main) \in Nat
  BY DEF CpuInv, ReadsLatched
<1>3. k <= Len(program.main)
  BY <1>1, <1>2
<1>4. CASE pc = k
  <2>1. Instruction = Store("PIT_CTL", [sc |-> c, rw |-> "LATCH", mode |-> 0])
    BY <1>1, <1>3, <1>4 DEF ReadsAt
  <2>2. QED BY <1>1, <1>4, <2>1 DEF Store
<1>5. CASE pc # k
  <2>1. pc = k + 1 \/ pc = k + 2
    BY <1>1, <1>5
  <2>2. Instruction = Load(PitC(c))
    BY <1>1, <1>3, <2>1 DEF ReadsAt
  <2>3. QED BY <1>1, <1>5, <2>2 DEF Load
<1>6. QED BY <1>4, <1>5

(* The stage after a clock.                                                *)
NextStage(k, c) ==
    /\ pc' <= k => AllPlain(fifo') /\ got'.count = <<>>
    /\ pc' = k + 1 => /\ got'.count = <<>>
                      /\ Pending(fifo', c) \/ (AllQuiet(fifo') /\ Held(c, FALSE)')
    /\ pc' = k + 2 => /\ AllQuiet(fifo') /\ Held(c, TRUE)'
                      /\ got'.count = <<latched_at' % BYTE>>
    /\ pc' > k + 2 => /\ AllPlain(fifo') /\ latched_at' \in Nat
                      /\ Both(got'.count, latched_at')

LEMMA StageAfter ==
    ASSUME NEW k, NEW c, NextStage(k, c)
    PROVE  Stage(k, c)'
<1>1. /\ AllPlain(fifo)' <=> AllPlain(fifo')
      /\ AllQuiet(fifo)' <=> AllQuiet(fifo')
      /\ Pending(fifo, c)' <=> Pending(fifo', c)
  BY DEF AllPlain, AllQuiet, Pending, Plain, Quiet, Latches
<1>2. QED BY <1>1 DEF Stage, NextStage

\* Before the command main sets channels up; then the command is on its way.
LEMMA StageBefore ==
    ASSUME CpuInv, ChannelsOk, NEW k \in 1..(Len(program.main) + 1), NEW c \in Pit!Channels,
           ReadsAt(program, k, c), Stage(k, c), pc <= k,
           NEW acc \in {Access, [op |-> "none"]}, Pit!Clock(PitAccess(acc)), Cpu(acc),
           Observes(acc)
    PROVE  NextStage(k, c) /\ ChannelsOk'
<1> DEFINE q == IF acc.op = "wr" THEN Tail(fifo) ELSE fifo
<1>1. pc \in Nat /\ k \in Nat /\ fifo \in Seq(Entries) /\ Len(program.main) \in Nat
  BY DEF CpuInv, ReadsLatched
<1>2. AllPlain(fifo) /\ got.count = <<>>
  BY DEF Stage
<1>3. /\ acc.op \in {"none", "rd", "wr"} /\ fifo' = q \o Stored /\ q \in Seq(Entries)
      /\ acc.op = "wr" => fifo # <<>> /\ acc.reg = fifo[1].reg /\ acc.value = fifo[1].value
  BY FifoOn
<1>4. acc.op = "wr" => Plain(acc)
  BY <1>1, <1>2, <1>3, Pops DEF Plain
<1>5. AllPlain(q)
  BY <1>1, <1>2, <1>3, Pops
<1>6. ChannelsOk'
  BY <1>3, <1>4, ChannelsGoOn
<1>7. acc.op = "rd" => acc.reg \in OtherLoads
  <2>1. CASE hpc > 0 \/ pc \notin k..(k + 2)
    BY <2>1, ElsewhereMain
  <2>2. CASE hpc = 0 /\ pc = k
    <3>1. ~Runs("load")
      BY <1>1, <2>2, AtReading
    <3>2. QED BY <3>1, FifoOn
  <2>3. QED BY <1>1, <2>1, <2>2 DEF CpuInv
<1>8. got'.count = <<>>
  BY <1>2, <1>7, CountKept
<1> HIDE DEF q
<1>9. CASE hpc > 0 \/ pc < k
  <2>1. \A e : Stored = <<e>> => Plain(e)
    BY <1>1, <1>9, ElsewhereMain
  <2>2. pc' \in Nat /\ pc' <= k
    BY <1>1, <1>9, Advancing
  <2>3. AllPlain(fifo')
    <3>1. CASE Stored = <<>>
      BY <1>3, <1>5, <3>1, Queues
    <3>2. ASSUME NEW e \in Entries, Stored = <<e>>
          PROVE  AllPlain(fifo')
      BY <1>3, <1>5, <2>1, <3>2, Pushes
    <3>3. QED BY <3>1, <3>2, StoredIs
  <2>4. pc' # k + 1 /\ pc' # k + 2 /\ ~(pc' > k + 2)
    BY <1>1, <2>2
  <2>5. NextStage(k, c)
    BY <1>8, <2>3, <2>4, Zenon DEF NextStage
  <2>6. QED BY <1>6, <2>5
<1>10. CASE hpc = 0 /\ pc = k
  <2>1. CASE Stored = <<>>
    <3>1. ~Retires(acc)
      <4>1. SUFFICES ASSUME Retires(acc)
                     PROVE  FALSE
        OBVIOUS
      <4>2. \E op : Runs(op) /\ op # "store"
        BY <2>1, <4>1 DEF Retires
      <4>3. QED BY <1>1, <1>10, <4>2, AtReading
    <3>2. pc' = k
      BY <1>10, <3>1, Advancing
    <3>3. AllPlain(fifo')
      BY <1>3, <1>5, <2>1, Queues
    <3>4. pc' # k + 1 /\ pc' # k + 2 /\ ~(pc' > k + 2)
      BY <1>1, <3>2
    <3>5. NextStage(k, c)
      BY <1>8, <3>3, <3>4, Zenon DEF NextStage
    <3>6. QED BY <1>6, <3>5
  <2>2. ASSUME NEW e \in Entries, Stored = <<e>>,
               \/ Runs("store") /\ e.reg = Instruction.reg /\ e.value = Instruction.value
               \/ Runs("found") /\ Quiet(e) /\ Plain(e)
        PROVE  NextStage(k, c) /\ ChannelsOk'
    <3>1. Latches(e, c)
      BY <1>1, <1>10, <2>2, AtReading DEF Latches
    <3>2. pc' = k + 1
      <4>1. Stored # <<>>
        BY <2>2
      <4>2. QED BY <1>10, <4>1, Advancing
    <3>3. Pending(fifo', c)
      BY <1>3, <1>5, <2>2, <3>1, Pushes
    <3>4. NextStage(k, c)
      BY <1>1, <1>8, <3>2, <3>3 DEF NextStage
    <3>5. QED BY <1>6, <3>4
  <2>3. QED BY <2>1, <2>2, StoredIs
<1>11. QED BY <1>1, <1>9, <1>10 DEF CpuInv

\* While main reads, only the handler stores, and main's own reads are of the count.
LEMMA WhileReading ==
    ASSUME CpuInv, NEW k \in 1..(Len(program.main) + 1), NEW c \in Pit!Channels,
           ReadsAt(program, k, c), pc \in {k + 1, k + 2},
           NEW acc \in {Access, [op |-> "none"]}, Cpu(acc)
    PROVE  /\ \A e : Stored = <<e>> => Quiet(e)
           /\ \/ acc.op = "rd" /\ acc.reg = PitC(c) /\ fifo = <<>> /\ pc' = pc + 1
              \/ (acc.op = "rd" => acc.reg \in OtherLoads) /\ pc' = pc
<1>1. pc \in Nat /\ k \in Nat /\ Len(program.main) \in Nat /\ pc \in k..(k + 2) /\ pc # k
  BY DEF CpuInv, ReadsLatched
<1>2. CASE hpc > 0
  BY <1>2, ElsewhereMain, Advancing
<1>3. CASE hpc = 0
  <2>1. \A op : Runs(op) => op = "load" /\ Instruction.reg = PitC(c)
    BY <1>1, <1>3, AtReading
  <2>2. Stored = <<>>
    BY <2>1, StoredIs
  <2>3. Retires(acc) <=> Runs("load") /\ acc.op = "rd"
    BY <2>1, <2>2 DEF Retires
  <2>4. Runs("load") /\ acc.op = "rd" => acc.reg = PitC(c) /\ fifo = <<>> /\ pc' = pc + 1
    BY <1>1, <1>3, <2>1, <2>3, FifoOn, Advancing
  <2>5. ~(Runs("load") /\ acc.op = "rd") => (acc.op = "rd" => acc.reg \in OtherLoads) /\ pc' = pc
    BY <1>3, <2>3, FifoOn, Advancing
  <2>6. QED BY <2>2, <2>4, <2>5
<1>4. QED BY <1>2, <1>3 DEF CpuInv

\* What comes behind a quiet queue, or behind the command, is quiet.
LEMMA QuietBehind ==
    ASSUME CpuInv, NEW c, NEW q \in Seq(Entries), \A e : Stored = <<e>> => Quiet(e)
    PROVE  /\ AllQuiet(q) => AllQuiet(q \o Stored)
           /\ Pending(q, c) => Pending(q \o Stored, c)
<1>1. CASE Stored = <<>>
  BY <1>1, Queues
<1>2. ASSUME NEW e \in Entries, Stored = <<e>>
      PROVE  /\ AllQuiet(q) => AllQuiet(q \o Stored)
             /\ Pending(q, c) => Pending(q \o Stored, c)
  BY <1>2, Pushes
<1>3. QED BY <1>1, <1>2, StoredIs

\* The command goes to the channel, and then the first byte is read.
LEMMA StageLatched ==
    ASSUME CpuInv, ChannelsOk, NEW k \in 1..(Len(program.main) + 1), NEW c \in Pit!Channels,
           ReadsAt(program, k, c), Stage(k, c), pc = k + 1,
           NEW acc \in {Access, [op |-> "none"]}, Pit!Clock(PitAccess(acc)), Cpu(acc),
           Observes(acc)
    PROVE  NextStage(k, c) /\ ChannelsOk'
<1> DEFINE q == IF acc.op = "wr" THEN Tail(fifo) ELSE fifo
<1>1. pc \in Nat /\ k \in Nat /\ fifo \in Seq(Entries)
  BY DEF CpuInv
<1>2. got.count = <<>> /\ (Pending(fifo, c) \/ (AllQuiet(fifo) /\ Held(c, FALSE)))
  BY <1>1 DEF Stage
<1>3. /\ acc.op \in {"none", "rd", "wr"} /\ fifo' = q \o Stored /\ q \in Seq(Entries)
      /\ acc.op = "wr" => fifo # <<>> /\ acc.reg = fifo[1].reg /\ acc.value = fifo[1].value
  BY FifoOn
<1>4. /\ \A e : Stored = <<e>> => Quiet(e)
      /\ \/ acc.op = "rd" /\ acc.reg = PitC(c) /\ fifo = <<>> /\ pc' = pc + 1
         \/ (acc.op = "rd" => acc.reg \in OtherLoads) /\ pc' = pc
  BY <1>1, WhileReading
<1>5. acc.op = "wr" =>
         \/ Plain(acc) /\ Quiet(acc) /\ AllQuiet(fifo) /\ AllQuiet(q) /\ Held(c, FALSE)
         \/ Plain(acc) /\ Pending(q, c)
         \/ Latches(acc, c) /\ AllQuiet(q)
  BY <1>1, <1>2, <1>3, Pops, QuietIsPlain DEF Plain, Quiet, Latches
<1>6. ChannelsOk'
  BY <1>3, <1>5, ChannelsGoOn DEF Latches
<1> HIDE DEF q
<1>7. CASE acc.op = "rd" /\ acc.reg = PitC(c) /\ fifo = <<>> /\ pc' = pc + 1
  <2>1. AllQuiet(fifo) /\ Held(c, FALSE)
    <3>1. Len(fifo) = 0
      BY <1>7
    <3>2. ~Pending(fifo, c)
      BY <3>1 DEF Pending
    <3>3. QED BY <1>2, <3>2
  <2>2. latched_at' = latched_at
    BY <1>7, CommandKept
  <2>3. got'.count = Append(got.count, latched_at % BYTE) /\ Held(c, TRUE)'
    BY <1>7, <2>1, <2>2, ReadsCopy DEF Cpu, CpuInv, GotFields
  <2>4. got'.count = <<latched_at' % BYTE>>
    BY <1>2, <2>2, <2>3
  <2>5. q = fifo
    BY <1>7 DEF q
  <2>6. AllQuiet(fifo')
    BY <1>3, <1>4, <2>1, <2>5, QuietBehind
  <2>7. pc' = k + 2 /\ ~(pc' <= k) /\ pc' # k + 1 /\ ~(pc' > k + 2)
    BY <1>1, <1>7
  <2>8. NextStage(k, c)
    BY <2>3, <2>4, <2>6, <2>7, Zenon DEF NextStage
  <2>9. QED BY <1>6, <2>8
<1>8. CASE (acc.op = "rd" => acc.reg \in OtherLoads) /\ pc' = pc
  <2>1. got'.count = <<>>
    BY <1>2, <1>8, CountKept
  <2>2. Pending(fifo', c) \/ (AllQuiet(fifo') /\ Held(c, FALSE)')
    <3>1. CASE acc.op = "wr" /\ Latches(acc, c) /\ AllQuiet(q)
      <4>1. Held(c, FALSE)'
        BY <3>1, TakesCopy
      <4>2. QED BY <1>3, <1>4, <3>1, <4>1, QuietBehind
    <3>2. CASE Pending(q, c)
      BY <1>3, <1>4, <3>2, QuietBehind
    <3>3. CASE AllQuiet(q) /\ Held(c, FALSE) /\ (acc.op = "wr" => Quiet(acc))
      <4>1. latched_at' = latched_at
        BY <3>3, CommandKept
      <4>2. acc.op = "none" \/ (acc.op \in {"rd", "wr"} /\ acc.reg \notin PitRegs)
        <5>1. acc.op = "rd" => acc.reg \notin PitRegs
          BY <1>8, QuietIsPlain, Zenon
        <5>2. acc.op = "wr" => acc.reg \notin PitRegs
          BY <3>3 DEF Quiet
        <5>3. acc.op = "none" \/ acc.op = "rd" \/ acc.op = "wr"
          BY <1>3
        <5>4. QED BY <5>1, <5>2, <5>3, Zenon
      <4>3. Held(c, FALSE)'
        BY <3>3, <4>1, <4>2, CopyStays
      <4>4. QED BY <1>3, <1>4, <3>3, <4>3, QuietBehind
    <3>4. acc.op # "wr" => q = fifo
      BY DEF q
    <3>5. QED BY <1>2, <1>5, <3>1, <3>2, <3>3, <3>4
  <2>3. pc' = k + 1 /\ ~(pc' <= k) /\ pc' # k + 2 /\ ~(pc' > k + 2)
    BY <1>1, <1>8
  <2>4. NextStage(k, c)
    BY <2>1, <2>2, <2>3, Zenon DEF NextStage
  <2>5. QED BY <1>6, <2>4
<1>9. QED BY <1>4, <1>7, <1>8

\* Then the second.
LEMMA StageHalf ==
    ASSUME CpuInv, ChannelsOk, NEW k \in 1..(Len(program.main) + 1), NEW c \in Pit!Channels,
           ReadsAt(program, k, c), Stage(k, c), pc = k + 2,
           NEW acc \in {Access, [op |-> "none"]}, Pit!Clock(PitAccess(acc)), Cpu(acc),
           Observes(acc)
    PROVE  NextStage(k, c) /\ ChannelsOk'
<1> DEFINE q == IF acc.op = "wr" THEN Tail(fifo) ELSE fifo
<1>1. pc \in Nat /\ k \in Nat /\ fifo \in Seq(Entries)
  BY DEF CpuInv
<1>2. AllQuiet(fifo) /\ Held(c, TRUE) /\ got.count = <<latched_at % BYTE>>
  BY <1>1 DEF Stage
<1>3. /\ acc.op \in {"none", "rd", "wr"} /\ fifo' = q \o Stored /\ q \in Seq(Entries)
      /\ acc.op = "wr" => fifo # <<>> /\ acc.reg = fifo[1].reg /\ acc.value = fifo[1].value
  BY FifoOn
<1>4. /\ \A e : Stored = <<e>> => Quiet(e)
      /\ \/ acc.op = "rd" /\ acc.reg = PitC(c) /\ fifo = <<>> /\ pc' = pc + 1
         \/ (acc.op = "rd" => acc.reg \in OtherLoads) /\ pc' = pc
  BY <1>1, WhileReading
<1>5. AllQuiet(q) /\ (acc.op = "wr" => Quiet(acc))
  BY <1>1, <1>2, <1>3, Pops DEF Quiet
<1>6. latched_at' = latched_at
  BY <1>5, CommandKept
<1>7. ChannelsOk'
  BY <1>3, <1>5, ChannelsGoOn, QuietIsPlain
<1> HIDE DEF q
<1>8. AllQuiet(fifo')
  BY <1>3, <1>4, <1>5, QuietBehind
<1>9. CASE acc.op = "rd" /\ acc.reg = PitC(c) /\ fifo = <<>> /\ pc' = pc + 1
  <2>1. got'.count = Append(got.count, latched_at \div BYTE)
    BY <1>2, <1>6, <1>9, ReadsCopy DEF Cpu, CpuInv, GotFields
  <2>2. Both(got'.count, latched_at')
    <3>1. \A a, b \in Nat : /\ Len(Append(<<a>>, b)) = 2
                            /\ Append(<<a>>, b)[1] = a /\ Append(<<a>>, b)[2] = b
      OBVIOUS
    <3>2. latched_at % BYTE \in Nat /\ latched_at \div BYTE \in Nat
      BY <1>2, Bytes DEF Held
    <3>3. got'.count = Append(<<latched_at % BYTE>>, latched_at \div BYTE)
      BY <1>2, <2>1, Zenon
    <3> DEFINE lo == latched_at % BYTE
               hi == latched_at \div BYTE
    <3>4. Len(got'.count) = 2 /\ got'.count[1] = lo /\ got'.count[2] = hi
      <4> HIDE DEF lo, hi
      <4>1. lo \in Nat /\ hi \in Nat /\ got'.count = Append(<<lo>>, hi)
        BY <3>2, <3>3 DEF lo, hi
      <4>2. QED BY <3>1, <4>1
    <3>5. QED BY <1>6, <3>4 DEF Both
  <2>3. AllPlain(fifo') /\ latched_at' \in Nat
    BY <1>2, <1>6, <1>8, QuietIsPlain DEF Held
  <2>4. ~(pc' <= k) /\ pc' # k + 1 /\ pc' # k + 2
    BY <1>1, <1>9
  <2>5. NextStage(k, c)
    BY <2>2, <2>3, <2>4, Zenon DEF NextStage
  <2>6. QED BY <1>7, <2>5
<1>10. CASE (acc.op = "rd" => acc.reg \in OtherLoads) /\ pc' = pc
  <2>1. got'.count = <<latched_at' % BYTE>>
    BY <1>2, <1>6, <1>10, CountKept
  <2>2. Held(c, TRUE)'
    <3>1. acc.op = "none" \/ (acc.op \in {"rd", "wr"} /\ acc.reg \notin PitRegs)
      <4>1. acc.op = "rd" => acc.reg \notin PitRegs
        BY <1>10, QuietIsPlain, Zenon
      <4>2. acc.op = "wr" => acc.reg \notin PitRegs
        BY <1>5 DEF Quiet
      <4>3. acc.op = "none" \/ acc.op = "rd" \/ acc.op = "wr"
        BY <1>3
      <4>4. QED BY <4>1, <4>2, <4>3, Zenon
    <3>2. QED BY <1>2, <1>6, <3>1, CopyStays
  <2>3. ~(pc' <= k) /\ pc' # k + 1 /\ ~(pc' > k + 2)
    BY <1>1, <1>10
  <2>4. NextStage(k, c)
    BY <1>8, <2>1, <2>2, <2>3, Zenon DEF NextStage
  <2>5. QED BY <1>7, <2>4
<1>11. QED BY <1>4, <1>9, <1>10

\* Then main sets channels up, and reads no more.
LEMMA StageRead ==
    ASSUME CpuInv, ChannelsOk, NEW k \in 1..(Len(program.main) + 1), NEW c \in Pit!Channels,
           ReadsAt(program, k, c), Stage(k, c), pc > k + 2,
           NEW acc \in {Access, [op |-> "none"]}, Pit!Clock(PitAccess(acc)), Cpu(acc),
           Observes(acc)
    PROVE  NextStage(k, c) /\ ChannelsOk'
<1> DEFINE q == IF acc.op = "wr" THEN Tail(fifo) ELSE fifo
<1>1. pc \in Nat /\ k \in Nat /\ fifo \in Seq(Entries) /\ pc \notin k..(k + 2)
  BY DEF CpuInv
<1>2. /\ AllPlain(fifo) /\ latched_at \in Nat
      /\ Both(got.count, latched_at)
  BY <1>1 DEF Stage
<1>3. /\ acc.op \in {"none", "rd", "wr"} /\ fifo' = q \o Stored /\ q \in Seq(Entries)
      /\ acc.op = "wr" => fifo # <<>> /\ acc.reg = fifo[1].reg /\ acc.value = fifo[1].value
  BY FifoOn
<1>4. /\ acc.op = "rd" => acc.reg \in OtherLoads
      /\ \A e : Stored = <<e>> => Plain(e)
  BY <1>1, ElsewhereMain
<1>5. AllPlain(q) /\ (acc.op = "wr" => Plain(acc))
  BY <1>1, <1>2, <1>3, Pops DEF Plain
<1>6. latched_at' = latched_at
  BY <1>5, CommandKept
<1>7. ChannelsOk'
  BY <1>3, <1>5, ChannelsGoOn
<1> HIDE DEF q
<1>8. AllPlain(fifo')
  <2>1. CASE Stored = <<>>
    BY <1>3, <1>5, <2>1, Queues
  <2>2. ASSUME NEW e \in Entries, Stored = <<e>>
        PROVE  AllPlain(fifo')
    BY <1>3, <1>4, <1>5, <2>2, Pushes
  <2>3. QED BY <2>1, <2>2, StoredIs
<1>9. Both(got'.count, latched_at') /\ latched_at' \in Nat
  BY <1>2, <1>4, <1>6, CountKept
<1>10. ~(pc' <= k) /\ pc' # k + 1 /\ pc' # k + 2
  BY <1>1, Advancing
<1>11. NextStage(k, c)
  BY <1>8, <1>9, <1>10, Zenon DEF NextStage
<1>12. QED BY <1>7, <1>11

LEMMA ReadInitially ==
    ASSUME Init, \A p \in Programs : ReadsLatched(p)
    PROVE  ReadInv
<1>1. ReadsLatched(program)
  BY DEF Init
<1>2. Len(program.main) \in Nat /\ Len(program.handler) \in Nat
  BY <1>1 DEF ReadsLatched
<1>3. /\ pc = 1 /\ hpc = 0 /\ fifo = <<>> /\ tmr_stat = {}
      /\ sr = [ie |-> FALSE, im |-> {}, exl |-> FALSE]
      /\ got = [map |-> {}, l0 |-> {}, count |-> <<>>, obf |-> FALSE, bytes |-> <<>>]
  BY DEF Init, Ints!Init
<1>4. CpuInv
  BY <1>1, <1>2, <1>3 DEF CpuInv, GotFields
<1>5. ChannelsOk
  <2>1. counter = [i \in Pit!Channels |->
         [count |-> 0, reload |-> 0, latch |-> 0, latched |-> FALSE, rw |-> "BOTH",
          mode |-> 0, running |-> FALSE, rd_msb |-> FALSE, wr_msb |-> FALSE, out |-> FALSE]]
    BY DEF Init, Pit!Init
  <2>2. QED BY <2>1 DEF ChannelsOk, ChannelOk, Fields
<1>6. ASSUME NEW k \in 1..(Len(program.main) + 1), NEW c
      PROVE  Stage(k, c)
  <2>1. Len(fifo) = 0
    BY <1>3
  <2>2. AllPlain(fifo) /\ got.count = <<>>
    BY <1>3, <2>1 DEF AllPlain
  <2>3. pc # k + 1 /\ pc # k + 2 /\ ~(pc > k + 2)
    BY <1>2, <1>3
  <2>4. QED BY <2>2, <2>3 DEF Stage
<1>7. QED BY <1>1, <1>4, <1>5, <1>6 DEF ReadInv, ReadsLatched

LEMMA ReadStep ==
    ASSUME ReadInv, Clock
    PROVE  ReadInv'
<1>1. PICK acc \in {Access, [op |-> "none"]} :
         /\ Pit!Clock(PitAccess(acc)) /\ Ints!Clock(acc, {i \in Pit!Channels : counter[i].out})
         /\ Cpu(acc) /\ Observes(acc) /\ UNCHANGED program
  BY DEF Clock
<1>2. CpuInv /\ ChannelsOk
  BY DEF ReadInv
<1>3. PICK k \in 1..(Len(program.main) + 1), c \in Pit!Channels :
         ReadsAt(program, k, c) /\ Stage(k, c)
  BY DEF ReadInv
<1>4. CpuInv'
  BY <1>1, <1>2, CpuStep
<1>5. NextStage(k, c) /\ ChannelsOk'
  <2>1. pc \in Nat /\ k \in Nat
    BY <1>2 DEF CpuInv
  <2>2. pc <= k \/ pc = k + 1 \/ pc = k + 2 \/ pc > k + 2
    BY <2>1
  <2>3. QED BY <1>1, <1>2, <1>3, <2>2, StageBefore, StageLatched, StageHalf, StageRead
<1>6. Stage(k, c)'
  BY <1>5, StageAfter
<1>7. /\ k \in 1..(Len(program'.main) + 1) /\ ReadsAt(program', k, c)
  BY <1>1, <1>3
<1>8. QED BY <1>4, <1>5, <1>6, <1>7 DEF ReadInv

LEMMA ReadStutters ==
    ASSUME ReadInv, UNCHANGED vars
    PROVE  ReadInv'
<1>1. CpuInv' /\ ChannelsOk'
  BY DEF ReadInv, CpuInv, ChannelsOk, Entries, vars
<1>2. PICK k \in 1..(Len(program.main) + 1), c \in Pit!Channels :
         ReadsAt(program, k, c) /\ Stage(k, c)
  BY DEF ReadInv
<1>3. NextStage(k, c)
  BY <1>2 DEF Stage, NextStage, Held, vars
<1>4. Stage(k, c)' /\ ReadsAt(program', k, c) /\ k \in 1..(Len(program'.main) + 1)
  BY <1>2, <1>3, StageAfter DEF vars
<1>5. QED BY <1>1, <1>4 DEF ReadInv

\* At every stage two bytes are those of one count.
LEMMA ReadWhole == ReadInv => LatchedReadWhole
<1> SUFFICES ASSUME ReadInv, Len(got.count) = 2
             PROVE  got.count[1] + BYTE * got.count[2] = latched_at
  BY DEF LatchedReadWhole
<1>1. PICK k \in 1..(Len(program.main) + 1), c \in Pit!Channels : Stage(k, c)
  BY DEF ReadInv
<1>2. pc \in Nat /\ k \in Nat
  BY DEF ReadInv, CpuInv
<1>3. ~(pc <= k) /\ pc # k + 1
  <2>1. Len(<<>>) # 2
    OBVIOUS
  <2>2. QED BY <1>1, <2>1, Zenon DEF Stage
<1>4. pc # k + 2
  <2>1. \A a : Len(<<a>>) # 2
    OBVIOUS
  <2>2. QED BY <1>1, <2>1, Zenon DEF Stage
<1>5. latched_at \in Nat /\ Both(got.count, latched_at)
  <2>1. pc > k + 2
    BY <1>2, <1>3, <1>4
  <2>2. QED BY <1>1, <2>1, Zenon DEF Stage
<1>6. got.count[1] = latched_at % BYTE /\ got.count[2] = latched_at \div BYTE
  BY <1>5 DEF Both
<1>7. (latched_at % BYTE) + BYTE * (latched_at \div BYTE) = latched_at
  BY <1>5, Bytes
<1>8. QED BY <1>6, <1>7, Zenon

(* The two bytes read after the latch command are of the count at the      *)
(* command, however the bus delays it, whatever the counter counts         *)
(* meanwhile, and whether or not the handler runs between the command and  *)
(* the reads, in every program that reads a count as the boot PROM does.   *)
THEOREM LatchedReadsWhole ==
    ASSUME \A p \in Programs : ReadsLatched(p)
    PROVE  Spec => []LatchedReadWhole
<1>1. Init => ReadInv
  BY ReadInitially
<1>2. ReadInv /\ [Clock]_vars => ReadInv'
  BY ReadStep, ReadStutters
<1>3. QED BY <1>1, <1>2, ReadWhole, PTL DEF Spec

-----------------------------------------------------------------------------
(* The handler is entered for news.  A latch that was there when it was    *)
(* entered is cleared, and the clear has reached INT2, before it returns;  *)
(* the clears main gives have reached it before main turns interrupts on.  *)

IsSeq(f) == \E S : f \in Seq(S)
Clearing(e) == e.reg = "TMR_CLR"
NoClears(f) == \A n \in 1..Len(f) : ~Clearing(f[n])

\* What is latched is not all old.
Served == tmr_stat # {} => news # {}

\* No counter is ever set up.
NoTimers ==
    /\ \A i \in 1..Len(program.main) : LeavesPit(program.main[i])
    /\ AllQuiet(fifo) /\ tmr_stat = {}
    /\ \A i \in Timers : ~counter[i].running /\ ~counter[i].out

(* Main, at x, gave a clear that k entries of the FIFO are behind; and it  *)
(* has loaded nothing since.                                               *)
Behind(x, k) ==
    \E c \in 1..(x - 1) :
        /\ IsClear(program.main[c])
        /\ \A l \in (c + 1)..(x - 1) : program.main[l].op # "load"
        /\ \A s \in 0..(x - 1 - c) :
              (\A i \in (x - s)..(x - 1) : program.main[i].op = "store") => s <= k
MainClears ==
    \A n \in 1..Len(fifo) :
        Clearing(fifo[n]) => fifo[n].value = {0, 1} /\ Behind(pc, Len(fifo) - n)

(* The handler, that clears at a and loads at b.                           *)
OnItsWay ==
    \E n \in 1..Len(fifo) :
        /\ Clearing(fifo[n]) /\ tmr_stat \ fifo[n].value \subseteq news
        /\ \A m \in 1..Len(fifo) : m # n => ~Clearing(fifo[m])
InHandler(a, b) ==
    /\ hpc <= a => NoClears(fifo)
    /\ hpc = a /\ program.handler[a].op = "found" => tmr_stat \ got.map \subseteq news
    /\ hpc > a => (NoClears(fifo) /\ Served) \/ (hpc <= b /\ OnItsWay)

WithTimers ==
    /\ \E a, b \in 1..Len(program.handler) :
          ServesAt(program.handler, a, b) /\ (hpc > 0 => InHandler(a, b))
    /\ hpc = 0 => Served
    /\ hpc = 0 /\ sr.ie => NoClears(fifo)
    /\ ~sr.ie => MainClears

(* Interrupts are on since main turned them on.                            *)
Since(x, on) ==
    on => \E j \in 1..(x - 1) : /\ program.main[j].op = "status" /\ program.main[j].ie
                                /\ \A m \in (j + 1)..(x - 1) : program.main[m].op # "status"
ModeInv ==
    /\ ReadsBack(program)
    /\ IsSeq(queue) /\ IsSeq(push) /\ Len(fifo) <= FIFO
    /\ tmr_stat \subseteq Timers
    /\ \A i \in Timers : counter[i].out /\ i \notin pit_out_d => i \in expired
    /\ hpc > 0 => sr.ie /\ sr.exl
    /\ Since(pc, sr.ie)

\* The lines are as they were a clock ago.
LinesInv == hpc = 0 /\ sr.ie /\ ip # {} => news # {} \/ queue # <<>>

EntryInv ==
    /\ ModeInv /\ LinesInv
    /\ program.handler # <<>> => NoTimers \/ WithTimers

\* An output rises when its counter expires, whatever the access.
LEMMA OutsRise ==
    ASSUME ChannelsOk, NEW acc, Pit!Clock(PitAccess(acc)), NEW i \in Timers
    PROVE  counter'[i].out /\ ~counter[i].out => Pit!Expires(i)
<1> DEFINE d == Pit!Counted(i)
           ch == counter[i]
           a == PitAccess(acc)
<1>1. i \in Pit!Channels /\ ChannelOk(ch) /\ ChannelOk(d)
  BY CountsOn DEF Timers, Pit!Channels, ChannelsOk
<1>2. d.out /\ ~ch.out => Pit!Expires(i)
  <2>1. \/ d = ch
        \/ d = [ch EXCEPT !.count = @ - 1, !.out = FALSE]
        \/ Pit!Ticks /\ ch.running /\ ~(ch.count > 0)
    BY DEF Pit!Counted
  <2>2. ch.count \in Nat /\ DOMAIN ch = Fields
    BY <1>1 DEF ChannelOk
  <2>3. CASE d = [ch EXCEPT !.count = @ - 1, !.out = FALSE]
    <3>1. d.out = FALSE
      BY <2>2, <2>3 DEF Fields
    <3>2. QED BY <3>1
  <2>4. CASE Pit!Ticks /\ ch.running /\ ~(ch.count > 0)
    BY <2>2, <2>4 DEF Pit!Expires
  <2>5. CASE d = ch
    BY <2>5
  <2>6. QED BY <2>1, <2>3, <2>4, <2>5
<1> HIDE DEF d, ch, a
<1>3. counter'[i] = CASE a.op = "wr" /\ a.sel = 3 /\ a.din.sc = i -> Pit!Commanded(i, a.din)
                      [] a.op = "wr" /\ a.sel = i -> Pit!Loaded(i, a.din)
                      [] a.op = "rd" /\ a.sel = i -> Pit!HasRead(i)
                      [] OTHER -> d
  BY <1>1 DEF Pit!Clock, a, d
<1>4. DOMAIN d = Fields
  BY <1>1 DEF ChannelOk
<1>5. ASSUME NEW w PROVE Pit!Commanded(i, w).out = d.out
  BY <1>4, <1>5 DEF Pit!Commanded, d, Fields
<1>6. Pit!HasRead(i).out = d.out
  BY <1>4 DEF Pit!HasRead, d, Fields
<1>7. ASSUME NEW w PROVE Pit!Loaded(i, w).out = d.out
  <2> DEFINE load(v) == [d EXCEPT !.reload = v, !.count = v, !.running = TRUE]
  <2>1. ASSUME NEW v PROVE DOMAIN load(v) = Fields /\ load(v).out = d.out
    BY <1>4 DEF Fields
  <2>2. ASSUME NEW v, NEW e, e = [load(v) EXCEPT !.wr_msb = FALSE] PROVE e.out = d.out
    <3>1. e.out = load(v).out
      BY <2>1, <2>2 DEF Fields
    <3>2. QED BY <2>1, <3>1
  <2>3. ASSUME NEW v, NEW e, e = [d EXCEPT !.reload = v, !.wr_msb = TRUE, !.running = FALSE]
        PROVE  e.out = d.out
    BY <1>4, <2>3 DEF Fields
  <2> HIDE DEF load
  <2>4. \/ \E v : Pit!Loaded(i, w) = load(v) \/ Pit!Loaded(i, w) = [load(v) EXCEPT !.wr_msb = FALSE]
        \/ \E v : Pit!Loaded(i, w) = [d EXCEPT !.reload = v, !.wr_msb = TRUE, !.running = FALSE]
    BY Zenon DEF Pit!Loaded, d, load
  <2>5. ASSUME NEW v, Pit!Loaded(i, w) = load(v) PROVE Pit!Loaded(i, w).out = d.out
    BY <2>1, <2>5
  <2>6. ASSUME NEW v, Pit!Loaded(i, w) = [load(v) EXCEPT !.wr_msb = FALSE]
        PROVE  Pit!Loaded(i, w).out = d.out
    BY <2>2, <2>6
  <2>7. ASSUME NEW v, Pit!Loaded(i, w) = [d EXCEPT !.reload = v, !.wr_msb = TRUE, !.running = FALSE]
        PROVE  Pit!Loaded(i, w).out = d.out
    BY <2>3, <2>7
  <2>8. QED BY <2>4, <2>5, <2>6, <2>7, Zenon
<1>8. counter'[i].out = d.out
  BY <1>3, <1>5, <1>6, <1>7
<1>9. QED BY <1>2, <1>8 DEF ch

\* Latches come with an expiry, which is news; they go with a clear.
LEMMA LatchesOn ==
    ASSUME NEW acc, NEW outs, Ints!Clock(acc, outs), Observes(acc), tmr_stat \subseteq Timers,
           \A i \in Timers : i \in outs /\ i \notin pit_out_d => i \in expired,
           NEW clr, clr = (IF acc.op = "wr" /\ acc.reg = "TMR_CLR" THEN acc.value ELSE {})
    PROVE  /\ tmr_stat' \subseteq Timers
           /\ news' = ((IF IrqTrigger THEN {} ELSE news) \ clr) \union expired
           /\ \/ expired # {} /\ tmr_stat' \subseteq tmr_stat \union expired
              \/ tmr_stat' = tmr_stat \ clr
<1>1. tmr_stat' = IF Ints!PitEdge(outs) # {} THEN tmr_stat \union Ints!PitEdge(outs)
                  ELSE tmr_stat \ clr
  BY DEF Ints!Clock, Ints!Latches
<1>2. Ints!PitEdge(outs) \subseteq expired /\ Ints!PitEdge(outs) \subseteq Timers
  BY DEF Ints!PitEdge, Timers
<1>3. news' = ((IF IrqTrigger THEN {} ELSE news) \ clr) \union expired
  BY DEF Observes
<1>4. QED BY <1>1, <1>2, <1>3

\* With no interrupt taken, no latch is old that was not, if a clear is of both.
LEMMA ServedOn ==
    ASSUME NEW acc, NEW outs, Ints!Clock(acc, outs), Observes(acc), tmr_stat \subseteq Timers,
           \A i \in Timers : i \in outs /\ i \notin pit_out_d => i \in expired,
           Served, ~IrqTrigger, acc.op = "wr" /\ acc.reg = "TMR_CLR" => acc.value = {0, 1}
    PROVE  Served'
<1> DEFINE clr == IF acc.op = "wr" /\ acc.reg = "TMR_CLR" THEN acc.value ELSE {}
<1>1. clr = {} \/ clr = Timers
  BY DEF Timers
<1>2. /\ news' = (news \ clr) \union expired
      /\ \/ expired # {} /\ tmr_stat' \subseteq tmr_stat \union expired
         \/ tmr_stat' = tmr_stat \ clr
  BY LatchesOn
<1> HIDE DEF clr
<1>3. QED BY <1>1, <1>2 DEF Served

\* A byte that waits is there until it is taken.
LEMMA QueueOn ==
    ASSUME NEW acc, NEW in, Kbd!Clock(KbdAccess(acc), in), IsSeq(queue), IsSeq(push)
    PROVE  /\ IsSeq(queue') /\ IsSeq(push')
           /\ queue # <<>> /\ ~(acc.op = "rd" /\ acc.reg = "KBD_DATA") => queue' # <<>>
<1> DEFINE pop == KbdAccess(acc).op = "rd" /\ ~KbdAccess(acc).cmd /\ queue # <<>>
           q == IF pop THEN Tail(queue) ELSE queue
<1>1. PICK S, T : queue \in Seq(S) /\ push \in Seq(T)
  BY DEF IsSeq
<1>2. queue \in Seq(S \union T) /\ push \in Seq(S \union T)
  BY <1>1
<1>3. queue' = q \o push
  BY DEF Kbd!Clock, Kbd!Queued
<1>4. q \in Seq(S \union T)
  BY <1>2
<1>5. ~(acc.op = "rd" /\ acc.reg = "KBD_DATA") => q = queue
  BY DEF KbdAccess
<1> HIDE DEF q
<1>6. queue' \in Seq(S \union T) /\ (q # <<>> => queue' # <<>>)
  BY <1>2, <1>3, <1>4
<1>7. \E bytes : push' = Kbd!First(bytes)
  <2>1. ASSUME NEW aux, NEW bytes, Kbd!Answers(aux, bytes)
        PROVE  \E b : push' = Kbd!First(b)
    BY <2>1, Zenon DEF Kbd!Answers
  <2>2. ASSUME NEW a, Kbd!Writes(a) PROVE \E aux, bytes : Kbd!Answers(aux, bytes)
    <3>1. CASE Kbd!CommandPort(a.din)
      BY <3>1, Zenon DEF Kbd!CommandPort
    <3>2. CASE Kbd!Argument(a.din)
      BY <3>2, Zenon DEF Kbd!Argument
    <3>3. CASE Kbd!MouseCommand(a.din)
      BY <3>3, Zenon DEF Kbd!MouseCommand
    <3>4. CASE Kbd!KeyboardCommand(a.din)
      BY <3>4, Zenon DEF Kbd!KeyboardCommand
    <3>5. QED BY <2>2, <3>1, <3>2, <3>3, <3>4, Zenon DEF Kbd!Writes
  <2>3. Kbd!Steps(in) => \E b : push' = Kbd!First(b)
    BY Zenon DEF Kbd!Steps
  <2>4. QED BY <2>1, <2>2, <2>3, Zenon DEF Kbd!Clock
<1>8. IsSeq(push')
  <2>1. PICK bytes : push' = Kbd!First(bytes)
    BY <1>7
  <2>2. push' = <<>> \/ push' = <<Head(bytes)>>
    BY <2>1 DEF Kbd!First
  <2>3. ASSUME NEW x PROVE <<>> \in Seq({x}) /\ <<x>> \in Seq({x})
    OBVIOUS
  <2>4. QED BY <2>2, <2>3 DEF IsSeq
<1>9. QED BY <1>5, <1>6, <1>8 DEF IsSeq

\* What a clear stored is: the instruction's, or of what was found.
LEMMA ClearStored ==
    ASSUME CpuInv
    PROVE  \/ Stored = <<>>
           \/ \E e \in Entries :
                 /\ Stored = <<e>>
                 /\ \/ Runs("store") /\ e.reg = Instruction.reg /\ e.value = Instruction.value
                    \/ Runs("found") /\ e.reg = "TMR_CLR" /\ e.value = got.map
                 /\ Clearing(e) => IsClear(Instruction)
<1>1. CASE Runs("store") /\ Len(fifo) < FIFO
  <2> DEFINE e == [reg |-> Instruction.reg, value |-> Instruction.value]
  <2>1. Stored = <<e>>
    BY <1>1 DEF Stored
  <2>2. e \in Entries /\ Instruction.op = "store"
    BY <1>1, AtInstruction DEF Entries
  <2>3. Clearing(e) => IsClear(Instruction)
    BY <2>2 DEF Clearing, IsClear
  <2>4. QED BY <1>1, <2>1, <2>2, <2>3
<1>2. CASE Runs("found") /\ Len(fifo) < FIFO /\ ~Runs("store")
  <2> DEFINE e == [reg |-> "TMR_CLR", value |-> got.map]
  <2>1. Stored = <<e>>
    BY <1>2 DEF Stored
  <2>2. e \in Entries
    BY DEF Entries, CpuInv
  <2>3. IsClear(Instruction)
    BY <1>2 DEF Runs, IsClear
  <2>4. QED BY <1>2, <2>1, <2>2, <2>3
<1>3. CASE ~(Runs("store") /\ Len(fifo) < FIFO) /\ ~(Runs("found") /\ Len(fifo) < FIFO /\ ~Runs("store"))
  BY <1>3 DEF Stored
<1>4. QED BY <1>1, <1>2, <1>3

\* Where no clear waits none goes; and none comes but with a clear.
LEMMA NoneCome ==
    ASSUME CpuInv, NEW acc \in {Access, [op |-> "none"]}, Cpu(acc), NoClears(fifo)
    PROVE  /\ ~(acc.op = "wr" /\ acc.reg = "TMR_CLR")
           /\ NoClears(IF acc.op = "wr" THEN Tail(fifo) ELSE fifo)
           /\ (Stored = <<>> \/ ~IsClear(Instruction)) => NoClears(fifo')
<1> DEFINE q == IF acc.op = "wr" THEN Tail(fifo) ELSE fifo
<1>1. /\ acc.op = "wr" => fifo # <<>> /\ acc.reg = fifo[1].reg
      /\ fifo' = q \o Stored /\ q \in Seq(Entries) /\ fifo \in Seq(Entries)
  BY FifoOn DEF CpuInv
<1>2. ~(acc.op = "wr" /\ acc.reg = "TMR_CLR")
  <2>1. acc.op = "wr" => 1 \in 1..Len(fifo)
    BY <1>1, Queues
  <2>2. QED BY <1>1, <2>1 DEF NoClears, Clearing
<1>3. NoClears(q)
  <2>1. CASE acc.op = "wr"
    <3>1. /\ Len(fifo) \in Nat /\ Len(Tail(fifo)) = Len(fifo) - 1
          /\ \A n \in 1..(Len(fifo) - 1) : Tail(fifo)[n] = fifo[n + 1]
      BY <1>1, <2>1, Queues
    <3>2. QED BY <2>1, <3>1 DEF NoClears
  <2>2. QED BY <2>1
<1> HIDE DEF q
<1>4. CASE Stored = <<>>
  <2>1. fifo' = q
    BY <1>1, <1>4, Queues
  <2>2. QED BY <1>2, <1>3, <2>1 DEF q
<1>5. ASSUME NEW e \in Entries, Stored = <<e>>, ~Clearing(e)
      PROVE  NoClears(fifo')
  <2>1. /\ Len(q) \in Nat /\ Len(fifo') = Len(q) + 1 /\ fifo'[Len(q) + 1] = e
        /\ \A n \in 1..Len(q) : fifo'[n] = q[n]
    BY <1>1, <1>5, Queues
  <2>2. QED BY <1>3, <1>5, <2>1 DEF NoClears
<1>6. ~IsClear(Instruction) => NoClears(fifo')
  <2>1. CASE Stored = <<>>
    BY <1>1, <1>3, <2>1, Queues
  <2>2. QED BY <1>5, <2>1, ClearStored
<1>7. QED BY <1>1, <1>2, <1>3, <1>4, <1>6, Queues DEF q

\* Without a clear what is new stays so, and so does what a clear will leave.
LEMMA NewsOn ==
    ASSUME NEW acc, NEW outs, Ints!Clock(acc, outs), Observes(acc), tmr_stat \subseteq Timers,
           \A i \in Timers : i \in outs /\ i \notin pit_out_d => i \in expired,
           ~IrqTrigger, ~(acc.op = "wr" /\ acc.reg = "TMR_CLR")
    PROVE  /\ news \subseteq news' /\ (Served => Served')
           /\ tmr_stat' \subseteq tmr_stat \union news'
           /\ \A X : tmr_stat \ X \subseteq news => tmr_stat' \ X \subseteq news'
<1>1. /\ news' = (news \ {}) \union expired
      /\ \/ expired # {} /\ tmr_stat' \subseteq tmr_stat \union expired
         \/ tmr_stat' = tmr_stat \ {}
  BY LatchesOn
<1>2. QED BY <1>1 DEF Served

\* The handler goes on, or returns from its end, and no interrupt is taken.
LEMMA HandlerMoves ==
    ASSUME CpuInv, ReadsBack(program), hpc > 0, sr.exl, NEW acc, Cpu(acc)
    PROVE  /\ ~IrqTrigger /\ hpc \in 1..Len(program.handler) /\ pc' = pc
           /\ Instruction = program.handler[hpc] /\ Instruction.op # "status"
           /\ \/ hpc' = hpc /\ ~Retires(acc) /\ Stored = <<>>
              \/ hpc' = hpc + 1 /\ hpc' <= Len(program.handler) /\ Retires(acc)
              \/ hpc' = 0 /\ hpc = Len(program.handler) /\ Stored = <<>> /\ Runs("eret")
           /\ \A op : Runs(op) => op = Instruction.op
<1>1. ~IrqTrigger
  BY DEF IrqTrigger
<1>2. hpc \in 1..Len(program.handler) /\ Instruction = program.handler[hpc]
  <2>1. Len(program.handler) \in Nat
    BY DEF CpuInv, ReadsLatched
  <2>2. QED BY <2>1 DEF CpuInv, Instruction
<1>3. \A op : Runs(op) => op = Instruction.op
  BY DEF Runs
<1>4. /\ Instruction.op # "status"
      /\ Runs("eret") => hpc = Len(program.handler)
  BY <1>2, <1>3 DEF ReadsBack
<1>5. Runs("eret") => Stored = <<>>
  BY <1>3 DEF Stored
<1>6. pc' = pc
  BY <1>1 DEF Cpu, Advance
<1>7. \/ hpc' = hpc /\ ~Retires(acc)
      \/ hpc' = hpc + 1 /\ Retires(acc)
      \/ hpc' = 0 /\ Runs("eret")
  BY <1>1 DEF Cpu, Advance
<1>8. hpc' = hpc + 1 => hpc' <= Len(program.handler)
  <2>1. hpc' \in 0..Len(program.handler)
    BY Advancing
  <2>2. QED BY <1>2, <2>1
<1>9. Stored # <<>> => Retires(acc)
  BY DEF Retires
<1>10. QED BY <1>1, <1>2, <1>3, <1>4, <1>5, <1>6, <1>7, <1>8, <1>9

\* A load retires with an empty FIFO; what does not load leaves what was found.
LEMMA Loading ==
    ASSUME CpuInv, NEW acc \in {Access, [op |-> "none"]}, Cpu(acc)
    PROVE  /\ Retires(acc) /\ Instruction.op = "load" =>
                fifo = <<>> /\ acc.op = "rd" /\ acc.reg = Instruction.reg /\ Stored = <<>>
           /\ Instruction.op \in {"store", "found"} => got' = got
           /\ acc.op = "rd" /\ acc.reg = "MAP_STAT" => tmr_stat \subseteq got'.map
<1>1. ASSUME Retires(acc), Instruction.op = "load"
      PROVE  Runs("load") /\ acc.op = "rd" /\ Stored = <<>>
  <2>1. \A op : Runs(op) => op = "load"
    BY <1>1 DEF Runs
  <2>2. Stored = <<>>
    BY <2>1 DEF Stored
  <2>3. QED BY <1>1, <2>1, <2>2 DEF Retires
<1>2. Instruction.op \in {"store", "found"} => acc.op # "rd"
  <2>1. Access.op = "rd" => Runs("load") \/ Runs("byte") \/ Runs("drain")
    BY DEF Access
  <2>2. QED BY <2>1 DEF Runs
<1>3. Instruction.op \in {"store", "found"} => got' = got
  BY <1>2 DEF Cpu, Loads
<1>4. ASSUME acc.op = "rd", acc.reg = "MAP_STAT"
      PROVE  tmr_stat \subseteq got'.map
  <2>1. got' = [got EXCEPT !.map = Ints!MapStat(MapSource)]
    BY <1>4 DEF Cpu, Loads
  <2>2. got'.map = Ints!MapStat(MapSource)
    BY <2>1 DEF CpuInv, GotFields
  <2>3. QED BY <2>2 DEF Ints!MapStat
<1>5. QED BY <1>1, <1>3, <1>4, FifoOn

\* The handler before its clear, and at it.
LEMMA BeforeClear ==
    ASSUME CpuInv, ReadsBack(program), hpc > 0, sr.exl,
           NEW acc \in {Access, [op |-> "none"]}, Cpu(acc), UNCHANGED program,
           NEW outs, Ints!Clock(acc, outs), Observes(acc), tmr_stat \subseteq Timers,
           \A i \in Timers : i \in outs /\ i \notin pit_out_d => i \in expired,
           NEW a \in 1..Len(program.handler), NEW b \in 1..Len(program.handler),
           ServesAt(program.handler, a, b), InHandler(a, b), hpc <= a
    PROVE  InHandler(a, b)' /\ hpc' > 0
<1> DEFINE h == program.handler
           q == IF acc.op = "wr" THEN Tail(fifo) ELSE fifo
<1>1. /\ ~IrqTrigger /\ hpc \in 1..Len(h) /\ Instruction = h[hpc]
      /\ \A op : Runs(op) => op = Instruction.op
      /\ \/ hpc' = hpc /\ ~Retires(acc) /\ Stored = <<>>
         \/ hpc' = hpc + 1 /\ hpc' <= Len(h) /\ Retires(acc)
         \/ hpc' = 0 /\ hpc = Len(h) /\ Stored = <<>> /\ Runs("eret")
  BY HandlerMoves
<1>2. a \in Nat /\ b \in Nat /\ hpc \in Nat /\ a < b /\ b <= Len(h) /\ Len(h) \in Nat
  BY DEF CpuInv, ServesAt, ReadsLatched
<1>3. \/ hpc' = hpc /\ ~Retires(acc) /\ Stored = <<>>
      \/ hpc' = hpc + 1 /\ Retires(acc)
  BY <1>1, <1>2
<1>4. NoClears(fifo)
  BY DEF InHandler
<1>5. /\ ~(acc.op = "wr" /\ acc.reg = "TMR_CLR") /\ NoClears(q)
      /\ (Stored = <<>> \/ ~IsClear(Instruction)) => NoClears(fifo')
  BY <1>4, NoneCome
<1>6. /\ tmr_stat' \subseteq tmr_stat \union news'
      /\ \A X : tmr_stat \ X \subseteq news => tmr_stat' \ X \subseteq news'
      /\ tmr_stat' \subseteq Timers
  BY <1>1, <1>5, NewsOn, LatchesOn
<1>7. CASE hpc < a
  <2>1. ~IsClear(Instruction)
    BY <1>1, <1>7 DEF ServesAt
  <2>2. NoClears(fifo') /\ ~(hpc' > a)
    BY <1>2, <1>3, <1>5, <1>7, <2>1
  <2>3. ASSUME hpc' = a, h[a].op = "found"
        PROVE  tmr_stat' \ got'.map \subseteq news'
    <3>1. hpc' = hpc + 1 /\ Retires(acc) /\ hpc = a - 1
      BY <1>2, <1>3, <1>7, <2>3
    <3>2. Instruction = Load("MAP_STAT")
      <4>1. h[a] # ClearBoth
        <5>1. ClearBoth.op = "store"
          BY DEF ClearBoth, Store
        <5>2. QED BY <2>3, <5>1
      <4>2. QED BY <1>1, <3>1, <4>1 DEF ServesAt
    <3>3. Instruction.op = "load" /\ Instruction.reg = "MAP_STAT"
      BY <3>2 DEF Load
    <3>4. tmr_stat \subseteq got'.map
      BY <3>1, <3>3, Loading
    <3>5. QED BY <1>6, <3>4
  <2>4. QED BY <1>2, <1>3, <2>2, <2>3 DEF InHandler, NoClears, Clearing
<1>8. CASE hpc = a
  <2>1. Instruction = h[a] /\ Instruction.op \in {"store", "found"}
        /\ (Instruction.op = "store" => Instruction = ClearBoth)
    BY <1>1, <1>8 DEF ServesAt, ClearBoth, Store
  <2>2. got' = got
    BY <2>1, Loading
  <2>3. CASE hpc' = hpc /\ Stored = <<>>
    <3>1. NoClears(fifo')
      BY <1>5, <2>3
    <3>2. h[a].op = "found" => tmr_stat' \ got'.map \subseteq news'
      BY <1>6, <1>8, <2>2 DEF InHandler
    <3>3. QED BY <1>2, <1>8, <2>3, <3>1, <3>2 DEF InHandler, NoClears, Clearing
  <2>4. CASE hpc' = hpc + 1 /\ Retires(acc)
    <3>1. Stored # <<>>
      <4>1. \A op : Runs(op) => op \in {"store", "found"}
        BY <1>1, <2>1
      <4>2. QED BY <2>4, <4>1 DEF Retires
    <3>2. PICK e \in Entries :
             /\ Stored = <<e>>
             /\ \/ Runs("store") /\ e.reg = Instruction.reg /\ e.value = Instruction.value
                \/ Runs("found") /\ e.reg = "TMR_CLR" /\ e.value = got.map
      BY <3>1, ClearStored
    <3>3. Clearing(e) /\ (e.value = {0, 1} \/ (h[a].op = "found" /\ e.value = got.map))
      <4>1. CASE Runs("store") /\ e.reg = Instruction.reg /\ e.value = Instruction.value
        BY <1>1, <2>1, <4>1 DEF ClearBoth, Store, Clearing
      <4>2. CASE Runs("found") /\ e.reg = "TMR_CLR" /\ e.value = got.map
        BY <1>1, <2>1, <4>2 DEF Clearing
      <4>3. QED BY <3>2, <4>1, <4>2
    <3>4. tmr_stat' \ e.value \subseteq news'
      <4>1. CASE e.value = {0, 1}
        BY <1>6, <4>1 DEF Timers
      <4>2. CASE h[a].op = "found" /\ e.value = got.map
        <5>1. tmr_stat \ got.map \subseteq news
          BY <1>8, <4>2 DEF InHandler
        <5>2. QED BY <1>6, <4>2, <5>1
      <4>3. QED BY <3>3, <4>1, <4>2
    <3>5. /\ Len(q) \in Nat /\ Len(fifo') = Len(q) + 1 /\ fifo'[Len(q) + 1] = e
          /\ \A n \in 1..Len(q) : fifo'[n] = q[n]
      <4>1. fifo' = q \o <<e>> /\ q \in Seq(Entries)
        BY <3>2, FifoOn
      <4>2. QED BY <4>1, Queues
    <3>6. \A m \in 1..Len(fifo') : m # Len(fifo') => ~Clearing(fifo'[m])
      BY <1>5, <3>5 DEF NoClears
    <3>7. Len(fifo') \in 1..Len(fifo') /\ fifo'[Len(fifo')] = e
      BY <3>5
    <3>8. OnItsWay'
      BY <3>3, <3>4, <3>6, <3>7 DEF OnItsWay, Clearing
    <3>9. ~(hpc' <= a) /\ hpc' > a /\ hpc' <= b /\ hpc' # a
      BY <1>2, <1>8, <2>4
    <3>10. InHandler(a, b)'
      BY <3>8, <3>9, Zenon DEF InHandler
    <3>11. QED BY <1>2, <2>4, <3>10
  <2>5. QED BY <1>3, <2>3, <2>4
<1>9. QED BY <1>2, <1>7, <1>8

\* The clear on its way to INT2, and the handler behind it.
LEMMA AfterClear ==
    ASSUME CpuInv, ReadsBack(program), hpc > 0, sr.exl,
           NEW acc \in {Access, [op |-> "none"]}, Cpu(acc), UNCHANGED program,
           NEW outs, Ints!Clock(acc, outs), Observes(acc), tmr_stat \subseteq Timers,
           \A i \in Timers : i \in outs /\ i \notin pit_out_d => i \in expired,
           NEW a \in 1..Len(program.handler), NEW b \in 1..Len(program.handler),
           ServesAt(program.handler, a, b), InHandler(a, b), hpc > a
    PROVE  /\ hpc' > 0 => InHandler(a, b)'
           /\ hpc' = 0 => NoClears(fifo) /\ NoClears(fifo') /\ Served /\ Served'
<1> DEFINE h == program.handler
           q == IF acc.op = "wr" THEN Tail(fifo) ELSE fifo
<1>1. /\ ~IrqTrigger /\ hpc \in 1..Len(h) /\ Instruction = h[hpc]
      /\ \A op : Runs(op) => op = Instruction.op
      /\ \/ hpc' = hpc /\ ~Retires(acc) /\ Stored = <<>>
         \/ hpc' = hpc + 1 /\ hpc' <= Len(h) /\ Retires(acc)
         \/ hpc' = 0 /\ hpc = Len(h) /\ Stored = <<>> /\ Runs("eret")
  BY HandlerMoves
<1>2. a \in Nat /\ b \in Nat /\ hpc \in Nat /\ a < b /\ b <= Len(h) /\ Len(h) \in Nat
  BY DEF CpuInv, ServesAt, ReadsLatched
<1>3. ~IsClear(Instruction)
  BY <1>1, <1>2 DEF ServesAt
<1>4. hpc' = 0 \/ (hpc' > a /\ (hpc' = hpc \/ (hpc' = hpc + 1 /\ Retires(acc))))
  BY <1>1, <1>2
<1>5. CASE NoClears(fifo) /\ Served
  <2>1. NoClears(fifo') /\ Served'
    BY <1>1, <1>3, <1>5, NoneCome, NewsOn
  <2>2. hpc' > 0 => InHandler(a, b)'
    BY <1>2, <1>4, <2>1 DEF InHandler, NoClears, Clearing
  <2>3. QED BY <1>5, <2>1, <2>2
<1>6. CASE hpc <= b /\ OnItsWay /\ ~(NoClears(fifo) /\ Served)
  <2>1. PICK n \in 1..Len(fifo) :
           /\ Clearing(fifo[n]) /\ tmr_stat \ fifo[n].value \subseteq news
           /\ \A m \in 1..Len(fifo) : m # n => ~Clearing(fifo[m])
    BY <1>6 DEF OnItsWay
  <2>2. /\ acc.op = "wr" => fifo # <<>> /\ acc.reg = fifo[1].reg /\ acc.value = fifo[1].value
        /\ fifo' = q \o Stored /\ q \in Seq(Entries) /\ fifo \in Seq(Entries)
    BY FifoOn DEF CpuInv
  <2>3. /\ Len(fifo) \in Nat /\ fifo # <<>> /\ n \in Nat
        /\ acc.op = "wr" => /\ Len(q) = Len(fifo) - 1
                            /\ \A k \in 1..Len(q) : q[k] = fifo[k + 1]
        /\ acc.op # "wr" => q = fifo
    BY <2>1, <2>2, Queues
  <2> HIDE DEF q
  <2>4. /\ Len(q) \in Nat
        /\ \A k \in 1..Len(q) : fifo'[k] = q[k]
        /\ Len(fifo') = Len(q) \/ (Len(fifo') = Len(q) + 1 /\ ~Clearing(fifo'[Len(fifo')]))
    <3>1. CASE Stored = <<>>
      BY <2>2, <3>1, Queues
    <3>2. CASE Stored # <<>>
      <4>1. PICK e \in Entries : Stored = <<e>> /\ ~Clearing(e)
        BY <1>3, <3>2, ClearStored
      <4>2. QED BY <2>2, <4>1, Queues
    <3>3. QED BY <3>1, <3>2
  <2>5. hpc' > a /\ hpc' <= b
    <3>1. hpc = b => ~Retires(acc) /\ ~Runs("eret")
      <4>1. hpc = b => Instruction.op = "load"
        BY <1>1 DEF ServesAt
      <4>2. QED BY <1>1, <2>3, <4>1, Loading
    <3>2. CASE hpc < b
      BY <1>1, <1>2, <3>2
    <3>3. CASE hpc = b
      BY <1>1, <1>2, <3>1, <3>3
    <3>4. QED BY <1>2, <1>6, <3>2, <3>3
  <2>6. CASE acc.op = "wr" /\ n = 1
    <3>1. acc.reg = "TMR_CLR" /\ acc.value = fifo[1].value
      BY <2>1, <2>2, <2>6 DEF Clearing
    <3>2. Served'
      <4>1. /\ news' = (news \ acc.value) \union expired
            /\ \/ expired # {} /\ tmr_stat' \subseteq tmr_stat \union expired
               \/ tmr_stat' = tmr_stat \ acc.value
        BY <1>1, <2>6, <3>1, LatchesOn
      <4>2. tmr_stat \ acc.value \subseteq news
        BY <2>1, <2>6, <3>1
      <4>3. QED BY <4>1, <4>2 DEF Served
    <3>3. \A k \in 1..Len(q) : ~Clearing(q[k])
      BY <2>1, <2>3, <2>6
    <3>4. NoClears(fifo')
      <4>1. ASSUME NEW k \in 1..Len(fifo') PROVE ~Clearing(fifo'[k])
        <5>1. k \in 1..Len(q) \/ (Len(fifo') = Len(q) + 1 /\ k = Len(fifo'))
          BY <2>4, <4>1
        <5>2. QED BY <2>4, <3>3, <5>1 DEF Clearing
      <4>2. QED BY <4>1 DEF NoClears
    <3>5. QED BY <1>2, <2>5, <3>2, <3>4 DEF InHandler, NoClears, Clearing
  <2>7. CASE ~(acc.op = "wr" /\ n = 1)
    <3>1. ~(acc.op = "wr" /\ acc.reg = "TMR_CLR")
      <4>1. CASE acc.op = "wr"
        <5>1. 1 \in 1..Len(fifo) /\ n # 1
          BY <2>1, <2>7, <4>1
        <5>2. QED BY <2>1, <2>2, <4>1, <5>1 DEF Clearing
      <4>2. QED BY <4>1
    <3> DEFINE k == IF acc.op = "wr" THEN n - 1 ELSE n
    <3>2. k \in 1..Len(q) /\ q[k] = fifo[n]
      BY <2>1, <2>3, <2>7
    <3>3. \A m \in 1..Len(q) : m # k => ~Clearing(q[m])
      <4>1. CASE acc.op = "wr"
        <5>1. \A m \in 1..Len(q) : m # n - 1 => m + 1 \in 1..Len(fifo) /\ m + 1 # n
          BY <2>1, <2>3, <2>4, <4>1
        <5>2. QED BY <2>1, <2>3, <4>1, <5>1
      <4>2. CASE acc.op # "wr"
        BY <2>1, <2>3, <4>2
      <4>3. QED BY <4>1, <4>2
    <3> HIDE DEF k
    <3>4. k \in 1..Len(fifo') /\ fifo'[k] = fifo[n]
      BY <2>4, <3>2
    <3>5. \A m \in 1..Len(fifo') : m # k => ~Clearing(fifo'[m])
      <4>1. ASSUME NEW m \in 1..Len(fifo'), m # k PROVE ~Clearing(fifo'[m])
        <5>1. m \in 1..Len(q) \/ (Len(fifo') = Len(q) + 1 /\ m = Len(fifo'))
          BY <2>4, <4>1
        <5>2. QED BY <2>4, <3>3, <4>1, <5>1 DEF Clearing
      <4>2. QED BY <4>1
    <3>6. tmr_stat' \ fifo[n].value \subseteq news'
      BY <1>1, <2>1, <3>1, NewsOn
    <3>7. OnItsWay'
      BY <2>1, <3>4, <3>5, <3>6 DEF OnItsWay, Clearing
    <3>8. ~(hpc' <= a) /\ hpc' # a /\ hpc' # 0
      BY <1>2, <1>4, <2>5
    <3>9. QED BY <2>5, <3>7, <3>8, Zenon DEF InHandler
  <2>8. QED BY <2>6, <2>7
<1>7. QED BY <1>5, <1>6 DEF InHandler

\* Main goes on to its next instruction, or an interrupt is taken.
LEMMA MainMoves ==
    ASSUME CpuInv, ReadsBack(program), hpc = 0, NEW acc, Cpu(acc)
    PROVE  /\ \A op : Runs(op) => /\ op = Instruction.op /\ pc \in 1..Len(program.main)
                                  /\ Instruction = program.main[pc] /\ ~IrqTrigger
           /\ IrqTrigger => hpc' = 1 /\ pc' = pc /\ Stored = <<>> /\ sr.ie /\ sr'.ie /\ sr'.exl
           /\ ~IrqTrigger => /\ hpc' = 0
                             /\ \/ pc' = pc /\ ~Retires(acc) /\ Stored = <<>>
                                \/ pc' = pc + 1 /\ Retires(acc) /\ \E op : Runs(op)
           /\ sr'.ie = IF Runs("status") THEN Instruction.ie ELSE sr.ie
<1>1. \A op : Runs(op) => /\ op = Instruction.op /\ pc \in 1..Len(program.main)
                          /\ Instruction = program.main[pc] /\ ~IrqTrigger
  <2>1. ASSUME NEW op, Runs(op)
        PROVE  /\ op = Instruction.op /\ pc \in 1..Len(program.main)
               /\ Instruction = program.main[pc] /\ ~IrqTrigger
    BY <2>1, AtInstruction
  <2>2. QED BY <2>1
<1>2. sr'.ie = IF Runs("status") THEN Instruction.ie ELSE sr.ie
  <2>1. CASE Runs("status")
    BY <2>1 DEF Cpu, StatusTo
  <2>2. CASE ~Runs("status")
    <3>1. sr' = [sr EXCEPT !.exl = (@ \/ IrqTrigger) /\ ~Runs("eret")]
      BY <2>2 DEF Cpu, StatusTo
    <3>2. QED BY <2>2, <3>1 DEF CpuInv
  <2>3. QED BY <2>1, <2>2
<1>3. ASSUME IrqTrigger
      PROVE  hpc' = 1 /\ pc' = pc /\ Stored = <<>> /\ sr.ie /\ sr'.ie /\ sr'.exl
  <2>1. \A op : ~Runs(op)
    BY <1>3 DEF Runs
  <2>2. hpc' = 1 /\ pc' = pc
    BY <1>3 DEF Cpu
  <2>3. Stored = <<>>
    BY <2>1 DEF Stored
  <2>4. sr.ie
    BY <1>3 DEF IrqTrigger
  <2>5. sr' = [sr EXCEPT !.exl = TRUE]
    BY <1>3, <2>1 DEF Cpu, StatusTo
  <2>6. sr'.ie /\ sr'.exl
    BY <2>4, <2>5 DEF CpuInv
  <2>7. QED BY <2>2, <2>3, <2>4, <2>6
<1>4. ASSUME ~IrqTrigger
      PROVE  /\ hpc' = 0
             /\ \/ pc' = pc /\ ~Retires(acc) /\ Stored = <<>>
                \/ pc' = pc + 1 /\ Retires(acc) /\ \E op : Runs(op)
  <2>1. hpc' = 0
    BY <1>4 DEF Cpu, Advance
  <2>2. Stored # <<>> => Retires(acc)
    BY DEF Retires
  <2>3. QED BY <2>1, <2>2, Advancing
<1>5. QED BY <1>1, <1>2, <1>3, <1>4

\* While interrupts are on main clears no latch and takes no byte.
LEMMA WhileOn ==
    ASSUME CpuInv, ReadsBack(program), Since(pc, sr.ie), sr.ie, hpc = 0, NEW op, Runs(op)
    PROVE  ~IsClear(Instruction) /\ ~TakesByte(Instruction)
<1>1. PICK j \in 1..(pc - 1) : /\ program.main[j].op = "status" /\ program.main[j].ie
                               /\ \A m \in (j + 1)..(pc - 1) : program.main[m].op # "status"
  BY DEF Since
<1>2. pc \in 1..Len(program.main) /\ Instruction = program.main[pc]
  BY AtInstruction
<1>3. Len(program.main) \in Nat
  BY DEF CpuInv, ReadsLatched
<1>4. j \in 1..Len(program.main) /\ pc \in (j + 1)..Len(program.main)
  BY <1>1, <1>2, <1>3
<1>5. QED BY <1>1, <1>2, <1>4 DEF ReadsBack, MainReadsBack

\* When main turns interrupts on, as many stores are behind a clear of its as the
\* FIFO holds, or a load has been.
LEMMA TurnsOn ==
    ASSUME CpuInv, ReadsBack(program), MainClears, Len(fifo) <= FIFO, hpc = 0,
           Runs("status"), Instruction.ie
    PROVE  NoClears(fifo)
<1> SUFFICES ASSUME NEW n \in 1..Len(fifo), Clearing(fifo[n])
             PROVE  FALSE
  BY DEF NoClears
<1>1. /\ pc \in 1..Len(program.main) /\ program.main[pc].op = "status" /\ program.main[pc].ie
      /\ Len(fifo) \in Nat /\ FIFO \in Nat \ {0}
  BY AtInstruction, IntAssumption DEF CpuInv
<1>2. PICK c \in 1..(pc - 1) :
         /\ IsClear(program.main[c])
         /\ \A l \in (c + 1)..(pc - 1) : program.main[l].op # "load"
         /\ \A s \in 0..(pc - 1 - c) :
               (\A i \in (pc - s)..(pc - 1) : program.main[i].op = "store") => s <= Len(fifo) - n
  BY DEF MainClears, Behind
<1>3. c < pc - FIFO /\ \A s \in (pc - FIFO)..(pc - 1) : program.main[s].op = "store"
  BY <1>1, <1>2 DEF ReadsBack, MainReadsBack
<1>4. FIFO \in 0..(pc - 1 - c)
  BY <1>1, <1>2, <1>3
<1>5. FIFO <= Len(fifo) - n
  BY <1>2, <1>3, <1>4
<1>6. QED BY <1>1, <1>5

\* A clear of main's is followed by what main stores.
LEMMA MainClearsOn ==
    ASSUME CpuInv, ReadsBack(program), MainClears, hpc = 0, ~IrqTrigger,
           NEW acc \in {Access, [op |-> "none"]}, Cpu(acc), UNCHANGED program
    PROVE  MainClears'
<1> DEFINE q == IF acc.op = "wr" THEN Tail(fifo) ELSE fifo
           d == IF acc.op = "wr" THEN 1 ELSE 0
           main == program.main
<1>1. /\ acc.op = "wr" => fifo # <<>>
      /\ fifo' = q \o Stored /\ q \in Seq(Entries) /\ fifo \in Seq(Entries)
  BY FifoOn DEF CpuInv
<1>2. /\ Len(fifo) \in Nat /\ Len(q) \in Nat /\ Len(q) = Len(fifo) - d /\ d \in 0..1
      /\ \A k \in 1..Len(q) : q[k] = fifo[k + d]
  BY <1>1, Queues
<1> HIDE DEF q, d
<1>3. /\ pc \in Nat /\ pc >= 1 /\ Len(main) \in Nat
      /\ \/ pc' = pc /\ ~Retires(acc) /\ Stored = <<>>
         \/ pc' = pc + 1 /\ Retires(acc) /\ pc \in 1..Len(main) /\ Instruction = main[pc]
  BY MainMoves DEF CpuInv, ReadsLatched
<1>4. ASSUME NEW k \in 1..Len(q), Clearing(q[k]), NEW x \in {0, 1}, Len(fifo') = Len(q) + x,
             x = 0 => Stored = <<>>
      PROVE  q[k].value = {0, 1} /\ Behind(pc', Len(fifo') - k)
  <2> DEFINE n == k + d
  <2>1. n \in 1..Len(fifo) /\ q[k] = fifo[n]
    BY <1>2
  <2>2. q[k].value = {0, 1} /\ Behind(pc, Len(fifo) - n)
    BY <1>4, <2>1 DEF MainClears
  <2>3. Len(fifo') - k = Len(fifo) - n + x /\ Len(fifo) - n \in Nat
    BY <1>2, <1>4, <2>1
  <2> HIDE DEF n
  <2>4. PICK c \in 1..(pc - 1) :
           /\ IsClear(main[c])
           /\ \A l \in (c + 1)..(pc - 1) : main[l].op # "load"
           /\ \A s \in 0..(pc - 1 - c) :
                 (\A i \in (pc - s)..(pc - 1) : main[i].op = "store") => s <= Len(fifo) - n
    BY <2>2 DEF Behind
  <2>5. CASE pc' = pc
    <3>1. ASSUME NEW s \in 0..(pc - 1 - c),
                 \A i \in (pc - s)..(pc - 1) : main[i].op = "store"
          PROVE  s <= Len(fifo') - k
      <4>1. s <= Len(fifo) - n
        BY <2>4, <3>1
      <4>2. s \in Nat /\ (x = 0 \/ x = 1)
        BY <1>4
      <4>3. QED BY <2>3, <4>1, <4>2
    <3>2. QED BY <2>2, <2>4, <2>5, <3>1 DEF Behind
  <2>6. CASE pc' = pc + 1 /\ Retires(acc) /\ Instruction = main[pc]
    <3>1. main[pc].op # "load"
      <4>1. main[pc].op = "load" => fifo = <<>>
        BY <2>6, Loading
      <4>2. fifo # <<>>
        BY <1>1, <2>1
      <4>3. QED BY <4>1, <4>2
    <3>2. main[pc].op = "store" => x = 1
      <4>1. ASSUME main[pc].op = "store"
            PROVE  Stored # <<>>
        <5>1. \A op : Runs(op) => op = "store"
          BY <2>6, <4>1 DEF Runs
        <5>2. QED BY <2>6, <5>1 DEF Retires
      <4>2. QED BY <1>4, <4>1
    <3>3. c \in 1..(pc' - 1) /\ \A l \in (c + 1)..(pc' - 1) : main[l].op # "load"
      <4>1. ASSUME NEW l \in (c + 1)..(pc' - 1) PROVE main[l].op # "load"
        <5>1. l \in (c + 1)..(pc - 1) \/ l = pc
          BY <1>3, <2>4, <2>6, <4>1
        <5>2. QED BY <2>4, <3>1, <5>1
      <4>2. c \in 1..(pc' - 1)
        BY <1>3, <2>4, <2>6
      <4>3. QED BY <4>1, <4>2
    <3>4. ASSUME NEW s \in 0..(pc' - 1 - c),
                 \A i \in (pc' - s)..(pc' - 1) : main[i].op = "store"
          PROVE  s <= Len(fifo') - k
      <4>1. CASE s = 0
        BY <1>4, <2>3, <4>1
      <4>2. CASE s # 0
        <5>1. s - 1 \in 0..(pc - 1 - c) /\ pc \in (pc' - s)..(pc' - 1)
          BY <1>3, <2>4, <2>6, <3>4, <4>2
        <5>2. \A i \in (pc - (s - 1))..(pc - 1) : i \in (pc' - s)..(pc' - 1)
          BY <1>3, <2>4, <2>6, <3>4, <4>2
        <5>3. s - 1 <= Len(fifo) - n /\ x = 1
          BY <2>4, <3>2, <3>4, <5>1, <5>2
        <5>4. QED BY <2>3, <3>4, <5>3
      <4>3. QED BY <4>1, <4>2
    <3>5. QED BY <2>2, <2>4, <3>3, <3>4 DEF Behind
  <2>7. QED BY <1>3, <2>5, <2>6
<1>5. CASE Stored = <<>>
  <2>1. fifo' = q /\ Len(fifo') = Len(q) + 0
    BY <1>1, <1>2, <1>5, Queues
  <2>2. \A n \in 1..Len(fifo') : Clearing(fifo'[n]) =>
           fifo'[n].value = {0, 1} /\ Behind(pc', Len(fifo') - n)
    BY <1>4, <1>5, <2>1
  <2>3. QED BY <2>2 DEF MainClears, Clearing, Behind
<1>6. CASE Stored # <<>>
  <2>1. PICK e \in Entries :
           /\ Stored = <<e>>
           /\ \/ Runs("store") /\ e.reg = Instruction.reg /\ e.value = Instruction.value
              \/ Runs("found") /\ e.reg = "TMR_CLR" /\ e.value = got.map
           /\ Clearing(e) => IsClear(Instruction)
    BY <1>6, ClearStored
  <2>2. /\ Len(fifo') = Len(q) + 1 /\ fifo'[Len(q) + 1] = e
        /\ \A n \in 1..Len(q) : fifo'[n] = q[n]
    BY <1>1, <2>1, Queues
  <2>3. pc' = pc + 1 /\ pc \in 1..Len(main) /\ Instruction = main[pc]
    BY <1>3, <1>6
  <2>4. ASSUME Clearing(e)
        PROVE  e.value = {0, 1} /\ Behind(pc', 0)
    <3>1. IsClear(main[pc]) /\ main[pc] = ClearBoth
      BY <2>1, <2>3, <2>4 DEF ReadsBack, MainReadsBack
    <3>2. Instruction.op = "store" /\ Instruction.value = {0, 1}
      BY <2>3, <3>1 DEF ClearBoth, Store
    <3>3. ~Runs("found")
      BY <3>2 DEF Runs
    <3>4. pc \in 1..(pc' - 1) /\ pc' - 1 = pc /\ pc' - 1 - pc = 0
      BY <1>3, <2>3
    <3>5. \A l \in (pc + 1)..(pc' - 1) : FALSE
      BY <1>3, <3>4
    <3>6. \A s \in 0..(pc' - 1 - pc) : s <= 0
      BY <3>4
    <3>7. Behind(pc', 0)
      BY <3>1, <3>4, <3>5, <3>6 DEF Behind
    <3>8. QED BY <2>1, <3>2, <3>3, <3>7
  <2>5. ASSUME NEW n \in 1..Len(fifo'), Clearing(fifo'[n])
        PROVE  fifo'[n].value = {0, 1} /\ Behind(pc', Len(fifo') - n)
    <3>1. n \in 1..Len(q) \/ (n = Len(q) + 1 /\ Len(fifo') - n = 0)
      BY <1>2, <2>2, <2>5
    <3>2. CASE n \in 1..Len(q)
      BY <1>4, <1>6, <2>2, <2>5, <3>2
    <3>3. CASE n = Len(q) + 1 /\ Len(fifo') - n = 0
      BY <2>2, <2>4, <2>5, <3>3
    <3>4. QED BY <3>1, <3>2, <3>3
  <2>6. QED BY <2>5 DEF MainClears, Clearing, Behind
<1>7. QED BY <1>5, <1>6

\* A counter that is never set up never expires.
LEMMA NoTimersOn ==
    ASSUME CpuInv, NoTimers, NEW acc \in {Access, [op |-> "none"]}, Cpu(acc),
           Pit!Clock(PitAccess(acc)), Ints!Clock(acc, {i \in Pit!Channels : counter[i].out}),
           UNCHANGED program
    PROVE  NoTimers'
<1> DEFINE q == IF acc.op = "wr" THEN Tail(fifo) ELSE fifo
           outs == {i \in Pit!Channels : counter[i].out}
<1>1. ASSUME NEW op, Runs(op)
      PROVE  Instruction.op = op /\ LeavesPit(Instruction)
  <2>1. CASE hpc > 0
    BY <1>1, <2>1, AtInstruction
  <2>2. CASE hpc = 0
    BY <1>1, <2>2, AtInstruction DEF NoTimers
  <2>3. QED BY <2>1, <2>2 DEF CpuInv
<1>2. /\ \/ acc.op = "none"
         \/ acc.op = "wr" /\ fifo # <<>> /\ acc.reg = fifo[1].reg /\ acc.value = fifo[1].value
         \/ /\ acc.op = "rd" /\ fifo = <<>>
            /\ \/ Runs("load") /\ acc.reg = Instruction.reg
               \/ ~Runs("load") /\ acc.reg \in OtherLoads
      /\ fifo' = q \o Stored /\ q \in Seq(Entries) /\ fifo \in Seq(Entries)
  BY FifoOn DEF CpuInv
<1>3. AllQuiet(q) /\ (acc.op = "wr" => Quiet(fifo[1]))
  <2>1. CASE acc.op = "wr"
    <3>1. Quiet(fifo[1]) /\ AllQuiet(Tail(fifo))
      BY <1>2, <2>1, Pops DEF NoTimers
    <3>2. QED BY <2>1, <3>1
  <2>2. CASE acc.op # "wr"
    BY <2>2 DEF NoTimers
  <2>3. QED BY <2>1, <2>2
<1>4. AllQuiet(fifo')
  <2>1. ASSUME NEW e, Stored = <<e>> PROVE Quiet(e)
    <3>1. PICK d \in Entries :
             /\ Stored = <<d>>
             /\ \/ Runs("store") /\ d.reg = Instruction.reg /\ d.value = Instruction.value
                \/ Runs("found") /\ Quiet(d) /\ Plain(d)
      BY <2>1, StoredIs
    <3>2. d = e
      BY <2>1, <3>1
    <3>3. QED BY <1>1, <3>1, <3>2 DEF LeavesPit, Quiet, PitRegs
  <2>2. \A e : Stored = <<e>> => Quiet(e)
    BY <2>1
  <2> HIDE DEF q
  <2>3. AllQuiet(q \o Stored)
    BY <1>2, <1>3, <2>2, QuietBehind
  <2>4. QED BY <1>2, <2>3
<1>5. tmr_stat' = {}
  <2>1. Ints!PitEdge(outs) = {}
    BY DEF Ints!PitEdge, NoTimers, Timers
  <2>2. QED BY <2>1 DEF Ints!Clock, Ints!Latches, NoTimers
<1>6. ASSUME NEW i \in Timers
      PROVE  counter'[i] = counter[i]
  <2>1. i \in Pit!Channels
    BY DEF Timers, Pit!Channels
  <2>2. PitC(i) \in PitRegs /\ "PIT_CTL" \in PitRegs
    BY <2>1 DEF PitRegs, PitCounts
  <2>3. acc.op \in {"rd", "wr"} => acc.reg \notin PitRegs
    <3>1. CASE acc.op = "rd"
      <4>1. acc.reg \in OtherLoads
        BY <1>1, <1>2, <3>1 DEF LeavesPit
      <4>2. QED BY <4>1, QuietIsPlain
    <3>2. CASE acc.op = "wr"
      BY <1>2, <1>3, <3>2 DEF Quiet
    <3>3. QED BY <3>1, <3>2
  <2>4. counter'[i] = Pit!Counted(i)
    BY <1>2, <2>1, <2>2, <2>3, AtChannel
  <2>5. QED BY <2>4 DEF Pit!Counted, NoTimers
<1>7. QED BY <1>4, <1>5, <1>6 DEF NoTimers, LeavesPit

\* With counters that run: outside the handler.
LEMMA ServedOutside ==
    ASSUME CpuInv, ModeInv, WithTimers, hpc = 0, ~IrqTrigger,
           NEW acc \in {Access, [op |-> "none"]}, Cpu(acc), UNCHANGED program,
           NEW outs, Ints!Clock(acc, outs), Observes(acc),
           \A i \in Timers : i \in outs /\ i \notin pit_out_d => i \in expired
    PROVE  WithTimers'
<1>1. /\ \A op : Runs(op) => /\ op = Instruction.op /\ pc \in 1..Len(program.main)
                             /\ Instruction = program.main[pc] /\ ~IrqTrigger
      /\ hpc' = 0
      /\ \/ pc' = pc /\ ~Retires(acc) /\ Stored = <<>>
         \/ pc' = pc + 1 /\ Retires(acc) /\ \E op : Runs(op)
      /\ sr'.ie = IF Runs("status") THEN Instruction.ie ELSE sr.ie
  BY MainMoves DEF ModeInv
<1>2. sr.ie => NoClears(fifo)
  BY DEF WithTimers
<1>3. acc.op = "wr" /\ acc.reg = "TMR_CLR" => acc.value = {0, 1}
  <2>1. CASE sr.ie
    BY <1>2, <2>1, NoneCome
  <2>2. ASSUME ~sr.ie, acc.op = "wr", acc.reg = "TMR_CLR"
        PROVE  acc.value = {0, 1}
    <3>1. fifo # <<>> /\ acc.reg = fifo[1].reg /\ acc.value = fifo[1].value /\ fifo \in Seq(Entries)
      BY <2>2, FifoOn DEF CpuInv
    <3>2. 1 \in 1..Len(fifo) /\ Clearing(fifo[1])
      BY <2>2, <3>1, Queues DEF Clearing
    <3>3. MainClears
      BY <2>2 DEF WithTimers
    <3>4. QED BY <3>1, <3>2, <3>3 DEF MainClears
  <2>3. QED BY <2>1, <2>2
<1>4. Served'
  <2>1. Served
    BY DEF WithTimers
  <2>2. QED BY <1>3, <2>1, ServedOn DEF ModeInv
<1>5. sr'.ie => NoClears(fifo')
  <2>1. CASE ~Runs("status") /\ sr'.ie
    <3>1. sr.ie
      BY <1>1, <2>1
    <3>2. Stored = <<>> \/ ~IsClear(Instruction)
      BY <3>1, WhileOn, ClearStored DEF ModeInv
    <3>3. QED BY <1>2, <3>1, <3>2, NoneCome
  <2>2. CASE Runs("status") /\ sr'.ie
    <3>1. Instruction.ie
      BY <1>1, <2>2
    <3>2. ~IsClear(Instruction)
      BY <1>1, <2>2 DEF IsClear
    <3>3. NoClears(fifo)
      <4>1. CASE sr.ie
        BY <1>2, <4>1
      <4>2. CASE ~sr.ie
        BY <2>2, <3>1, <4>2, TurnsOn DEF ModeInv, WithTimers
      <4>3. QED BY <4>1, <4>2
    <3>4. QED BY <3>2, <3>3, NoneCome
  <2>3. QED BY <2>1, <2>2
<1>6. ~sr'.ie => MainClears'
  <2>1. MainClears
    BY <1>2 DEF WithTimers, MainClears, NoClears
  <2>2. QED BY <2>1, MainClearsOn DEF ModeInv
<1>7. PICK a \in 1..Len(program.handler), b \in 1..Len(program.handler) :
         ServesAt(program.handler, a, b)
  BY DEF WithTimers
<1>8. QED BY <1>1, <1>4, <1>5, <1>6, <1>7 DEF WithTimers, Served, NoClears, Clearing, MainClears, Behind

\* At the entry to the handler no clear waits.
LEMMA ServedAtEntry ==
    ASSUME CpuInv, ModeInv, WithTimers, hpc = 0, IrqTrigger,
           NEW acc \in {Access, [op |-> "none"]}, Cpu(acc), UNCHANGED program
    PROVE  WithTimers'
<1>1. hpc' = 1 /\ pc' = pc /\ Stored = <<>> /\ sr.ie /\ sr'.ie /\ sr'.exl
  BY MainMoves DEF ModeInv
<1>2. NoClears(fifo)
  BY <1>1 DEF WithTimers
<1>3. NoClears(fifo')
  BY <1>1, <1>2, NoneCome
<1>4. PICK a \in 1..Len(program.handler), b \in 1..Len(program.handler) :
         ServesAt(program.handler, a, b)
  BY DEF WithTimers
<1>5. InHandler(a, b)'
  <2>1. a \in Nat /\ ~(hpc' > a)
    BY <1>1
  <2>2. ~(hpc' = a /\ program.handler[a].op = "found")
    BY <1>1, <1>4 DEF ServesAt, ClearBoth, Store
  <2>3. QED BY <1>3, <2>1, <2>2 DEF InHandler, NoClears, Clearing
<1>6. QED BY <1>1, <1>4, <1>5 DEF WithTimers

\* And in the handler.
LEMMA ServedInside ==
    ASSUME CpuInv, ModeInv, WithTimers, hpc > 0,
           NEW acc \in {Access, [op |-> "none"]}, Cpu(acc), UNCHANGED program,
           NEW outs, Ints!Clock(acc, outs), Observes(acc),
           \A i \in Timers : i \in outs /\ i \notin pit_out_d => i \in expired,
           sr'.ie
    PROVE  WithTimers'
<1>1. PICK a \in 1..Len(program.handler), b \in 1..Len(program.handler) :
         ServesAt(program.handler, a, b) /\ InHandler(a, b)
  BY DEF WithTimers
<1>2. hpc \in Nat /\ a \in Nat
  BY DEF CpuInv
<1>3. CASE hpc <= a
  <2>1. InHandler(a, b)' /\ hpc' > 0
    BY <1>1, <1>3, BeforeClear DEF ModeInv
  <2>2. hpc' # 0
    BY <2>1
  <2>3. QED BY <1>1, <2>1, <2>2 DEF WithTimers
<1>4. CASE hpc > a
  <2>1. /\ hpc' > 0 => InHandler(a, b)'
        /\ hpc' = 0 => NoClears(fifo') /\ Served'
    BY <1>1, <1>4, AfterClear DEF ModeInv
  <2>2. QED BY <1>1, <2>1 DEF WithTimers, NoClears, Clearing, Served
<1>5. QED BY <1>2, <1>3, <1>4

\* Interrupts stay on in the handler, and no other is taken.
LEMMA StatusInside ==
    ASSUME CpuInv, ModeInv, hpc > 0, NEW acc, Cpu(acc)
    PROVE  sr'.ie /\ (hpc' > 0 => sr'.exl)
<1>1. /\ \A op : Runs(op) => op = Instruction.op
      /\ ~IrqTrigger /\ Instruction.op # "status"
      /\ Runs("eret") => ~(hpc' > 0)
  <2>1. /\ \A op : Runs(op) => op = Instruction.op
        /\ ~IrqTrigger /\ Instruction.op # "status"
    BY HandlerMoves DEF ModeInv
  <2>2. Runs("eret") => hpc' = 0
    BY <2>1 DEF Cpu
  <2>3. QED BY <2>1, <2>2
<1>2. ~Runs("status")
  BY <1>1
<1>3. sr' = [sr EXCEPT !.exl = (@ \/ IrqTrigger) /\ ~Runs("eret")]
  BY <1>2 DEF Cpu, StatusTo
<1>4. sr'.ie = sr.ie /\ sr'.exl = ((sr.exl \/ IrqTrigger) /\ ~Runs("eret"))
  BY <1>3 DEF CpuInv
<1>5. QED BY <1>1, <1>4 DEF ModeInv

\* Interrupts are on since main turned them on, and no status of its own was between.
LEMMA SinceOn ==
    ASSUME CpuInv, ModeInv, NEW acc, Cpu(acc), UNCHANGED program
    PROVE  Since(pc', sr'.ie)
<1>1. pc \in Nat /\ hpc \in Nat
  BY DEF CpuInv
<1>2. CASE hpc > 0
  <2>1. pc' = pc
    BY <1>2, HandlerMoves DEF ModeInv
  <2>2. sr.ie /\ Since(pc, sr.ie)
    BY <1>2 DEF ModeInv
  <2>3. QED BY <2>1, <2>2 DEF Since
<1>3. ASSUME hpc = 0, sr'.ie
      PROVE  \E j \in 1..(pc' - 1) :
                /\ program.main[j].op = "status" /\ program.main[j].ie
                /\ \A m \in (j + 1)..(pc' - 1) : program.main[m].op # "status"
  <2>1. /\ \A op : Runs(op) => /\ op = Instruction.op /\ pc \in 1..Len(program.main)
                               /\ Instruction = program.main[pc] /\ ~IrqTrigger
        /\ \/ pc' = pc /\ (IrqTrigger \/ ~Retires(acc))
           \/ pc' = pc + 1 /\ Retires(acc) /\ \E op : Runs(op)
        /\ sr'.ie = IF Runs("status") THEN Instruction.ie ELSE sr.ie
    BY <1>3, MainMoves DEF ModeInv
  <2>2. CASE Runs("status")
    <3>1. Retires(acc)
      BY <2>2 DEF Retires
    <3>2. pc' = pc + 1 /\ program.main[pc].op = "status" /\ program.main[pc].ie /\ pc >= 1
      BY <1>3, <2>1, <2>2, <3>1
    <3>3. pc \in 1..(pc' - 1) /\ \A m \in (pc + 1)..(pc' - 1) : FALSE
      BY <1>1, <3>2
    <3>4. QED BY <3>2, <3>3
  <2>3. CASE ~Runs("status")
    <3>1. sr.ie
      BY <1>3, <2>1, <2>3
    <3>2. PICK j \in 1..(pc - 1) :
             /\ program.main[j].op = "status" /\ program.main[j].ie
             /\ \A m \in (j + 1)..(pc - 1) : program.main[m].op # "status"
      BY <3>1 DEF ModeInv, Since
    <3>3. CASE pc' = pc
      BY <3>2, <3>3
    <3>4. CASE pc' = pc + 1 /\ \E op : Runs(op)
      <4>1. program.main[pc].op # "status"
        BY <2>1, <2>3, <3>4
      <4>2. ASSUME NEW m \in (j + 1)..(pc' - 1) PROVE program.main[m].op # "status"
        <5>1. m \in (j + 1)..(pc - 1) \/ m = pc
          BY <1>1, <3>2, <3>4, <4>2
        <5>2. QED BY <3>2, <4>1, <5>1
      <4>3. j \in 1..(pc' - 1)
        BY <1>1, <3>2, <3>4
      <4>4. QED BY <3>2, <4>2, <4>3
    <3>5. QED BY <2>1, <3>3, <3>4
  <2>4. QED BY <2>2, <2>3
<1>4. QED BY <1>1, <1>2, <1>3 DEF Since

LEMMA ModeOn ==
    ASSUME CpuInv, ChannelsOk, ModeInv, NEW acc \in {Access, [op |-> "none"]}, NEW in,
           Cpu(acc), Observes(acc), Pit!Clock(PitAccess(acc)), Kbd!Clock(KbdAccess(acc), in),
           Ints!Clock(acc, {i \in Pit!Channels : counter[i].out}), UNCHANGED program
    PROVE  ModeInv'
<1> DEFINE outs == {i \in Pit!Channels : counter[i].out}
           q == IF acc.op = "wr" THEN Tail(fifo) ELSE fifo
<1>1. ASSUME NEW i \in Timers
      PROVE  i \in Pit!Channels
  BY DEF Timers, Pit!Channels
<1>2. \A i \in Timers : i \in outs /\ i \notin pit_out_d => i \in expired
  BY DEF ModeInv
<1>3. IsSeq(queue)' /\ IsSeq(push)'
  BY QueueOn DEF ModeInv, IsSeq
<1>4. Len(fifo') <= FIFO
  <2>1. /\ acc.op = "wr" => fifo # <<>>
        /\ fifo' = q \o Stored /\ q \in Seq(Entries) /\ fifo \in Seq(Entries)
    BY FifoOn DEF CpuInv
  <2>2. Len(fifo) \in Nat /\ Len(q) \in Nat /\ Len(q) <= Len(fifo) /\ Len(fifo) <= FIFO
    BY <2>1, Queues DEF ModeInv
  <2> HIDE DEF q
  <2>3. CASE Stored = <<>>
    <3>1. fifo' = q
      BY <2>1, <2>3, Queues
    <3>2. QED BY <2>2, <3>1, IntAssumption
  <2>4. ASSUME NEW e \in Entries, Stored = <<e>> PROVE Len(fifo') <= FIFO
    <3>1. Len(fifo) < FIFO
      BY <2>4 DEF Stored
    <3>2. Len(fifo') = Len(q) + 1
      BY <2>1, <2>4, Queues
    <3>3. QED BY <2>2, <3>1, <3>2, IntAssumption
  <2>5. QED BY <2>3, <2>4, StoredIs
<1>5. tmr_stat' \subseteq Timers
  <2> DEFINE clr == IF acc.op = "wr" /\ acc.reg = "TMR_CLR" THEN acc.value ELSE {}
  <2>1. tmr_stat' \subseteq Timers
    BY <1>2, LatchesOn DEF ModeInv
  <2>2. QED BY <2>1
<1>6. \A i \in Timers : counter'[i].out /\ i \notin pit_out_d' => i \in expired'
  <2>1. ASSUME NEW i \in Timers, counter'[i].out, i \notin pit_out_d'
        PROVE  i \in expired'
    <3>1. ~counter[i].out
      BY <1>1, <2>1 DEF Ints!Clock
    <3>2. Pit!Expires(i)
      BY <2>1, <3>1, OutsRise
    <3>3. QED BY <3>2 DEF Observes, Timers
  <2>2. QED BY <2>1
<1>7. hpc' > 0 => sr'.ie /\ sr'.exl
  <2>1. CASE hpc > 0
    BY <2>1, StatusInside
  <2>2. CASE hpc = 0
    BY <2>2, MainMoves DEF ModeInv
  <2>3. QED BY <2>1, <2>2 DEF CpuInv
<1>8. Since(pc', sr'.ie)
  BY SinceOn
<1>9. ReadsBack(program')
  BY DEF ModeInv
<1>10. QED BY <1>3, <1>4, <1>5, <1>6, <1>7, <1>8, <1>9 DEF ModeInv, Since, Timers

\* Where an interrupt may be taken next, none is now, no byte is taken, and no
\* latch is cleared.
LEMMA NoneTaken ==
    ASSUME CpuInv, ModeInv, NEW acc \in {Access, [op |-> "none"]}, Cpu(acc), UNCHANGED program,
           NEW outs, Ints!Clock(acc, outs), Observes(acc),
           \A i \in Timers : i \in outs /\ i \notin pit_out_d => i \in expired,
           hpc' = 0, sr'.ie
    PROVE  /\ ~IrqTrigger /\ ~(acc.op = "rd" /\ acc.reg = "KBD_DATA")
           /\ WithTimers => Served /\ NoClears(fifo)
<1>1. acc.op = "rd" => \/ Runs("load") /\ acc.reg = Instruction.reg
                       \/ Runs("byte") \/ Runs("drain")
  BY DEF Access
<1>2. CASE hpc > 0
  <2>1. /\ ~IrqTrigger /\ Runs("eret") /\ \A op : Runs(op) => op = Instruction.op
    <3>1. hpc \in Nat
      BY DEF CpuInv
    <3>2. QED BY <1>2, <3>1, HandlerMoves DEF ModeInv
  <2>2. acc.op # "rd"
    BY <1>1, <2>1
  <2>3. ASSUME WithTimers PROVE Served /\ NoClears(fifo)
    <3>1. PICK a \in 1..Len(program.handler), b \in 1..Len(program.handler) :
             ServesAt(program.handler, a, b) /\ InHandler(a, b)
      BY <1>2, <2>3 DEF WithTimers
    <3>2. hpc \in Nat /\ a \in Nat
      BY DEF CpuInv
    <3>3. CASE hpc <= a
      <4>1. hpc' > 0
        BY <1>2, <3>1, <3>3, BeforeClear DEF ModeInv
      <4>2. QED BY <4>1
    <3>4. CASE hpc > a
      BY <1>2, <3>1, <3>4, AfterClear DEF ModeInv
    <3>5. QED BY <3>2, <3>3, <3>4
  <2>4. QED BY <2>1, <2>2, <2>3
<1>3. CASE hpc = 0
  <2>1. /\ \A op : Runs(op) => op = Instruction.op
        /\ IrqTrigger => hpc' = 1
        /\ sr'.ie = IF Runs("status") THEN Instruction.ie ELSE sr.ie
    BY <1>3, MainMoves DEF ModeInv
  <2>2. ~IrqTrigger
    BY <2>1
  <2>3. ~(acc.op = "rd" /\ acc.reg = "KBD_DATA")
    <3>1. CASE Runs("status")
      BY <1>1, <2>1, <3>1
    <3>2. ASSUME ~Runs("status"), acc.op = "rd", acc.reg = "KBD_DATA" PROVE FALSE
      <4>1. sr.ie
        BY <2>1, <3>2
      <4>2. TakesByte(Instruction)
        BY <1>1, <2>1, <3>2 DEF TakesByte
      <4>3. \E op : Runs(op)
        BY <1>1, <3>2
      <4>4. QED BY <1>3, <4>1, <4>2, <4>3, WhileOn DEF ModeInv
    <3>3. QED BY <3>1, <3>2
  <2>4. ASSUME WithTimers PROVE Served /\ NoClears(fifo)
    <3>1. Served /\ (sr.ie => NoClears(fifo)) /\ (~sr.ie => MainClears)
      BY <1>3, <2>4 DEF WithTimers
    <3>2. ASSUME ~sr.ie PROVE NoClears(fifo)
      <4>1. Runs("status") /\ Instruction.ie
        BY <2>1, <3>2
      <4>2. QED BY <1>3, <3>1, <3>2, <4>1, TurnsOn DEF ModeInv
    <3>3. QED BY <3>1, <3>2
  <2>5. QED BY <2>2, <2>3, <2>4
<1>4. QED BY <1>2, <1>3 DEF CpuInv

\* A line is up for a latch or for a byte.
LEMMA LinesAre == Ints!IrqLines(MapSource) # {} => tmr_stat # {} \/ queue # <<>>
<1> SUFFICES ASSUME tmr_stat = {}, queue = <<>>
             PROVE  Ints!IrqLines(MapSource) = {}
  OBVIOUS
<1>1. MapSource = {}
  BY DEF MapSource, Kbd!Irq, Kbd!Obf
<1>2. Ints!MapStat(MapSource) = {}
  BY <1>1 DEF Ints!MapStat
<1>3. Ints!L0Stat(MapSource) = {} /\ Ints!L1Stat(MapSource) = {}
  BY <1>2 DEF Ints!L0Stat, Ints!L1Stat
<1>4. QED BY <1>3 DEF Ints!IrqLines

LEMMA LinesOn ==
    ASSUME CpuInv, ModeInv, NoTimers \/ WithTimers,
           NEW acc \in {Access, [op |-> "none"]}, NEW in, Cpu(acc), UNCHANGED program,
           Kbd!Clock(KbdAccess(acc), in), ip' = Ints!IrqLines(MapSource),
           NEW outs, Ints!Clock(acc, outs), Observes(acc),
           \A i \in Timers : i \in outs /\ i \notin pit_out_d => i \in expired
    PROVE  LinesInv'
<1> SUFFICES ASSUME hpc' = 0, sr'.ie, ip' # {}
             PROVE  news' # {} \/ queue' # <<>>
  BY DEF LinesInv
<1>1. /\ ~IrqTrigger /\ ~(acc.op = "rd" /\ acc.reg = "KBD_DATA")
      /\ WithTimers => Served /\ NoClears(fifo)
  BY NoneTaken
<1>2. CASE queue # <<>>
  BY <1>1, <1>2, QueueOn DEF ModeInv
<1>3. CASE tmr_stat # {}
  <2>1. Served /\ NoClears(fifo)
    BY <1>1, <1>3 DEF NoTimers
  <2>2. ~(acc.op = "wr" /\ acc.reg = "TMR_CLR")
    BY <2>1, NoneCome
  <2>3. news \subseteq news'
    BY <1>1, <2>2, NewsOn DEF ModeInv
  <2>4. QED BY <1>3, <2>1, <2>3 DEF Served
<1>4. QED BY <1>2, <1>3, LinesAre

LEMMA EntryInitially ==
    ASSUME Init, \A p \in Programs : ReadsLatched(p) /\ ReadsBack(p)
    PROVE  EntryInv
<1>1. /\ pc = 1 /\ hpc = 0 /\ fifo = <<>> /\ tmr_stat = {} /\ ip = {}
      /\ sr = [ie |-> FALSE, im |-> {}, exl |-> FALSE]
      /\ queue = <<>> /\ push = <<>>
      /\ ReadsBack(program) /\ ReadsLatched(program)
  BY DEF Init, Ints!Init, Kbd!Init
<1>2. \A i \in Pit!Channels : ~counter[i].out /\ ~counter[i].running
  BY DEF Init, Pit!Init
<1>3. \A i \in Timers : ~counter[i].out /\ ~counter[i].running
  BY <1>2 DEF Timers, Pit!Channels
<1>4. Len(fifo) = 0
  BY <1>1
<1>5. ModeInv
  <2>1. <<>> \in Seq({})
    OBVIOUS
  <2>2. IsSeq(queue) /\ IsSeq(push)
    BY <1>1, <2>1 DEF IsSeq
  <2>3. QED BY <1>1, <1>3, <1>4, <2>2, IntAssumption DEF ModeInv, Since
<1>6. LinesInv
  BY <1>1 DEF LinesInv
<1>7. ASSUME program.handler # <<>> PROVE NoTimers \/ WithTimers
  <2>1. CASE \A i \in 1..Len(program.main) : LeavesPit(program.main[i])
    BY <1>1, <1>3, <1>4, <2>1 DEF NoTimers, AllQuiet
  <2>2. CASE \E a, b \in 1..Len(program.handler) : ServesAt(program.handler, a, b)
    BY <1>1, <1>4, <2>2 DEF WithTimers, Served, MainClears
  <2>3. QED BY <1>1, <1>7, <2>1, <2>2 DEF ReadsBack
<1>8. QED BY <1>5, <1>6, <1>7 DEF EntryInv

LEMMA EntryStep ==
    ASSUME CpuInv, ChannelsOk, EntryInv, Clock
    PROVE  EntryInv'
<1>1. PICK acc \in {Access, [op |-> "none"]} :
         /\ Pit!Clock(PitAccess(acc)) /\ Ints!Clock(acc, {i \in Pit!Channels : counter[i].out})
         /\ Kbd!Clock(KbdAccess(acc), ps2) /\ ip' = Ints!IrqLines(MapSource)
         /\ Cpu(acc) /\ Observes(acc) /\ UNCHANGED program
  BY DEF Clock
<1> DEFINE outs == {i \in Pit!Channels : counter[i].out}
<1>2. ModeInv
  BY DEF EntryInv
<1>3. Ints!Clock(acc, outs) /\ \A i \in Timers : i \in outs /\ i \notin pit_out_d => i \in expired
  BY <1>1, <1>2 DEF ModeInv
<1>4. ModeInv'
  BY <1>1, <1>2, ModeOn
<1>5. CpuInv'
  BY <1>1, CpuStep
<1>6. ASSUME program.handler # <<>> PROVE NoTimers' \/ WithTimers'
  <2>1. CASE NoTimers
    BY <1>1, <2>1, NoTimersOn
  <2>2. CASE WithTimers
    <3>1. CASE hpc = 0 /\ ~IrqTrigger
      BY <1>1, <1>2, <1>3, <2>2, <3>1, ServedOutside
    <3>2. CASE hpc = 0 /\ IrqTrigger
      BY <1>1, <1>2, <2>2, <3>2, ServedAtEntry
    <3>3. CASE hpc > 0
      <4>1. sr'.ie
        BY <1>1, <1>2, <3>3, StatusInside
      <4>2. QED BY <1>1, <1>2, <1>3, <2>2, <3>3, <4>1, ServedInside
    <3>4. QED BY <3>1, <3>2, <3>3 DEF CpuInv
  <2>3. QED BY <1>6, <2>1, <2>2 DEF EntryInv
<1>7. LinesInv'
  <2>1. CASE program.handler # <<>>
    <3>1. NoTimers \/ WithTimers
      BY <2>1 DEF EntryInv
    <3>2. QED BY <1>1, <1>2, <1>3, <3>1, LinesOn
  <2>2. CASE program.handler = <<>>
    <3>1. ~sr'.ie
      BY <1>1, <1>5, <2>2 DEF CpuInv
    <3>2. QED BY <3>1 DEF LinesInv
  <2>3. QED BY <2>1, <2>2
<1>8. (program.handler # <<>>)' => NoTimers' \/ WithTimers'
  BY <1>1, <1>6
<1>9. QED BY <1>4, <1>7, <1>8 DEF EntryInv

\* An interrupt is taken for a line that was up.
LEMMA EntryForNews ==
    ASSUME CpuInv, LinesInv, Clock, hpc' = 1, hpc = 0
    PROVE  news # {} \/ Kbd!Obf
<1>1. PICK acc : Cpu(acc)
  BY DEF Clock
<1>2. IrqTrigger
  BY <1>1 DEF Cpu, Advance
<1>3. sr.ie /\ ip # {}
  BY <1>2 DEF IrqTrigger
<1>4. QED BY <1>3 DEF LinesInv, Kbd!Obf

(* The handler is entered for a counter that has expired since it was last *)
(* entered and has not been cleared since, or for a byte that waits in the *)
(* keyboard's queue - however long a clear waits in the write FIFO, and    *)
(* whenever counters expire, keys are typed and the bus takes its accesses *)
(* - in every program whose clears have reached INT2 before an interrupt   *)
(* can be taken: the handler's by a load of its own before it returns,     *)
(* main's by a load or FIFO stores before it turns interrupts on.          *)
THEOREM EntriesAreNews ==
    ASSUME \A p \in Programs : ReadsLatched(p) /\ ReadsBack(p)
    PROVE  Spec => OneEntryPerExpiry
<1> DEFINE Inv == ReadInv /\ EntryInv
<1>1. Init => Inv
  BY ReadInitially, EntryInitially
<1>2. Inv /\ [Clock]_vars => Inv'
  <2>1. ASSUME Inv, Clock PROVE Inv'
    <3>1. CpuInv /\ ChannelsOk
      BY <2>1 DEF ReadInv
    <3>2. QED BY <2>1, <3>1, ReadStep, EntryStep
  <2>2. ASSUME Inv, UNCHANGED vars PROVE Inv'
    <3>1. ReadInv'
      BY <2>2, ReadStutters
    <3>2. ModeInv'
      BY <2>2 DEF EntryInv, ModeInv, IsSeq, Since, vars, Kbd!kbdVars
    <3>3. LinesInv'
      BY <2>2 DEF EntryInv, LinesInv, vars, Kbd!kbdVars
    <3>4. NoTimers => NoTimers'
      BY <2>2 DEF NoTimers, AllQuiet, vars
    <3>5. WithTimers => WithTimers'
      BY <2>2 DEF WithTimers, InHandler, OnItsWay, Served, MainClears, Behind, NoClears,
                  Clearing, vars
    <3>6. program' = program
      BY <2>2 DEF vars
    <3>7. QED BY <2>2, <3>1, <3>2, <3>3, <3>4, <3>5, <3>6 DEF EntryInv
  <2>3. QED BY <2>1, <2>2
<1>3. Inv /\ [Clock]_vars => (hpc' = 1 /\ hpc = 0 => news # {} \/ Kbd!Obf)
  <2>1. ASSUME Inv, Clock, hpc' = 1, hpc = 0 PROVE news # {} \/ Kbd!Obf
    BY <2>1, EntryForNews DEF ReadInv, EntryInv
  <2>2. ~(UNCHANGED vars /\ hpc' = 1 /\ hpc = 0)
    BY DEF vars
  <2>3. QED BY <2>1, <2>2
<1> HIDE DEF Inv
<1>4. Inv /\ [Clock]_vars => [hpc' = 1 /\ hpc = 0 => news # {} \/ Kbd!Obf]_vars
  BY <1>3
<1>5. QED BY <1>1, <1>2, <1>4, PTL DEF Spec, OneEntryPerExpiry

=============================================================================
