------------------------------ MODULE Ddr3Mux -------------------------------
(***************************************************************************)
(* rtl/mister/ddr3_mux.sv: six masters on the DE10-Nano's one DDR3 bridge. *)
(* Each master has at most one transaction outstanding; the bridge takes a *)
(* new command while earlier reads are still answering, and answers reads  *)
(* in the order it took them.                                              *)
(*                                                                         *)
(* One clock edge is one Clock step.  Its parameters are the values on the *)
(* inputs in the clock that ends: rq, the request each master presents (or *)
(* NoRequest), ddram_busy, and dout, the word DDRAM_DOUT carries (or       *)
(* NoWord when DDRAM_DOUT_READY is low).                                   *)
(*                                                                         *)
(* A request is [we, addr, word, words]: the run of `words` doublewords    *)
(* from index `word` of block `addr` of the master's own region.  Data and *)
(* byte lanes are left out: a word is named by who asked for it and where  *)
(* it is, [who, addr, word].                                               *)
(***************************************************************************)
EXTENDS Naturals, Sequences, SequencesExt

CONSTANTS
    FBR_SUB,     \* words of a display sub-burst
    FBR_AHEAD,   \* display sub-bursts outstanding at most
    RF,          \* entries of the read queue
    NoRequest, NoWord

VARIABLES
    pend,        \* a request latched, not yet in front of the bridge
    rq_seen,     \* the request line has been up since its last request
    p,           \* the request latched last
    busy_m,      \* in front of the bridge or taken, not yet finished
    ack_q, ram_last_q, rdata_q,
    cmd,         \* the command in front of the bridge
    rf,          \* masters and words of the reads taken and owed, in order
    fbr,         \* the display burst being served
    fbr_taken_q, \* it has been issued, for one clock
    rr           \* the slot of the rotation served last

muxVars == <<pend, rq_seen, p, busy_m, ack_q, ram_last_q, rdata_q,
             cmd, rf, fbr, fbr_taken_q, rr>>

Masters == {"FBR", "DL", "RAM", "PROM", "FBW", "BCN"}
Slots == <<"DL", "PROM", "FBW">>

NoPayload == [we |-> FALSE, addr |-> 0, word |-> 0, words |-> 1]
NoCommand == [v |-> FALSE, m |-> "FBR", we |-> FALSE, addr |-> 0,
              word |-> 0, n |-> 1, wl_left |-> 0]
NoBurst == [act |-> FALSE, addr |-> 0, nxt |-> 0, isl |-> 0, rxl |-> 0,
            out |-> 0, first |-> FALSE]

Init ==
    /\ pend = [m \in Masters |-> FALSE] /\ rq_seen = [m \in Masters |-> FALSE]
    /\ busy_m = [m \in Masters |-> FALSE] /\ ack_q = [m \in Masters |-> FALSE]
    /\ p = [m \in Masters |-> NoPayload]
    /\ ram_last_q = TRUE /\ rdata_q = NoWord
    /\ cmd = NoCommand /\ rf = <<>>
    /\ fbr = NoBurst /\ fbr_taken_q = FALSE
    /\ rr = 0

-----------------------------------------------------------------------------
(* Wires.                                                                  *)

\* Mutant: a line still up in its own acknowledgement cycle taken again.
AcceptsHeldLine(rq, m) ==
    /\ rq[m] # NoRequest /\ ~pend[m] /\ ~busy_m[m]
    /\ ~(m = "FBR" /\ fbr.act)

\* A request is new unless its master is still owed an answer, or the line is
\* the one the acknowledgement of this very clock belongs to.
Accepts(rq, m) ==
    /\ rq[m] # NoRequest /\ ~pend[m] /\ ~busy_m[m]
    /\ ~(m = "FBR" /\ fbr.act)
    /\ ~(rq_seen[m] /\ ack_q[m]
         /\ rq[m].we = p[m].we /\ rq[m].addr = p[m].addr)

FbrCommand == cmd.v /\ cmd.m = "FBR"

\* Main memory's request is a candidate in the clock it arrives.
Cand(rq, m) ==
    CASE m = "RAM" -> (pend[m] \/ Accepts(rq, m)) /\ ~busy_m[m]
      [] m = "FBR" -> fbr.act /\ fbr.isl > 0 /\ fbr.out < FBR_AHEAD /\ ~FbrCommand
      [] OTHER     -> pend[m] /\ ~busy_m[m]

\* Main memory, the display, then three in rotation, the beacon last.
Order == LET turn(k) == Slots[((rr + k) % 3) + 1] IN
         <<"RAM", "FBR", turn(1), turn(2), turn(3), "BCN">>

AnyCand(rq) == \E m \in Masters : Cand(rq, m)
Pick(rq) == Order[SelectInSeq(Order, LAMBDA m : Cand(rq, m))]

Take(ddram_busy) == cmd.v /\ ~ddram_busy
Push(ddram_busy) == Take(ddram_busy) /\ ~cmd.we
WlCont == cmd.we /\ cmd.m = "RAM" /\ cmd.wl_left # 0
WriteDone(ddram_busy, m) == Take(ddram_busy) /\ cmd.we /\ ~WlCont /\ cmd.m = m

\* A word from the bridge is the oldest read's.
Word(dout) == dout # NoWord /\ rf # <<>>
WordOf(dout, m) == Word(dout) /\ Head(rf).m = m
WordEnd(dout) == Word(dout) /\ Head(rf).n <= 1
ReadDone(dout, m) == WordEnd(dout) /\ Head(rf).m = m

\* The request that goes in front of the bridge: main memory's may come
\* straight off its port.
Chosen(rq, m) == IF m = "RAM" /\ ~pend[m] THEN rq[m] ELSE p[m]
PickWe(rq) == Pick(rq) # "FBR" /\ Chosen(rq, Pick(rq)).we

One(cond) == IF cond THEN 1 ELSE 0

\* Mutant: another master's command in the middle of a line write.
LoadAnyTime(rq, ddram_busy) ==
    /\ ~cmd.v \/ Take(ddram_busy)
    /\ AnyCand(rq)
    /\ PickWe(rq) \/ Len(rf) + One(Push(ddram_busy)) < RF

Load(rq, ddram_busy) ==
    /\ ~cmd.v \/ Take(ddram_busy)
    /\ AnyCand(rq)
    /\ ~(Take(ddram_busy) /\ WlCont)
    /\ PickWe(rq) \/ Len(rf) + One(Push(ddram_busy)) < RF

LoadsOf(rq, ddram_busy, m) == Load(rq, ddram_busy) /\ Pick(rq) = m

-----------------------------------------------------------------------------
(* The registers.                                                          *)

\* Mutant: a pulse that finds the bridge's command slot taken is lost.
LatchLosesPulse(rq, ddram_busy) ==
    /\ rq_seen' = [m \in Masters |->
                     rq[m] # NoRequest /\ (rq_seen[m] \/ Accepts(rq, m))]
    /\ p' = [m \in Masters |-> IF Accepts(rq, m) THEN rq[m] ELSE p[m]]
    /\ pend' = [m \in Masters |->
                  /\ m # "FBR"
                  /\ pend[m] \/ (Accepts(rq, m) /\ ~cmd.v)
                  /\ ~LoadsOf(rq, ddram_busy, m)]

\* A request that is accepted is kept until it goes in front of the bridge.
Latch(rq, ddram_busy) ==
    /\ rq_seen' = [m \in Masters |->
                     rq[m] # NoRequest /\ (rq_seen[m] \/ Accepts(rq, m))]
    /\ p' = [m \in Masters |-> IF Accepts(rq, m) THEN rq[m] ELSE p[m]]
    /\ pend' = [m \in Masters |->
                  /\ m # "FBR"
                  /\ pend[m] \/ Accepts(rq, m)
                  /\ ~LoadsOf(rq, ddram_busy, m)]

\* Mutant: a read's master released with its first word.
AnswerFirstWord(rq, ddram_busy, dout) ==
    /\ ack_q' = [m \in Masters |->
                   \/ m = "RAM" /\ WordOf(dout, m)
                   \/ m # "FBR" /\ ReadDone(dout, m)
                   \/ WriteDone(ddram_busy, m)]
    /\ ram_last_q' = (WordOf(dout, "RAM") => WordEnd(dout))
    /\ rdata_q' = IF Word(dout) THEN dout ELSE rdata_q
    /\ busy_m' = [m \in Masters |->
                    \/ m # "FBR" /\ LoadsOf(rq, ddram_busy, m)
                    \/ busy_m[m] /\ ~WordOf(dout, m)
                                 /\ ~WriteDone(ddram_busy, m)]

\* A read is acknowledged with its word - main memory's with every word, the
\* last one marked - and a write when the bridge takes it.
Answer(rq, ddram_busy, dout) ==
    /\ ack_q' = [m \in Masters |->
                   \/ m = "RAM" /\ WordOf(dout, m)
                   \/ m # "FBR" /\ ReadDone(dout, m)
                   \/ WriteDone(ddram_busy, m)]
    /\ ram_last_q' = (WordOf(dout, "RAM") => WordEnd(dout))
    /\ rdata_q' = IF Word(dout) THEN dout ELSE rdata_q
    /\ busy_m' = [m \in Masters |->
                    \/ m # "FBR" /\ LoadsOf(rq, ddram_busy, m)
                    \/ busy_m[m] /\ ~ReadDone(dout, m)
                                 /\ ~WriteDone(ddram_busy, m)]

SubBurst == IF fbr.isl < FBR_SUB THEN fbr.isl ELSE FBR_SUB

\* The display's burst: accepted whole, issued as sub-bursts, over with its
\* last word.
Display(rq, ddram_busy, dout) ==
    LET loads == LoadsOf(rq, ddram_busy, "FBR")
        issued == Push(ddram_busy) /\ cmd.m = "FBR"
        word  == WordOf(dout, "FBR")
    IN
    /\ \/ /\ Accepts(rq, "FBR")
          /\ fbr' = [act |-> TRUE, addr |-> rq["FBR"].addr, nxt |-> rq["FBR"].word,
                     isl |-> rq["FBR"].words, rxl |-> rq["FBR"].words,
                     out |-> fbr.out, first |-> TRUE]
       \/ /\ ~Accepts(rq, "FBR")
          /\ fbr' = [fbr EXCEPT
                       !.nxt = IF loads THEN @ + SubBurst ELSE @,
                       !.isl = IF loads THEN @ - SubBurst ELSE @,
                       !.rxl = IF word THEN @ - 1 ELSE @,
                       !.act = @ /\ ~(word /\ fbr.rxl <= 1),
                       !.out = (@ + One(issued)) - One(ReadDone(dout, "FBR")),
                       !.first = @ /\ ~issued]
    /\ fbr_taken_q' = (issued /\ fbr.first)

\* Mutant: the queue forgets to keep the order of the reads.
ReadQueueLifo(ddram_busy, dout) ==
    LET rest == IF WordEnd(dout) THEN Tail(rf)
                ELSE IF Word(dout) THEN [rf EXCEPT ![1].n = @ - 1] ELSE rf
    IN rf' = IF Push(ddram_busy) THEN <<[m |-> cmd.m, n |-> cmd.n]>> \o rest ELSE rest

ReadQueue(ddram_busy, dout) ==
    LET rest == IF WordEnd(dout) THEN Tail(rf)
                ELSE IF Word(dout) THEN [rf EXCEPT ![1].n = @ - 1] ELSE rf
    IN rf' = IF Push(ddram_busy) THEN Append(rest, [m |-> cmd.m, n |-> cmd.n])
             ELSE rest

NewCommand(rq) ==
    LET m == Pick(rq)
        r == Chosen(rq, m)
    IN  IF m = "FBR"
        THEN [v |-> TRUE, m |-> m, we |-> FALSE, addr |-> fbr.addr,
              word |-> fbr.nxt, n |-> SubBurst, wl_left |-> 0]
        ELSE [v |-> TRUE, m |-> m, we |-> r.we, addr |-> r.addr, word |-> r.word,
              n |-> IF m = "RAM" /\ ~r.we THEN r.words ELSE 1,
              wl_left |-> IF m = "RAM" /\ r.we /\ r.words = 4 THEN 3 ELSE 0]

\* The next word of a line write follows at once; otherwise the next command
\* in the same clock the last one is taken.
Command(rq, ddram_busy) ==
    /\ cmd' = IF Load(rq, ddram_busy) THEN NewCommand(rq)
              ELSE IF ~Take(ddram_busy) THEN cmd
              ELSE IF WlCont THEN [cmd EXCEPT !.word = @ + 1, !.wl_left = @ - 1]
              ELSE [cmd EXCEPT !.v = FALSE]
    /\ rr' = IF Load(rq, ddram_busy) /\ Pick(rq) \in Range(Slots)
             THEN SelectInSeq(Slots, LAMBDA m : m = Pick(rq)) - 1 ELSE rr

Clock(rq, ddram_busy, dout) ==
    /\ Latch(rq, ddram_busy)
    /\ Answer(rq, ddram_busy, dout)
    /\ Display(rq, ddram_busy, dout)
    /\ ReadQueue(ddram_busy, dout)
    /\ Command(rq, ddram_busy)

=============================================================================
