----------------------------- MODULE DdrProofs ------------------------------
(***************************************************************************)
(* Proofs about DdrSystem: every answer of ddr3_mux is the one its master  *)
(* waits for, every command it gives the bridge is one that is still       *)
(* wanted, nothing gets between the doublewords of a line write, and main  *)
(* memory's master keeps the contract of RamPort - for any loads, sizes of *)
(* the display's line and bursts, depth of the queue of reads and paces of *)
(* the bridge.                                                             *)
(*                                                                         *)
(* The inductive invariant places every waiting master's request (on the   *)
(* line, latched, the command in front of the bridge, in the queue of      *)
(* reads, or done) and says what the queue, the bridge's debt and the      *)
(* display's burst have to do with one another: the words the bridge owes  *)
(* are the words of the queue's entries, one entry after the other.        *)
(***************************************************************************)
EXTENDS DdrSystem, SequenceTheorems, TLAPS

-----------------------------------------------------------------------------
(* The inductive invariant.                                                *)

\* The masters that wait for an answer, the display apart.
Waiters == Requesters \ {"BCN"}
\* A read in the queue, a word the bridge owes, an entry's first word.
Entry == [m : Waiters \cup {"FBR"}, n : Nat \ {0}]
OwedWord == [who : Mux!Masters, addr : Nat, word : Nat]
FirstWord == [addr : Nat, word : Nat]

\* The words to come, the one on the port first: o behind d.
Position(o, d, k) == IF k = 0 THEN d ELSE o[k]
Base(d) == IF d = NoWord THEN 1 ELSE 0

\* The words to come are those of q's entries: entry i's begin with first[i]
\* and lie from place start[i] on.
StreamOf(q, o, d, first, start) ==
    /\ first \in [1..Len(q) -> FirstWord]
    /\ start \in [1..(Len(q) + 1) -> Nat]
    /\ start[1] = Base(d) /\ start[Len(q) + 1] = Len(o) + 1
    /\ \A i \in 1..Len(q) : start[i + 1] = start[i] + q[i].n
    /\ \A i, j \in 1..(Len(q) + 1) : i <= j => start[i] <= start[j]
    /\ \A i \in 1..Len(q) : \A k \in 0..(q[i].n - 1) :
          Position(o, d, start[i] + k)
             = [who |-> q[i].m, addr |-> first[i].addr, word |-> first[i].word + k]
Streams(q, o, d, first) == \E start : StreamOf(q, o, d, first, start)

\* The words of an entry.
Run(e, f) == [k \in 1..e.n |-> [who |-> e.m, addr |-> f.addr, word |-> f.word + k - 1]]

\* The queue without its first word, and where its entries begin then.
AfterWord(q) == IF q[1].n <= 1 THEN Tail(q) ELSE [q EXCEPT ![1].n = @ - 1]
FirstAfter(q, first) ==
    IF q[1].n <= 1 THEN [i \in 1..(Len(q) - 1) |-> first[i + 1]]
    ELSE [first EXCEPT ![1].word = @ + 1]

\* The masters that raise a request for one clock.
Pulsers == {"RAM", "PROM"}

Request == [we : BOOLEAN, addr : Nat, word : Nat, words : Nat]
Flags(D) == [D -> BOOLEAN]

\* What kind of thing every variable holds.
KindInv ==
    /\ load \in Loads /\ rr \in 0..2
    /\ pend \in Flags(Mux!Masters) /\ busy_m \in Flags(Mux!Masters)
    /\ ack_q \in Flags(Mux!Masters) /\ rq_seen \in Flags(Mux!Masters)
    /\ ram_last_q \in BOOLEAN
    /\ p \in [Mux!Masters -> Request]
    /\ waiting \in Flags(Requesters) /\ got \in [Requesters -> Nat]
    /\ asked \in [Requesters -> Request]
    /\ \A m \in Requesters : line[m] \in Requests(m) \cup {NoRequest}
    /\ DOMAIN line = Requesters
    /\ cmd \in [v : BOOLEAN, m : Mux!Masters, we : BOOLEAN, addr : Nat, word : Nat,
                n : Nat, wl_left : Nat]
    /\ rf \in Seq(Entry) /\ owed \in Seq(OwedWord) /\ dout \in OwedWord \cup {NoWord}

\* The line of a master whose request was taken.
Quiet(m) == IF m \in Pulsers THEN line[m] = NoRequest
            ELSE line[m] = asked[m] /\ rq_seen[m]

\* The request a master raised is one it may raise.
Fits(m) ==
    /\ asked[m] \in Requests(m)
    /\ asked[m].word = 0

\* The places of a waiting master's request: none, on the line, latched, the
\* command in front of the bridge, its words in the queue, answered.
RIdle(m) == ~waiting[m] /\ line[m] = NoRequest /\ ~pend[m] /\ ~busy_m[m] /\ ~ack_q[m]
               /\ got[m] \in {0, Due(m)}
OnWire(m) == waiting[m] /\ line[m] = asked[m] /\ ~pend[m] /\ ~busy_m[m] /\ ~ack_q[m] /\ got[m] = 0
Kept(m) == waiting[m] /\ p[m] = asked[m] /\ Quiet(m)
Latched(m) == Kept(m) /\ pend[m] /\ ~busy_m[m] /\ ~ack_q[m] /\ got[m] = 0
Before(m) ==
    /\ Kept(m) /\ ~pend[m] /\ busy_m[m] /\ ~ack_q[m]
    /\ cmd.v /\ cmd.m = m /\ cmd.we = asked[m].we /\ cmd.addr = asked[m].addr
    /\ cmd.word = got[m] /\ got[m] < Due(m)
    /\ cmd.we => cmd.wl_left = Due(m) - 1 - got[m]
    /\ ~cmd.we => got[m] = 0 /\ cmd.n = Due(m)
    /\ \A i \in DOMAIN rf : rf[i].m # m
\* The word returned is the last one the master was given.
Given(m) == rdata_q = [who |-> m, addr |-> asked[m].addr, word |-> got[m] - 1]
Reading(m) ==
    /\ Kept(m) /\ ~pend[m] /\ busy_m[m] /\ ~asked[m].we
    /\ \E i \in DOMAIN rf : rf[i].m = m
    /\ ~(cmd.v /\ cmd.m = m)
    /\ got[m] < Due(m)
    /\ ack_q[m] => m = "RAM" /\ ~ram_last_q /\ Given(m)
Done(m) ==
    /\ Kept(m) /\ ~pend[m] /\ ~busy_m[m] /\ ack_q[m] /\ got[m] = Due(m)
    /\ m = "RAM" => ram_last_q
    /\ ~asked[m].we => Given(m)

\* Every waiting master is in one of them.
WhereInv == \A m \in Waiters :
    \/ RIdle(m) \/ (Fits(m) /\ (OnWire(m) \/ Latched(m) \/ Before(m) \/ Reading(m) \/ Done(m)))
\* The command in front of the bridge is one its master waits for.
CmdInv ==
    /\ \A m \in Waiters : cmd.v /\ cmd.m = m => Before(m)
    /\ cmd.v /\ cmd.m = "BCN" => cmd.we
    /\ pend["BCN"] => p["BCN"].we
    /\ ~pend["FBR"] /\ ~busy_m["FBR"] /\ ~ack_q["FBR"]
\* A queued read is one its master waits for, and its only one.
QueueInv ==
    \A i \in DOMAIN rf, m \in Waiters : rf[i].m = m =>
        /\ Reading(m) /\ rf[i].n = Due(m) - got[m]
        /\ \A j \in DOMAIN rf : rf[j].m = m => j = i

\* The reader whose request the display presents, whose burst is in flight.
Presented == Fetch!Reader(sel_b)
Owner == Fetch!Reader(owner_b)
Fetched == IF busy THEN Owner ELSE Presented

\* One fill engine.
Engine(r) == [fst |-> fst[r], fill_pos |-> fill_pos[r], burst_left |-> burst_left[r]]

\* One burst of the display at a time, inside its line.
FetchInv ==
    /\ {sel_valid, sel_b, busy, owner_b, fbr_taken_q} \subseteq BOOLEAN
    /\ fst \in [Fetch!Readers -> {"F_IDLE", "F_REQ", "F_DATA"}]
    /\ fill_pos \in [Fetch!Readers -> Nat] /\ burst_left \in [Fetch!Readers -> Int]
    /\ left \in Int
    /\ \A r \in Fetch!Readers : fst[r] = "F_REQ" => fill_pos[r] < LineWords
    /\ sel_valid => ~busy /\ fst[Presented] = "F_REQ"
    /\ \A r \in Fetch!Readers : fst[r] = "F_DATA" <=> busy /\ Owner = r
    /\ busy => left = burst_left[Owner] /\ left \in Nat \ {0} /\ fill_pos[Owner] + left <= LineWords

\* The muxer's account of the burst and the display's agree.
FbrCmd == Mux!FbrCommand
BurstInv ==
    /\ fbr \in [act : BOOLEAN, addr : Nat, nxt : Nat, isl : Nat, rxl : Nat,
                out : Int, first : BOOLEAN]
    /\ busy => fbr.act /\ ~fbr.first /\ ~fbr_taken_q /\ fbr.rxl = left
    /\ fbr.act /\ ~busy => /\ sel_valid /\ (fbr.first <=> ~fbr_taken_q)
                           /\ fbr.rxl = Fetch!BurstOf(Presented)
    /\ fbr.act => fbr.addr = Fetched /\ fbr.nxt + fbr.isl = fill_pos[Fetched] + fbr.rxl
    /\ ~fbr.act => ~fbr_taken_q /\ ~FbrCmd /\ \A i \in DOMAIN rf : rf[i].m # "FBR"
    /\ fbr.act /\ fbr.first => \A i \in DOMAIN rf : rf[i].m # "FBR"
    /\ FbrCmd => ~cmd.we /\ cmd.addr = fbr.addr /\ cmd.n > 0 /\ cmd.word + cmd.n = fbr.nxt
    /\ fbr_taken_q /\ rf # <<>> => Head(rf).m # "FBR" \/ dout = NoWord

\* How far the display's reads the bridge took go.
EndOfFbr == IF FbrCmd THEN cmd.word ELSE fbr.nxt

\* The first word of every entry: a waiting master's is the one it has not had
\* yet, the display's is given.
FirstOf(q, at) ==
    [i \in 1..Len(q) |->
       IF q[i].m = "FBR" THEN [addr |-> fbr.addr, word |-> at[i]]
       ELSE [addr |-> asked[q[i].m].addr, word |-> got[q[i].m]]]

\* The display's entries follow one another from lo to hi.
ChainOf(q, lo, hi, at) ==
    /\ at[1] = lo /\ at[Len(q) + 1] = hi
    /\ \A i \in 1..Len(q) : at[i + 1] = IF q[i].m = "FBR" THEN at[i] + q[i].n ELSE at[i]
    /\ \A i, j \in 1..(Len(q) + 1) : i <= j => at[i] <= at[j]

\* What the bridge owes is what the queue says, and the display's reads are the
\* next words of its burst.
StreamInv ==
    \E at \in [1..(Len(rf) + 1) -> Nat] :
        /\ Streams(rf, owed, dout, FirstOf(rf, at))
        /\ fbr.act => ChainOf(rf, fill_pos[Fetched], EndOfFbr, at)

IInv == KindInv /\ WhereInv /\ CmdInv /\ QueueInv /\ FetchInv /\ BurstInv /\ StreamInv

\* What is left of the queue, and where it starts, after the bridge's word.
Rest == IF Mux!Word(dout) THEN AfterWord(rf) ELSE rf
FirstRest(at) == IF Mux!Word(dout) THEN FirstAfter(rf, FirstOf(rf, at)) ELSE FirstOf(rf, at)
AtRest(at) ==
    IF ~Mux!Word(dout) THEN at
    ELSE IF rf[1].n <= 1 THEN [i \in 1..Len(rf) |-> at[i + 1]]
    ELSE IF rf[1].m = "FBR" THEN [at EXCEPT ![1] = @ + 1] ELSE at

\* Where the chain ends with one more entry, and where its entries start then.
Past(e, hi) == IF e.m = "FBR" THEN hi + e.n ELSE hi
AtPush(q, e, hi, at) == [i \in 1..(Len(q) + 2) |-> IF i <= Len(q) + 1 THEN at[i] ELSE Past(e, hi)]

\* What main memory's master is owed, by where its request is.
OwedFits ==
    /\ RIdle("RAM") \/ OnWire("RAM") \/ Done("RAM") => RamOwed = 0
    /\ Latched("RAM") \/ Before("RAM") => RamOwed = Port!Acks(RamRequest(asked["RAM"]))
    /\ Reading("RAM") => RamOwed = Due("RAM") - got["RAM"]

-----------------------------------------------------------------------------
\* The entries of a queue, and the one at its head.
LEMMA HeadEntry ==
    ASSUME NEW q \in Seq(Entry)
    PROVE  /\ Len(q) \in Nat /\ q \in [1..Len(q) -> Entry]
           /\ q # <<>> => /\ 1 \in 1..Len(q) /\ q[1].n \in Nat \ {0}
                          /\ q[1].m \in Waiters \cup {"FBR"} /\ Head(q) = q[1]
           /\ q = <<>> => Len(q) = 0
           /\ \A i \in 1..Len(q) : /\ q[i].n \in Nat \ {0}
                                   /\ q[i].m \in Waiters \cup {"FBR"} /\ q[i].m \in Mux!Masters
<1>1. Len(q) \in Nat /\ q \in [1..Len(q) -> Entry] /\ (q = <<>> => Len(q) = 0)
  BY LenProperties, EmptySeq
<1>2. ASSUME q # <<>>
      PROVE  1 \in 1..Len(q) /\ q[1] \in Entry /\ Head(q) = q[1]
  <2>1. Len(q) \in Nat \ {0}
    BY <1>2, EmptySeq
  <2> QED
    BY <1>1, <2>1
<1>3. \A e \in Entry : e.n \in Nat \ {0} /\ e.m \in Waiters \cup {"FBR"} /\ e.m \in Mux!Masters
  BY DEF Entry, Waiters, Requesters, Mux!Masters
<1> QED
  BY <1>1, <1>2, <1>3

\* The queue without its first word.
LEMMA AfterWordIs ==
    ASSUME NEW q \in Seq(Entry), q # <<>>
    PROVE  /\ AfterWord(q) \in Seq(Entry)
           /\ q[1].n <= 1 =>
                /\ Len(AfterWord(q)) = Len(q) - 1
                /\ \A i \in 1..(Len(q) - 1) : AfterWord(q)[i] = q[i + 1]
           /\ ~(q[1].n <= 1) =>
                /\ Len(AfterWord(q)) = Len(q)
                /\ \A i \in 1..Len(q) :
                      /\ AfterWord(q)[i].m = q[i].m
                      /\ AfterWord(q)[i].n = IF i = 1 THEN q[i].n - 1 ELSE q[i].n
<1>1. CASE q[1].n <= 1
  BY <1>1, HeadTailProperties DEF AfterWord
<1>2. CASE ~(q[1].n <= 1)
  <2> DEFINE e == [q[1] EXCEPT !.n = @ - 1]
  <2>1. /\ 1 \in 1..Len(q) /\ q[1].n \in Nat \ {0} /\ q[1] \in Entry
        /\ Len(q) \in Nat /\ q \in [1..Len(q) -> Entry]
    BY HeadEntry
  <2>2. e \in Entry /\ e.m = q[1].m /\ e.n = q[1].n - 1
    <3>1. q[1].n - 1 \in Nat \ {0} /\ q[1].m \in Waiters \cup {"FBR"}
      BY <2>1, <1>2, HeadEntry
    <3>2. e = [m |-> q[1].m, n |-> q[1].n - 1]
      BY <2>1 DEF Entry
    <3> QED
      BY <3>1, <3>2 DEF Entry
  <2>3. [q EXCEPT ![1].n = @ - 1] = [q EXCEPT ![1] = e]
    OBVIOUS
  <2>4. /\ AfterWord(q) \in Seq(Entry) /\ Len(AfterWord(q)) = Len(q)
        /\ \A i \in 1..Len(q) : AfterWord(q)[i] = IF i = 1 THEN e ELSE q[i]
    BY <2>1, <2>2, <2>3, <1>2, ExceptSeq DEF AfterWord
  <2> QED
    BY <2>2, <2>4, <1>2
<1> QED
  BY <1>1, <1>2

\* The word on the port is the first one of the queue.
LEMMA HeadIsOldest ==
    ASSUME NEW q \in Seq(Entry), NEW o \in Seq(OwedWord), NEW d \in OwedWord \cup {NoWord},
           NEW first, Streams(q, o, d, first)
    PROVE  /\ q = <<>> => d = NoWord
           /\ d # NoWord => /\ d = [who |-> q[1].m, addr |-> first[1].addr, word |-> first[1].word]
                            /\ first[1] \in FirstWord
<1>1. PICK start : StreamOf(q, o, d, first, start)
  BY DEF Streams
<1>2. CASE q = <<>>
  <2>1. Len(q) = 0 /\ Len(o) \in Nat
    BY <1>2, HeadEntry, LenProperties
  <2>2. Base(d) = Len(o) + 1
    BY <1>1, <2>1 DEF StreamOf
  <2> QED
    BY <2>1, <2>2, <1>2 DEF Base
<1>3. CASE q # <<>> /\ d # NoWord
  <2>1. 1 \in 1..Len(q) /\ q[1].n \in Nat \ {0}
    BY <1>3, HeadEntry
  <2>2. start[1] = 0 /\ 0 \in 0..(q[1].n - 1)
    BY <1>1, <1>3, <2>1 DEF StreamOf, Base
  <2>3. first[1] \in FirstWord /\ first[1].word \in Nat
    BY <1>1, <2>1 DEF StreamOf, FirstWord
  <2>4. Position(o, d, start[1] + 0)
        = [who |-> q[1].m, addr |-> first[1].addr, word |-> first[1].word + 0]
    BY <1>1, <2>1, <2>2 DEF StreamOf
  <2> QED
    BY <2>2, <2>3, <2>4, <1>3 DEF Position
<1> QED
  BY <1>2, <1>3

\* Where the words of one entry lie.
LEMMA EntryInside ==
    ASSUME NEW q \in Seq(Entry), NEW o, NEW d, NEW first, NEW start,
           StreamOf(q, o, d, first, start), Len(o) \in Nat,
           NEW i \in 1..Len(q), NEW k \in 0..(q[i].n - 1)
    PROVE  /\ start[i] \in Nat /\ start[i + 1] \in Nat /\ k \in Nat
           /\ q[i] \in Entry /\ q[i].n \in Nat
           /\ first[i] \in FirstWord
           /\ start[1] <= start[i]
           /\ start[i] + k <= Len(o)
<1>1. Len(q) \in Nat /\ q[i] \in Entry /\ q[i].n \in Nat
  BY HeadEntry DEF Entry
<1>2. /\ i \in 1..(Len(q) + 1) /\ i + 1 \in 1..(Len(q) + 1) /\ Len(q) + 1 \in 1..(Len(q) + 1)
      /\ 1 \in 1..(Len(q) + 1) /\ i + 1 <= Len(q) + 1 /\ 1 <= i
  BY <1>1
<1>3. /\ start[i] \in Nat /\ start[i + 1] \in Nat /\ start[i + 1] = start[i] + q[i].n
      /\ start[1] <= start[i] /\ start[i + 1] <= Len(o) + 1
      /\ first[i] \in FirstWord
  BY <1>2 DEF StreamOf
<1> QED
  BY <1>1, <1>3

\* A word leaves the port and the queue.
LEMMA WordLeaves ==
    ASSUME NEW q \in Seq(Entry), NEW o \in Seq(OwedWord), NEW d \in OwedWord,
           NEW first, Streams(q, o, d, first), q # <<>>
    PROVE  Streams(AfterWord(q), o, NoWord, FirstAfter(q, first))
<1>1. PICK start : StreamOf(q, o, d, first, start)
  BY DEF Streams
<1>2. /\ 1 \in 1..Len(q) /\ q[1].n \in Nat \ {0} /\ Len(q) \in Nat /\ Len(o) \in Nat
      /\ q \in [1..Len(q) -> Entry] /\ \A i \in 1..Len(q) : q[i] \in Entry /\ q[i].n \in Nat
  <2>1. /\ 1 \in 1..Len(q) /\ q[1].n \in Nat \ {0} /\ Len(q) \in Nat /\ Len(o) \in Nat
        /\ q \in [1..Len(q) -> Entry]
    BY HeadEntry, LenProperties
  <2> QED
    BY <2>1 DEF Entry
<1>3. start[1] = 0 /\ Base(NoWord) = 1 /\ start[2] = start[1] + q[1].n
  <2>1. d # NoWord
    BY NoWordAssumption DEF OwedWord
  <2> QED
    BY <1>1, <1>2, <2>1 DEF StreamOf, Base
<1> DEFINE r == AfterWord(q)
           f == FirstAfter(q, first)
<1>4. CASE q[1].n <= 1
  <2> DEFINE s == [i \in 1..Len(q) |-> start[i + 1]]
  <2>2. Len(r) = Len(q) - 1 /\ \A i \in 1..Len(r) : r[i] = q[i + 1]
    BY <1>2, <1>4, AfterWordIs
  <2>1. f = [i \in 1..(Len(q) - 1) |-> first[i + 1]]
    BY <1>4 DEF FirstAfter
  <2>3. f \in [1..Len(r) -> FirstWord] /\ s \in [1..(Len(r) + 1) -> Nat]
    BY <1>1, <1>2, <2>1, <2>2 DEF StreamOf
  <2>4. s[1] = 1 /\ s[Len(r) + 1] = Len(o) + 1
    BY <1>1, <1>2, <1>3, <1>4, <2>2 DEF StreamOf
  <2>9. ASSUME NEW i \in 1..Len(r)
        PROVE i + 1 \in 1..Len(q) /\ r[i] = q[i + 1] /\ f[i] = first[i + 1] /\ s[i] = start[i + 1]
              /\ s[i + 1] = start[i + 1 + 1]
    BY <2>1, <2>2, <1>2
  <2>7. \A i, j \in 1..(Len(r) + 1) : i <= j => s[i] <= s[j]
    <3> TAKE i, j \in 1..(Len(r) + 1)
    <3>1. i + 1 \in 1..(Len(q) + 1) /\ j + 1 \in 1..(Len(q) + 1) /\ i \in 1..Len(q) /\ j \in 1..Len(q)
      BY <1>2, <2>2
    <3> QED
      BY <3>1, <1>1 DEF StreamOf
  <2> HIDE DEF r, f, s
  <2>5. \A i \in 1..Len(r) : s[i + 1] = s[i] + r[i].n
    BY <1>1, <2>9 DEF StreamOf
  <2>6. ASSUME NEW i \in 1..Len(r), NEW k \in 0..(r[i].n - 1)
        PROVE  Position(o, NoWord, s[i] + k)
               = [who |-> r[i].m, addr |-> f[i].addr, word |-> f[i].word + k]
    <3>1. Position(o, d, s[i] + k)
          = [who |-> r[i].m, addr |-> f[i].addr, word |-> f[i].word + k]
      BY <2>9, <1>1 DEF StreamOf
    <3>2. 1 \in 1..(Len(r) + 1) /\ i \in 1..(Len(r) + 1) /\ 1 <= i
      BY <2>2, <1>2
    <3>3. s[1] = 1 /\ s[1] <= s[i] /\ s[i] \in Nat
      BY <3>2, <2>3, <2>4, <2>7
    <3>4. k \in Nat /\ s[i] + k # 0
      BY <3>3, <2>9, <1>2
    <3> QED
      BY <3>1, <3>4 DEF Position
  <2>8. StreamOf(r, o, NoWord, f, s)
    BY <2>3, <2>4, <2>5, <2>6, <2>7, <1>3 DEF StreamOf
  <2> QED
    BY <2>8 DEF Streams, r, f
<1>5. CASE ~(q[1].n <= 1)
  <2> DEFINE s == [start EXCEPT ![1] = 1]
  <2>2. Len(r) = Len(q) /\ \A i \in 1..Len(q) : r[i].m = q[i].m /\ r[i].n = IF i = 1 THEN q[i].n - 1 ELSE q[i].n
    BY <1>2, <1>5, AfterWordIs
  <2>1. /\ f \in [1..Len(q) -> FirstWord]
        /\ \A i \in 1..Len(q) : /\ f[i].addr = first[i].addr
                                /\ f[i].word = IF i = 1 THEN first[i].word + 1 ELSE first[i].word
                                /\ first[i].word \in Nat
    BY <1>5, <1>1, <1>2 DEF FirstAfter, StreamOf, FirstWord
  <2>3. s \in [1..(Len(r) + 1) -> Nat] /\ s[1] = 1 /\ \A i \in 2..(Len(q) + 1) : s[i] = start[i]
    BY <1>1, <1>2, <2>2 DEF StreamOf
  <2>4. s[Len(r) + 1] = Len(o) + 1
    BY <1>1, <1>2, <2>3, <2>2 DEF StreamOf
  <2>7. \A i, j \in 1..(Len(r) + 1) : i <= j => s[i] <= s[j]
    <3> TAKE i, j \in 1..(Len(r) + 1)
    <3>0. /\ Len(r) = Len(q) /\ 2 \in 1..(Len(q) + 1) /\ i \in Nat /\ j \in Nat
          /\ (j # 1 => 2 <= j /\ j \in 2..(Len(q) + 1)) /\ (i # 1 => i \in 2..(Len(q) + 1))
      BY <1>2, <2>2
    <3>1. j # 1 => start[2] <= start[j]
      BY <1>1, <3>0 DEF StreamOf
    <3>2. i # 1 /\ i <= j => start[i] <= start[j]
      BY <1>1, <1>2, <2>2 DEF StreamOf
    <3>3. start[2] > 1 /\ start[2] \in Nat /\ start[i] \in Nat /\ start[j] \in Nat
      BY <1>1, <1>2, <1>3, <1>5, <3>0 DEF StreamOf
    <3>4. (i = 1 => s[i] = 1) /\ (i # 1 => s[i] = start[i]) /\ (j = 1 => s[j] = 1) /\ (j # 1 => s[j] = start[j])
      BY <3>0, <2>3
    <3> QED
      BY <3>0, <3>1, <3>2, <3>3, <3>4
  <2> HIDE DEF r, f, s
  <2>5. \A i \in 1..Len(r) : s[i + 1] = s[i] + r[i].n
    <3> TAKE i \in 1..Len(r)
    <3>1. start[i + 1] = start[i] + q[i].n /\ s[i + 1] = start[i + 1]
      BY <1>1, <1>2, <2>2, <2>3 DEF StreamOf
    <3> QED
      BY <3>1, <2>2, <2>3, <1>2, <1>3, <1>5
  <2>6. ASSUME NEW i \in 1..Len(r), NEW k \in 0..(r[i].n - 1)
        PROVE  Position(o, NoWord, s[i] + k)
               = [who |-> r[i].m, addr |-> f[i].addr, word |-> f[i].word + k]
    <3>1. CASE i = 1
      <4>1. k + 1 \in 0..(q[i].n - 1) /\ i \in 1..Len(q) /\ k \in Nat
        BY <2>2, <3>1, <1>2
      <4>2. Position(o, d, start[i] + (k + 1))
            = [who |-> q[i].m, addr |-> first[i].addr, word |-> first[i].word + (k + 1)]
        BY <4>1, <1>1 DEF StreamOf
      <4>3. start[i] + (k + 1) = s[i] + k /\ s[i] + k # 0
        BY <3>1, <2>3, <1>3
      <4>4. first[i].word + (k + 1) = f[i].word + k
        <5>1. f[i].word = first[i].word + 1 /\ first[i].word \in Nat
          BY <4>1, <3>1, <2>1
        <5>2. k \in Nat
          BY <4>1
        <5>3. \A a \in Nat : a + (k + 1) = (a + 1) + k
          BY <5>2
        <5> QED
          BY <5>1, <5>3
      <4> QED
        BY <4>1, <4>2, <4>3, <4>4, <2>1, <2>2 DEF Position
    <3>2. CASE i # 1
      <4>1. k \in 0..(q[i].n - 1) /\ k \in Nat /\ i \in 1..Len(q) /\ i \in 2..(Len(q) + 1)
        BY <2>2, <3>2, <1>2
      <4>5. s[i] = start[i]
        BY <4>1, <2>3
      <4>2. Position(o, d, start[i] + k)
            = [who |-> q[i].m, addr |-> first[i].addr, word |-> first[i].word + k]
        BY <4>1, <1>1 DEF StreamOf
      <4>6. 1 \in 1..(Len(r) + 1) /\ i \in 1..(Len(r) + 1) /\ 1 <= i
        BY <4>1, <2>2, <1>2
      <4>3. s[1] = 1 /\ s[1] <= s[i] /\ s[i] \in Nat
        BY <4>6, <2>3, <2>7
      <4>7. s[i] + k # 0
        BY <4>1, <4>3
      <4> QED
        BY <4>1, <4>2, <4>5, <4>7, <3>2, <2>1, <2>2 DEF Position
    <3> QED
      BY <3>1, <3>2
  <2>8. StreamOf(r, o, NoWord, f, s)
    BY <2>1, <2>2, <2>3, <2>4, <2>5, <2>6, <2>7, <1>3 DEF StreamOf
  <2> QED
    BY <2>8 DEF Streams, r, f
<1> QED
  BY <1>2, <1>4, <1>5

\* The bridge puts the oldest word it owes on its port.
LEMMA WordComes ==
    ASSUME NEW q \in Seq(Entry), NEW o \in Seq(OwedWord), NEW first,
           Streams(q, o, NoWord, first), o # <<>>
    PROVE  Streams(q, Tail(o), Head(o), first)
<1>1. PICK start : StreamOf(q, o, NoWord, first, start)
  BY DEF Streams
<1>2. /\ Len(o) \in Nat \ {0} /\ Head(o) = o[1] /\ Head(o) # NoWord
      /\ Len(Tail(o)) = Len(o) - 1 /\ \A i \in 1..(Len(o) - 1) : Tail(o)[i] = o[i + 1]
  <2>1. Len(o) \in Nat \ {0} /\ o \in [1..Len(o) -> OwedWord]
    BY EmptySeq, LenProperties
  <2>2. Head(o) = o[1] /\ Head(o) \in OwedWord
    BY <2>1, HeadTailProperties
  <2> QED
    BY <2>1, <2>2, HeadTailProperties, NoWordAssumption DEF OwedWord
<1>3. Base(NoWord) = 1 /\ Base(Head(o)) = 0 /\ start[1] = 1
  BY <1>1, <1>2 DEF StreamOf, Base
<1>4. Len(q) \in Nat /\ 1 \in 1..(Len(q) + 1) /\ Len(q) + 1 \in 1..(Len(q) + 1)
  BY HeadEntry
<1> DEFINE s == [i \in 1..(Len(q) + 1) |-> start[i] - 1]
<1>5. ASSUME NEW i \in 1..(Len(q) + 1)
      PROVE  start[i] \in Nat /\ start[i] >= 1 /\ s[i] = start[i] - 1 /\ s[i] \in Nat
  <2>2. i \in Nat /\ 1 <= i
    BY <1>4
  <2>1. start[1] <= start[i] /\ start[i] \in Nat
    BY <1>1, <1>4, <2>2 DEF StreamOf
  <2> QED
    BY <1>3, <2>1
<1>6. s \in [1..(Len(q) + 1) -> Nat]
  BY <1>5
<1>7. s[1] = 0 /\ s[Len(q) + 1] = Len(Tail(o)) + 1
  BY <1>1, <1>2, <1>3, <1>4, <1>5 DEF StreamOf
<1>8. \A i \in 1..Len(q) : s[i + 1] = s[i] + q[i].n
  <2> TAKE i \in 1..Len(q)
  <2>1. i \in 1..(Len(q) + 1) /\ i + 1 \in 1..(Len(q) + 1)
    BY <1>4
  <2>3. q[i].n \in Nat
    BY HeadEntry
  <2>2. start[i + 1] = start[i] + q[i].n
    BY <1>1 DEF StreamOf
  <2>4. s[i + 1] = start[i + 1] - 1 /\ s[i] = start[i] - 1 /\ start[i] \in Nat
    BY <1>5, <2>1
  <2> QED
    BY <2>2, <2>3, <2>4
<1>9. \A i, j \in 1..(Len(q) + 1) : i <= j => s[i] <= s[j]
  <2> TAKE i, j \in 1..(Len(q) + 1)
  <2>1. i <= j => start[i] <= start[j]
    BY <1>1 DEF StreamOf
  <2>2. /\ s[i] = start[i] - 1 /\ s[j] = start[j] - 1
        /\ start[i] \in Nat /\ start[j] \in Nat
    BY <1>5
  <2> HIDE DEF s
  <2> QED
    BY <2>1, <2>2
<1> HIDE DEF s
<1>10. ASSUME NEW i \in 1..Len(q), NEW k \in 0..(q[i].n - 1)
       PROVE  Position(Tail(o), Head(o), s[i] + k)
              = [who |-> q[i].m, addr |-> first[i].addr, word |-> first[i].word + k]
  <2>1. Position(o, NoWord, start[i] + k)
        = [who |-> q[i].m, addr |-> first[i].addr, word |-> first[i].word + k]
    BY <1>1 DEF StreamOf
  <2>2. start[i] + k <= Len(o) /\ k \in Nat
    BY <1>1, <1>2, EntryInside
  <2>3. i \in 1..(Len(q) + 1) /\ start[i] \in Nat /\ start[i] >= 1 /\ s[i] = start[i] - 1
    BY <1>4, <1>5
  <2>4. CASE s[i] + k = 0
    <3>1. start[i] + k = 1 /\ start[i] + k # 0
      BY <2>2, <2>3, <2>4
    <3> QED
      BY <2>1, <2>4, <3>1, <1>2 DEF Position
  <2>5. CASE s[i] + k # 0
    <3>1. s[i] + k \in 1..(Len(o) - 1) /\ s[i] + k + 1 = start[i] + k /\ start[i] + k # 0
      BY <2>2, <2>3, <2>5, <1>2
    <3> QED
      BY <2>1, <2>5, <3>1, <1>2 DEF Position
  <2> QED
    BY <2>4, <2>5
<1>11. StreamOf(q, Tail(o), Head(o), first, s)
  BY <1>1, <1>3, <1>6, <1>7, <1>8, <1>9, <1>10 DEF StreamOf
<1> QED
  BY <1>11 DEF Streams

\* A read joins the queue, its words what the bridge owes.
LEMMA ReadJoins ==
    ASSUME NEW q \in Seq(Entry), NEW o \in Seq(OwedWord), NEW d \in OwedWord \cup {NoWord},
           NEW first, Streams(q, o, d, first), NEW e \in Entry, NEW f \in FirstWord
    PROVE  Streams(Append(q, e), o \o Run(e, f), d,
                   [i \in 1..(Len(q) + 1) |-> IF i <= Len(q) THEN first[i] ELSE f])
<1>1. PICK start : StreamOf(q, o, d, first, start)
  BY DEF Streams
<1> DEFINE r == Append(q, e)
           w == o \o Run(e, f)
           g == [i \in 1..(Len(q) + 1) |-> IF i <= Len(q) THEN first[i] ELSE f]
           s == [i \in 1..(Len(q) + 2) |-> IF i <= Len(q) + 1 THEN start[i] ELSE Len(o) + 1 + e.n]
<1>2. /\ Len(q) \in Nat /\ Len(o) \in Nat /\ e.n \in Nat \ {0} /\ e.m \in Mux!Masters
      /\ f.addr \in Nat /\ f.word \in Nat
  <2>1. Len(q) \in Nat /\ Len(o) \in Nat
    BY HeadEntry, LenProperties
  <2>2. e.n \in Nat \ {0} /\ e.m \in Mux!Masters
    BY DEF Entry, Waiters, Requesters, Mux!Masters
  <2> QED
    BY <2>1, <2>2 DEF FirstWord
<1>3. Len(r) = Len(q) + 1 /\ r[Len(q) + 1] = e /\ \A i \in 1..Len(q) : r[i] = q[i]
  BY AppendProperties
<1>4. /\ Len(w) = Len(o) + e.n
      /\ \A k \in 1..Len(o) : w[k] = o[k]
      /\ \A k \in 0..(e.n - 1) :
            w[Len(o) + 1 + k] = [who |-> e.m, addr |-> f.addr, word |-> f.word + k]
  <2>1. Run(e, f) \in [1..e.n -> OwedWord]
    BY <1>2 DEF Run, OwedWord
  <2>2. Run(e, f) \in Seq(OwedWord) /\ Len(Run(e, f)) = e.n
    <3>1. Run(e, f) \in Seq(OwedWord)
      BY <2>1, <1>2, SeqDef
    <3>2. DOMAIN Run(e, f) = 1..e.n
      BY DEF Run
    <3> QED
      BY <3>1, <3>2, <1>2
  <2>3. /\ Len(w) = Len(o) + e.n
        /\ \A k \in 1..(Len(o) + e.n) : w[k] = IF k <= Len(o) THEN o[k] ELSE Run(e, f)[k - Len(o)]
    <3>1. /\ Len(o \o Run(e, f)) = Len(o) + Len(Run(e, f))
          /\ \A k \in 1..(Len(o) + Len(Run(e, f))) :
                (o \o Run(e, f))[k] = IF k <= Len(o) THEN o[k] ELSE Run(e, f)[k - Len(o)]
      BY <2>2, ConcatProperties
    <3> QED
      BY <3>1, <2>2
  <2>4. \A k \in 1..Len(o) : w[k] = o[k]
    BY <2>3, <1>2
  <2>5. ASSUME NEW k \in 0..(e.n - 1)
        PROVE  w[Len(o) + 1 + k] = [who |-> e.m, addr |-> f.addr, word |-> f.word + k]
    <3>1. /\ Len(o) + 1 + k \in 1..(Len(o) + e.n) /\ ~(Len(o) + 1 + k <= Len(o))
          /\ (Len(o) + 1 + k) - Len(o) = k + 1 /\ k + 1 \in 1..e.n /\ f.word + (k + 1) - 1 = f.word + k
      BY <1>2
    <3>2. w[Len(o) + 1 + k] = Run(e, f)[k + 1]
      BY <3>1, <2>3
    <3> QED
      BY <3>1, <3>2 DEF Run
  <2> QED
    BY <2>3, <2>4, <2>5
<1>5. /\ g \in [1..Len(r) -> FirstWord] /\ g[Len(q) + 1] = f
      /\ \A i \in 1..Len(q) : g[i] = first[i]
  BY <1>1, <1>2, <1>3 DEF StreamOf
<1>6. /\ s \in [1..(Len(r) + 1) -> Nat] /\ s[Len(r) + 1] = Len(o) + 1 + e.n
      /\ \A i \in 1..(Len(q) + 1) : s[i] = start[i]
  BY <1>1, <1>2, <1>3 DEF StreamOf
<1> HIDE DEF r, w, g, s
<1>7. s[1] = Base(d) /\ s[Len(r) + 1] = Len(w) + 1 /\ s[Len(q) + 1] = Len(o) + 1
  <2>1. 1 \in 1..(Len(q) + 1) /\ Len(q) + 1 \in 1..(Len(q) + 1)
    BY <1>2
  <2>2. s[1] = Base(d) /\ s[Len(q) + 1] = Len(o) + 1
    BY <2>1, <1>1, <1>6 DEF StreamOf
  <2> QED
    BY <2>2, <1>2, <1>4, <1>6
<1>8. \A i \in 1..Len(r) : s[i + 1] = s[i] + r[i].n
  <2> TAKE i \in 1..Len(r)
  <2>1. CASE i <= Len(q)
    <3>1. i \in 1..Len(q) /\ i \in 1..(Len(q) + 1) /\ i + 1 \in 1..(Len(q) + 1)
      BY <2>1, <1>2, <1>3
    <3> QED
      BY <3>1, <1>1, <1>3, <1>6 DEF StreamOf
  <2>2. CASE i = Len(q) + 1
    <3>1. i + 1 = Len(r) + 1 /\ s[i] = Len(o) + 1 /\ r[i] = e
      BY <2>2, <1>3, <1>7
    <3> QED
      BY <3>1, <1>6
  <2> QED
    BY <2>1, <2>2, <1>2, <1>3
<1>9. \A i, j \in 1..(Len(r) + 1) : i <= j => s[i] <= s[j]
  <2> SUFFICES ASSUME NEW i \in 1..(Len(r) + 1), NEW j \in 1..(Len(r) + 1), i <= j
               PROVE  s[i] <= s[j]
    OBVIOUS
  <2>0. Len(r) + 1 = Len(q) + 2 /\ s[j] \in Nat
    BY <1>2, <1>3, <1>6
  <2>1. CASE j <= Len(q) + 1
    <3>1. i \in 1..(Len(q) + 1) /\ j \in 1..(Len(q) + 1)
      BY <2>0, <2>1, <1>2
    <3> QED
      BY <3>1, <1>1, <1>6 DEF StreamOf
  <2>2. CASE i = Len(q) + 2
    <3>1. i = j
      BY <2>0, <2>2, <1>2
    <3> QED
      BY <3>1, <2>0
  <2>3. CASE j = Len(q) + 2 /\ i <= Len(q) + 1
    <3>1. i \in 1..(Len(q) + 1) /\ Len(q) + 1 \in 1..(Len(q) + 1) /\ i <= Len(q) + 1
      BY <2>0, <2>3, <1>2
    <3>2. start[i] <= start[Len(q) + 1] /\ start[i] \in Nat
      BY <3>1, <1>1 DEF StreamOf
    <3>3. s[i] = start[i] /\ start[Len(q) + 1] = Len(o) + 1 /\ s[j] = Len(o) + 1 + e.n
      BY <3>1, <2>0, <2>3, <1>3, <1>6, <1>1 DEF StreamOf
    <3> QED
      BY <3>2, <3>3, <1>2
  <2> QED
    BY <2>0, <2>1, <2>2, <2>3, <1>2
<1>10. ASSUME NEW i \in 1..Len(r), NEW k \in 0..(r[i].n - 1)
       PROVE  Position(w, d, s[i] + k)
              = [who |-> r[i].m, addr |-> g[i].addr, word |-> g[i].word + k]
  <2>1. CASE i <= Len(q)
    <3>1. i \in 1..Len(q) /\ i \in 1..(Len(q) + 1) /\ r[i] = q[i] /\ g[i] = first[i] /\ s[i] = start[i]
      <4>1. i \in 1..Len(q) /\ i \in 1..(Len(q) + 1)
        BY <2>1, <1>2, <1>3
      <4> QED
        BY <4>1, <1>3, <1>5, <1>6
    <3>2. Position(o, d, s[i] + k)
              = [who |-> r[i].m, addr |-> g[i].addr, word |-> g[i].word + k]
      BY <3>1, <1>1 DEF StreamOf
    <3>5. start[i] \in Nat /\ k \in Nat /\ start[i] + k <= Len(o)
      BY <3>1, <1>1, <1>2, EntryInside
    <3>3. s[i] + k <= Len(o) /\ s[i] + k \in Nat
      BY <3>1, <3>5
    <3>4. s[i] + k # 0 => w[s[i] + k] = o[s[i] + k]
      BY <3>3, <1>2, <1>4
    <3> QED
      BY <3>2, <3>4 DEF Position
  <2>2. CASE i = Len(q) + 1
    <3>1. r[i] = e /\ g[i] = f /\ s[i] = Len(o) + 1 /\ k \in 0..(e.n - 1) /\ s[i] + k # 0
      BY <2>2, <1>2, <1>3, <1>5, <1>7
    <3> QED
      BY <3>1, <1>4 DEF Position
  <2> QED
    BY <2>1, <2>2, <1>2, <1>3
<1>11. StreamOf(r, w, d, g, s)
  BY <1>5, <1>6, <1>7, <1>8, <1>9, <1>10 DEF StreamOf
<1> QED
  BY <1>11 DEF Streams, r, w, g

\* The master picked has a request of its own.
LEMMA PickIsCand ==
    ASSUME NEW q, Mux!AnyCand(q), rr \in 0..2
    PROVE  Mux!Pick(q) \in Mux!Masters /\ Mux!Cand(q, Mux!Pick(q))
<1> DEFINE C(m) == Mux!Cand(q, m)
           I == {i \in 1..Len(Mux!Order) : C(Mux!Order[i])}
<1>0. /\ Len(Mux!Order) = 6
      /\ \A i \in 1..6 : Mux!Order[i] \in Mux!Masters
      /\ \A m \in Mux!Masters : \E i \in 1..6 : Mux!Order[i] = m
  <2>2. CASE rr = 0 BY <2>2 DEF Mux!Order, Mux!Slots, Mux!Masters
  <2>3. CASE rr = 1 BY <2>3 DEF Mux!Order, Mux!Slots, Mux!Masters
  <2>4. CASE rr = 2 BY <2>4 DEF Mux!Order, Mux!Slots, Mux!Masters
  <2> QED BY <2>2, <2>3, <2>4
<1>1. I # {} /\ I \subseteq 1..6
  BY <1>0 DEF Mux!AnyCand
<1>2. PICK i \in I : \A j \in I : i =< j
  BY <1>1, SMT
<1>3. Mux!Pick(q) = Mux!Order[Mux!Min(I)]
  BY <1>1 DEF Mux!Pick, Mux!SelectInSeq
<1>4. Mux!Min(I) \in I
  BY <1>2 DEF Mux!Min
<1>5. QED BY <1>0, <1>1, <1>3, <1>4

\* The muxer's registers of one master, a clock later.
LEMMA MuxRegisters ==
    ASSUME NEW b, Mux!Clock(rq, b, dout), NEW m \in Waiters \cup {"BCN"}
    PROVE  /\ rq_seen'[m] <=> (rq[m] # NoRequest /\ (rq_seen[m] \/ Mux!Accepts(rq, m)))
           /\ p'[m] = IF Mux!Accepts(rq, m) THEN rq[m] ELSE p[m]
           /\ pend'[m] <=> ((pend[m] \/ Mux!Accepts(rq, m)) /\ ~Mux!LoadsOf(rq, b, m))
           /\ ack_q'[m] <=> \/ m = "RAM" /\ Mux!WordOf(dout, m)
                            \/ Mux!ReadDone(dout, m) \/ Mux!WriteDone(b, m)
           /\ busy_m'[m] <=> \/ Mux!LoadsOf(rq, b, m)
                             \/ busy_m[m] /\ ~Mux!ReadDone(dout, m) /\ ~Mux!WriteDone(b, m)
           /\ rdata_q' = IF Mux!Word(dout) THEN dout ELSE rdata_q
           /\ ram_last_q' <=> (Mux!WordOf(dout, "RAM") => Mux!WordEnd(dout))
<1>1. m \in Mux!Masters /\ m # "FBR"
  BY DEF Waiters, Requesters, Mux!Masters
<1> QED
  BY <1>1 DEF Mux!Clock, Mux!Latch, Mux!Answer

\* The registers of one master, a clock later.
LEMMA MasterRegisters ==
    ASSUME NEW b, MastersClock(b), NEW m \in Waiters
    PROVE  /\ line'[m] \in NextLine(m)
           /\ asked'[m] = IF Raised(m, line'[m]) THEN line'[m] ELSE asked[m]
           /\ waiting'[m] <=> (Raised(m, line'[m]) \/ (waiting[m] /\ ~Finished(m)))
           /\ got'[m] = IF Raised(m, line'[m]) THEN 0
                        ELSE IF \/ Mux!Take(b) /\ cmd.we /\ cmd.m = m
                                \/ ack_q'[m] /\ ~asked[m].we
                             THEN got[m] + 1 ELSE got[m]
<1>1. m \in Requesters /\ m # "BCN"
  BY DEF Waiters
<1>2. PICK ram \in NextLine("RAM"), prom \in NextLine("PROM"), fbw \in NextLine("FBW"),
           dl \in NextLine("DL"), bcn \in NextLine("BCN") :
      LET next == [n \in Requesters |->
                     CASE n = "RAM" -> ram [] n = "PROM" -> prom
                       [] n = "FBW" -> fbw [] n = "DL" -> dl [] OTHER -> bcn]
      IN
        /\ line' = next
        /\ asked' = [n \in Requesters |->
                       IF Raised(n, next[n]) THEN next[n] ELSE asked[n]]
        /\ waiting' = [n \in Requesters |->
                         /\ n # "BCN"
                         /\ Raised(n, next[n]) \/ (waiting[n] /\ ~Finished(n))]
        /\ got' = [n \in Requesters |->
                     IF n = "BCN" \/ Raised(n, next[n]) THEN 0
                     ELSE IF \/ Mux!Take(b) /\ cmd.we /\ cmd.m = n
                             \/ ack_q'[n] /\ ~asked[n].we
                          THEN got[n] + 1 ELSE got[n]]
  BY DEF MastersClock
<1>3. line'[m] \in NextLine(m)
  BY <1>1, <1>2 DEF Requesters
<1> QED
  BY <1>1, <1>2, <1>3

\* A candidate other than the display is latched, with its request.
LEMMA CandidateIs ==
    ASSUME NEW q, NEW m \in Mux!Masters
    PROVE  Mux!Cand(q, m) =
             IF m = "RAM" THEN (pend[m] \/ Mux!Accepts(q, m)) /\ ~busy_m[m]
             ELSE IF m = "FBR" THEN fbr.act /\ fbr.isl > 0 /\ fbr.out < FBR_AHEAD /\ ~Mux!FbrCommand
             ELSE pend[m] /\ ~busy_m[m]
BY Zenon DEF Mux!Cand

\* What a master presents in the next clock.
LEMMA NextLineIs ==
    /\ \A m \in Pulsers : NextLine(m) = IF waiting[m] /\ ~Finished(m) THEN {NoRequest}
                                        ELSE Requests(m) \cup {NoRequest}
    /\ NextLine("FBW") = IF waiting["FBW"] /\ ~ack_q["FBW"] THEN {line["FBW"]}
                         ELSE Requests("FBW") \cup {NoRequest}
    /\ NextLine("DL") = IF waiting["DL"] /\ ~ack_q["DL"] THEN {line["DL"]}
                        ELSE {NoRequest} \cup {r \in Requests("DL") : r # line["DL"]}
    /\ NextLine("BCN") = Requests("BCN") \cup {NoRequest}
<1>1. ASSUME NEW m \in Pulsers
      PROVE  NextLine(m) = IF waiting[m] /\ ~Finished(m) THEN {NoRequest}
                                        ELSE Requests(m) \cup {NoRequest}
  BY Zenon DEF NextLine, Pulsers
<1>2. /\ NextLine("FBW") = IF waiting["FBW"] /\ ~ack_q["FBW"] THEN {line["FBW"]}
                         ELSE Requests("FBW") \cup {NoRequest}
      /\ NextLine("DL") = IF waiting["DL"] /\ ~ack_q["DL"] THEN {line["DL"]}
                        ELSE {NoRequest} \cup {r \in Requests("DL") : r # line["DL"]}
      /\ NextLine("BCN") = Requests("BCN") \cup {NoRequest}
  BY Zenon DEF NextLine
<1> QED
  BY <1>1, <1>2

\* What a master may ask for.
LEMMA RequestsFit ==
    ASSUME load \in Loads, NEW m \in Requesters, NEW r \in Requests(m)
    PROVE  /\ r \in Request /\ r.word = 0 /\ r # NoRequest
           /\ m = "RAM" => r.words \in 1..4 /\ (r.we => r.words \in {1, 4})
           /\ m # "RAM" => r.words = 1
           /\ m \in {"DL", "BCN"} => r.we
           /\ m = "PROM" => ~r.we
<1>1. /\ load.reads \subseteq 1..4 /\ load.writes \subseteq {1, 4} /\ load.blocks \subseteq Nat
  BY LoadAssumption
<1>2. /\ m = "RAM" => r \in [we : {FALSE}, addr : load.blocks, word : {0}, words : load.reads]
                            \cup [we : {TRUE}, addr : load.blocks, word : {0}, words : load.writes]
      /\ m = "PROM" => r \in [we : {FALSE}, addr : load.blocks, word : {0}, words : {1}]
      /\ m = "FBW" => r \in [we : BOOLEAN, addr : load.blocks, word : {0}, words : {1}]
      /\ m \notin {"RAM", "PROM", "FBW"} => r \in [we : {TRUE}, addr : load.blocks, word : {0}, words : {1}]
  <2>1. m \in load.masters
    BY DEF Requests
  <2>2. CASE m = "RAM" 
    BY <2>1, <2>2, Zenon DEF Requests
  <2>3. CASE m = "PROM" 
    BY <2>1, <2>3, Zenon DEF Requests
  <2>4. CASE m = "FBW" 
    BY <2>1, <2>4, Zenon DEF Requests
  <2>5. CASE m \notin {"RAM", "PROM", "FBW"}
    BY <2>1, <2>5, Zenon DEF Requests
  <2> QED BY <2>2, <2>3, <2>4, <2>5
<1>5. ASSUME NEW W, NEW S, W \subseteq BOOLEAN, S \subseteq Nat,
             r \in [we : W, addr : load.blocks, word : {0}, words : S]
      PROVE  r \in Request /\ r.word = 0 /\ r.we \in W /\ r.words \in S
  <2>1. /\ r.we \in W /\ r.addr \in load.blocks /\ r.word = 0 /\ r.words \in S
        /\ r = [we |-> r.we, addr |-> r.addr, word |-> r.word, words |-> r.words]
    BY <1>5
  <2>2. r.we \in BOOLEAN /\ r.addr \in Nat /\ r.words \in Nat
    BY <1>1, <1>5, <2>1
  <2> QED
    BY <2>1, <2>2 DEF Request
<1>7. CASE m = "RAM"
  <2>1. CASE r \in [we : {FALSE}, addr : load.blocks, word : {0}, words : load.reads]
    <3>1. load.reads \subseteq Nat /\ {FALSE} \subseteq BOOLEAN
      BY <1>1
    <3>2. r \in Request /\ r.word = 0 /\ r.we \in {FALSE} /\ r.words \in load.reads
      BY <2>1, <3>1, <1>5
    <3> QED
      BY <1>7, <3>2, <1>1, NoRequestAssumption DEF Request
  <2>2. CASE r \in [we : {TRUE}, addr : load.blocks, word : {0}, words : load.writes]
    <3>1. load.writes \subseteq Nat /\ {TRUE} \subseteq BOOLEAN
      BY <1>1
    <3>2. r \in Request /\ r.word = 0 /\ r.we \in {TRUE} /\ r.words \in load.writes
      BY <2>2, <3>1, <1>5
    <3> QED
      BY <1>7, <3>2, <1>1, NoRequestAssumption DEF Request
  <2> QED
    BY <1>2, <1>7, <2>1, <2>2
<1>8. {1} \subseteq Nat /\ {TRUE} \subseteq BOOLEAN /\ {FALSE} \subseteq BOOLEAN /\ BOOLEAN \subseteq BOOLEAN
  OBVIOUS
<1>9. CASE m = "PROM"
  <2>1. r \in Request /\ r.word = 0 /\ r.we \in {FALSE} /\ r.words \in {1}
    BY <1>2, <1>5, <1>8, <1>9
  <2> QED
    BY <1>9, <2>1, NoRequestAssumption DEF Request
<1>10. CASE m = "FBW"
  <2>1. r \in Request /\ r.word = 0 /\ r.words \in {1}
    BY <1>2, <1>5, <1>8, <1>10
  <2> QED
    BY <1>10, <2>1, NoRequestAssumption DEF Request
<1>11. CASE m \notin {"RAM", "PROM", "FBW"}
  <2>1. r \in Request /\ r.word = 0 /\ r.we \in {TRUE} /\ r.words \in {1}
    BY <1>2, <1>5, <1>8, <1>11
  <2> QED
    BY <1>11, <2>1, NoRequestAssumption DEF Request
<1> QED
  BY <1>7, <1>9, <1>10, <1>11

\* What a load puts in front of the bridge, and what else becomes of a command.
LEMMA CommandMoves ==
    ASSUME NEW b, Mux!Clock(rq, b, dout), rr \in 0..2, NEW m \in Mux!Masters
    PROVE  /\ Mux!LoadsOf(rq, b, m) =>
                /\ Mux!Cand(rq, m) /\ cmd'.v /\ cmd'.m = m
                /\ m = "FBR" =>
                      /\ ~cmd'.we /\ cmd'.addr = fbr.addr /\ cmd'.word = fbr.nxt
                      /\ cmd'.n = Mux!SubBurst /\ cmd'.wl_left = 0
                /\ m # "FBR" =>
                      LET r == IF m = "RAM" /\ ~pend[m] THEN rq[m] ELSE p[m] IN
                      /\ cmd'.we = r.we /\ cmd'.addr = r.addr /\ cmd'.word = r.word
                      /\ cmd'.n = IF m = "RAM" /\ ~r.we THEN r.words ELSE 1
                      /\ cmd'.wl_left = IF m = "RAM" /\ r.we /\ r.words = 4 THEN 3 ELSE 0
           /\ Mux!LoadsOf(rq, b, m) => ~cmd.v \/ (Mux!Take(b) /\ ~Mux!WlCont)
           /\ cmd.v /\ ~b => Mux!Take(b)
           /\ cmd.v /\ ~Mux!Take(b) => cmd' = cmd
           /\ Mux!Take(b) /\ Mux!WlCont =>
                cmd' = [cmd EXCEPT !.word = @ + 1, !.wl_left = @ - 1]
           /\ ~Mux!LoadsOf(rq, b, m) /\ ~(cmd.v /\ cmd.m = m) => ~(cmd'.v /\ cmd'.m = m)
           /\ ~Mux!LoadsOf(rq, b, m) /\ Mux!Take(b) /\ ~Mux!WlCont => ~(cmd'.v /\ cmd'.m = m)
<1>1. Mux!Command(rq, b)
  BY DEF Mux!Clock
<1>2. ASSUME Mux!LoadsOf(rq, b, m)
      PROVE  /\ Mux!Cand(rq, m) /\ Mux!Pick(rq) = m /\ cmd' = Mux!NewCommand(rq)
             /\ ~cmd.v \/ (Mux!Take(b) /\ ~Mux!WlCont)
  <2>1. Mux!Load(rq, b) /\ Mux!Pick(rq) = m /\ Mux!AnyCand(rq)
    BY <1>2 DEF Mux!LoadsOf, Mux!Load
  <2>2. Mux!Cand(rq, m)
    BY <2>1, PickIsCand
  <2> QED
    BY <1>1, <2>1, <2>2 DEF Mux!Command, Mux!Load
<1>3. ASSUME Mux!LoadsOf(rq, b, m), m = "FBR"
      PROVE  /\ cmd'.v /\ cmd'.m = m
             /\ ~cmd'.we /\ cmd'.addr = fbr.addr /\ cmd'.word = fbr.nxt
             /\ cmd'.n = Mux!SubBurst /\ cmd'.wl_left = 0
  BY <1>2, <1>3 DEF Mux!NewCommand
<1>4. ASSUME Mux!LoadsOf(rq, b, m), m # "FBR"
      PROVE  /\ cmd'.v /\ cmd'.m = m
             /\ LET r == IF m = "RAM" /\ ~pend[m] THEN rq[m] ELSE p[m] IN
                      /\ cmd'.we = r.we /\ cmd'.addr = r.addr /\ cmd'.word = r.word
                      /\ cmd'.n = IF m = "RAM" /\ ~r.we THEN r.words ELSE 1
                      /\ cmd'.wl_left = IF m = "RAM" /\ r.we /\ r.words = 4 THEN 3 ELSE 0
  BY <1>2, <1>4 DEF Mux!NewCommand, Mux!Chosen
<1>5. /\ cmd.v /\ ~b => Mux!Take(b)
      /\ cmd.v /\ ~Mux!Take(b) => cmd' = cmd
      /\ Mux!Take(b) /\ Mux!WlCont => cmd' = [cmd EXCEPT !.word = @ + 1, !.wl_left = @ - 1]
  BY <1>1 DEF Mux!Command, Mux!Load, Mux!Take
<1>6. ASSUME ~Mux!LoadsOf(rq, b, m), Mux!Load(rq, b)
      PROVE  cmd'.m # m
  <2>1. Mux!Pick(rq) # m /\ cmd' = Mux!NewCommand(rq)
    BY <1>1, <1>6 DEF Mux!LoadsOf, Mux!Command
  <2> QED
    BY <2>1 DEF Mux!NewCommand
<1>7. ASSUME ~Mux!Load(rq, b), ~(cmd.v /\ cmd.m = m)
      PROVE  ~(cmd'.v /\ cmd'.m = m)
  BY <1>1, <1>7 DEF Mux!Command
<1>8. ASSUME ~Mux!Load(rq, b), Mux!Take(b), ~Mux!WlCont
      PROVE  ~(cmd'.v /\ cmd'.m = m)
  BY <1>1, <1>8 DEF Mux!Command
<1> QED
  BY <1>2, <1>3, <1>4, <1>5, <1>6, <1>7, <1>8

-----------------------------------------------------------------------------
\* The queue of reads, a clock later.
LEMMA QueueMoves ==
    ASSUME NEW b, Mux!ReadQueue(b, dout), rf \in Seq(Entry),
           Mux!Push(b) => [m |-> cmd.m, n |-> cmd.n] \in Entry
    PROVE  LET rest == IF Mux!Word(dout) THEN AfterWord(rf) ELSE rf IN
           /\ rest \in Seq(Entry)
           /\ Mux!Push(b) => rf' = Append(rest, [m |-> cmd.m, n |-> cmd.n])
           /\ ~Mux!Push(b) => rf' = rest
           /\ rf' \in Seq(Entry)
<1> DEFINE rest == IF Mux!Word(dout) THEN AfterWord(rf) ELSE rf
           e == [m |-> cmd.m, n |-> cmd.n]
<1>1. rest \in Seq(Entry)
  BY AfterWordIs DEF Mux!Word
<1>2. rest = IF Mux!WordEnd(dout) THEN Tail(rf)
                ELSE IF Mux!Word(dout) THEN [rf EXCEPT ![1].n = @ - 1] ELSE rf
  BY HeadEntry DEF AfterWord, Mux!Word, Mux!WordEnd
<1>3. rf' = IF Mux!Push(b) THEN Append(rest, e) ELSE rest
  BY <1>2 DEF Mux!ReadQueue
<1>4. Mux!Push(b) => Append(rest, e) \in Seq(Entry)
  BY <1>1, AppendProperties
<1> QED
  BY <1>1, <1>3, <1>4

\* Where an entry of the queue comes from.
LEMMA EntryBefore ==
    ASSUME NEW b, Mux!ReadQueue(b, dout), rf \in Seq(Entry),
           Mux!Push(b) => [m |-> cmd.m, n |-> cmd.n] \in Entry,
           NEW i \in 1..Len(rf')
    PROVE  \/ LET j == IF Mux!WordEnd(dout) THEN i + 1 ELSE i IN
                /\ j \in 1..Len(rf)
                /\ rf'[i].m = rf[j].m
                /\ rf'[i].n = IF Mux!Word(dout) /\ j = 1 THEN rf[j].n - 1 ELSE rf[j].n
           \/ /\ Mux!Push(b) /\ rf'[i] = [m |-> cmd.m, n |-> cmd.n]
              /\ i = Len(rf')
<1> DEFINE rest == IF Mux!Word(dout) THEN AfterWord(rf) ELSE rf
           e == [m |-> cmd.m, n |-> cmd.n]
           j == IF Mux!WordEnd(dout) THEN i + 1 ELSE i
<1>1. /\ rest \in Seq(Entry) /\ Len(rest) \in Nat /\ Len(rf) \in Nat
      /\ Mux!Push(b) => rf' = Append(rest, e)
      /\ ~Mux!Push(b) => rf' = rest
  BY QueueMoves, HeadEntry
<1>2. Mux!Push(b) => /\ Len(rf') = Len(rest) + 1 /\ rf'[Len(rest) + 1] = e
                     /\ \A k \in 1..Len(rest) : rf'[k] = rest[k]
  <2> SUFFICES ASSUME Mux!Push(b)
               PROVE  /\ Len(rf') = Len(rest) + 1 /\ rf'[Len(rest) + 1] = e
                      /\ \A k \in 1..Len(rest) : rf'[k] = rest[k]
    OBVIOUS
  <2>1. rf' = Append(rest, e) /\ rest \in Seq(Entry) /\ e \in Entry
    BY <1>1
  <2> HIDE DEF rest, e
  <2> QED
    BY <2>1, AppendProperties
<1>3. ASSUME i \in 1..Len(rest)
      PROVE  /\ j \in 1..Len(rf)
             /\ rest[i].m = rf[j].m
             /\ rest[i].n = IF Mux!Word(dout) /\ j = 1 THEN rf[j].n - 1 ELSE rf[j].n
  <2>1. CASE Mux!WordEnd(dout)
    <3>1. rf # <<>> /\ rf[1].n <= 1 /\ Mux!Word(dout)
      BY <2>1, HeadEntry DEF Mux!Word, Mux!WordEnd
    <3>2. Len(rest) = Len(rf) - 1 /\ rest[i] = rf[i + 1]
      BY <1>3, <3>1, AfterWordIs
    <3> QED
      BY <1>1, <1>3, <2>1, <3>2
  <2>2. CASE ~Mux!WordEnd(dout) /\ Mux!Word(dout)
    <3>1. rf # <<>> /\ ~(rf[1].n <= 1)
      BY <2>2, HeadEntry DEF Mux!Word, Mux!WordEnd
    <3>2. /\ Len(rest) = Len(rf) /\ i \in 1..Len(rf) /\ rest[i].m = rf[i].m
          /\ rest[i].n = IF i = 1 THEN rf[i].n - 1 ELSE rf[i].n
      BY <1>3, <2>2, <3>1, AfterWordIs
    <3> QED
      BY <2>2, <3>2
  <2>3. CASE ~Mux!Word(dout)
    BY <1>3, <2>3 DEF Mux!WordEnd
  <2> QED
    BY <2>1, <2>2, <2>3
<1>4. CASE i \in 1..Len(rest)
  <2>1. rf'[i] = rest[i]
    BY <1>1, <1>2, <1>4
  <2> QED
    BY <1>3, <1>4, <2>1
<1>5. CASE i \notin 1..Len(rest)
  <2>1. Mux!Push(b) /\ i = Len(rest) + 1
    BY <1>1, <1>2, <1>5
  <2> QED
    BY <1>2, <2>1
<1> QED
  BY <1>4, <1>5

\* Where an entry of the queue goes.
LEMMA EntryAfter ==
    ASSUME NEW b, Mux!ReadQueue(b, dout), rf \in Seq(Entry),
           Mux!Push(b) => [m |-> cmd.m, n |-> cmd.n] \in Entry
    PROVE  /\ \A j \in 1..Len(rf) : ~(Mux!WordEnd(dout) /\ j = 1) =>
                \E i \in 1..Len(rf') : rf'[i].m = rf[j].m
           /\ Mux!Push(b) => \E i \in 1..Len(rf') : rf'[i].m = cmd.m
<1> DEFINE rest == IF Mux!Word(dout) THEN AfterWord(rf) ELSE rf
           e == [m |-> cmd.m, n |-> cmd.n]
<1>1. /\ rest \in Seq(Entry) /\ Len(rest) \in Nat /\ Len(rf) \in Nat
      /\ Mux!Push(b) => rf' = Append(rest, e)
      /\ ~Mux!Push(b) => rf' = rest
  BY QueueMoves, HeadEntry
<1>2. Mux!Push(b) => /\ Len(rf') = Len(rest) + 1 /\ rf'[Len(rest) + 1] = e
                     /\ \A k \in 1..Len(rest) : rf'[k] = rest[k]
  <2> SUFFICES ASSUME Mux!Push(b)
               PROVE  /\ Len(rf') = Len(rest) + 1 /\ rf'[Len(rest) + 1] = e
                      /\ \A k \in 1..Len(rest) : rf'[k] = rest[k]
    OBVIOUS
  <2>1. rf' = Append(rest, e) /\ rest \in Seq(Entry) /\ e \in Entry
    BY <1>1
  <2> HIDE DEF rest, e
  <2> QED
    BY <2>1, AppendProperties
<1>3. ASSUME NEW j \in 1..Len(rf), ~(Mux!WordEnd(dout) /\ j = 1)
      PROVE  \E i \in 1..Len(rest) : rest[i].m = rf[j].m
  <2>1. CASE Mux!WordEnd(dout)
    <3>1. rf # <<>> /\ rf[1].n <= 1 /\ Mux!Word(dout)
      BY <2>1, HeadEntry DEF Mux!Word, Mux!WordEnd
    <3>2. Len(rest) = Len(rf) - 1 /\ \A i \in 1..(Len(rf) - 1) : rest[i] = rf[i + 1]
      BY <1>3, <3>1, AfterWordIs
    <3>3. j - 1 \in 1..Len(rest) /\ (j - 1) + 1 = j
      BY <1>1, <1>3, <2>1, <3>2
    <3>4. rest[j - 1] = rf[j]
      BY <3>2, <3>3
    <3> QED
      BY <3>3, <3>4
  <2>2. CASE ~Mux!WordEnd(dout) /\ Mux!Word(dout)
    <3>1. rf # <<>> /\ ~(rf[1].n <= 1)
      BY <2>2, HeadEntry DEF Mux!Word, Mux!WordEnd
    <3>2. /\ Len(rest) = Len(rf) /\ j \in 1..Len(rest) /\ rest[j].m = rf[j].m
      BY <1>3, <2>2, <3>1, AfterWordIs
    <3> QED
      BY <3>2
  <2>3. CASE ~Mux!Word(dout)
    BY <1>3, <2>3 DEF Mux!WordEnd
  <2> QED
    BY <2>1, <2>2, <2>3
<1> HIDE DEF rest
<1>4. \A k \in 1..Len(rest) : k \in 1..Len(rf') /\ rf'[k] = rest[k]
  BY <1>1, <1>2
<1>5. Mux!Push(b) => Len(rest) + 1 \in 1..Len(rf') /\ rf'[Len(rest) + 1].m = cmd.m
  BY <1>1, <1>2
<1> QED
  BY <1>3, <1>4, <1>5

-----------------------------------------------------------------------------
(* The places of a waiting master.                                         *)

LEMMA LineStep ==
    ASSUME KindInv, NEW b, ClockWith(b), NEW m \in Waiters
    PROVE  LET free == ~waiting[m] \/ Finished(m) IN
           /\ line'[m] \in Requests(m) \cup {NoRequest}
           /\ free /\ line'[m] # NoRequest =>
                asked'[m] = line'[m] /\ waiting'[m] /\ got'[m] = 0
           /\ free /\ line'[m] = NoRequest => asked'[m] = asked[m] /\ ~waiting'[m]
           /\ ~free => /\ asked'[m] = asked[m] /\ waiting'[m]
                       /\ m \in Pulsers => line'[m] = NoRequest
                       /\ m \notin Pulsers => line'[m] = line[m]
           /\ ~(free /\ line'[m] # NoRequest) =>
                got'[m] = IF \/ Mux!Take(b) /\ cmd.we /\ cmd.m = m
                             \/ ack_q'[m] /\ ~asked[m].we
                          THEN got[m] + 1 ELSE got[m]
           /\ m = "DL" /\ free /\ line'[m] # NoRequest => line'[m] # line[m]
           /\ Requests(m)' = Requests(m)
<1> DEFINE free == ~waiting[m] \/ Finished(m)
<1>1. MastersClock(b) /\ load' = load
  BY DEF ClockWith
<1>2. /\ line'[m] \in NextLine(m)
      /\ asked'[m] = IF Raised(m, line'[m]) THEN line'[m] ELSE asked[m]
      /\ waiting'[m] <=> (Raised(m, line'[m]) \/ (waiting[m] /\ ~Finished(m)))
      /\ got'[m] = IF Raised(m, line'[m]) THEN 0
                   ELSE IF \/ Mux!Take(b) /\ cmd.we /\ cmd.m = m
                           \/ ack_q'[m] /\ ~asked[m].we
                        THEN got[m] + 1 ELSE got[m]
  BY <1>1, MasterRegisters
<1>3. Requests(m)' = Requests(m)
  BY <1>1, Zenon DEF Requests
<1>4. /\ line[m] \in Requests(m) \cup {NoRequest}
      /\ line'[m] \in Requests(m) \cup {NoRequest}
      /\ Raised(m, line'[m]) <=> free /\ line'[m] # NoRequest
      /\ ~free => /\ m \in Pulsers => line'[m] = NoRequest
                  /\ m \notin Pulsers => line'[m] = line[m]
      /\ m = "DL" /\ free /\ line'[m] # NoRequest => line'[m] # line[m]
  <2>1. line[m] \in Requests(m) \cup {NoRequest} /\ m \in Requesters
    BY DEF KindInv, Waiters
  <2>2. CASE m \in Pulsers
    BY <1>2, <2>1, <2>2, NextLineIs DEF Raised, Pulsers
  <2>3. CASE m = "FBW"
    BY <1>2, <2>1, <2>3, NextLineIs DEF Raised, Pulsers, Finished
  <2>4. CASE m = "DL"
    BY <1>2, <2>1, <2>4, NextLineIs DEF Raised, Pulsers, Finished
  <2> QED
    BY <2>2, <2>3, <2>4 DEF Waiters, Requesters, Pulsers
<1> QED
  BY <1>2, <1>3, <1>4

\* What a requester presents to the muxer is its line.
LEMMA RequesterLine ==
    ASSUME NEW m \in Waiters
    PROVE  rq[m] = line[m] /\ m \in Requesters /\ m \in Mux!Masters /\ m # "FBR" /\ m # "BCN"
BY DEF rq, Waiters, Requesters, Mux!Masters

\* How many words a request is for.
LEMMA DueIs ==
    ASSUME KindInv, NEW m \in Waiters, Fits(m)
    PROVE  /\ Due(m) \in 1..4
           /\ asked[m] \in Request /\ asked[m] # NoRequest
           /\ m # "RAM" => Due(m) = 1
           /\ asked[m].word = 0
           /\ m = "RAM" => Due(m) = asked[m].words
           /\ m = "RAM" /\ asked[m].we => Due(m) \in {1, 4}
<1>1. m \in Requesters /\ asked[m] \in Requests(m) /\ load \in Loads
  BY DEF Waiters, Fits, KindInv
<1> QED
  BY <1>1, RequestsFit DEF Due

\* What the places say of the wires.
LEMMA Wires ==
    ASSUME IInv, NEW b, NEW m \in Waiters
    PROVE  /\ ~Before(m) => ~(cmd.v /\ cmd.m = m) /\ ~Mux!WriteDone(b, m)
           /\ ~Reading(m) => ~Mux!WordOf(dout, m) /\ ~Mux!ReadDone(dout, m)
           /\ ~Reading(m) => \A i \in 1..Len(rf) : rf[i].m # m
           /\ rf \in Seq(Entry) /\ Len(rf) \in Nat /\ DOMAIN rf = 1..Len(rf)
<1>1. rf \in Seq(Entry) /\ DOMAIN rf = 1..Len(rf) /\ Len(rf) \in Nat
  BY LenProperties DEF IInv, KindInv
<1>2. rf # <<>> => 1 \in 1..Len(rf) /\ Head(rf) = rf[1]
  BY <1>1, HeadEntry
<1>3. m # "FBR"
  BY DEF Waiters, Requesters
<1>4. ~Before(m) => ~(cmd.v /\ cmd.m = m)
  BY DEF IInv, CmdInv
<1>5. ~Reading(m) => \A i \in 1..Len(rf) : rf[i].m # m
  BY <1>1, <1>3 DEF IInv, QueueInv
<1> QED
  BY <1>1, <1>2, <1>4, <1>5 DEF Mux!WriteDone, Mux!Take, Mux!WordOf, Mux!Word, Mux!ReadDone, Mux!WordEnd

\* What a read that the bridge takes adds to the queue.
LEMMA PushedEntry ==
    ASSUME IInv, NEW b, Mux!Push(b)
    PROVE  /\ cmd.m \in Waiters \cup {"FBR"} /\ ~cmd.we /\ cmd.v
           /\ [m |-> cmd.m, n |-> cmd.n] \in Entry
           /\ cmd.m \in Waiters => Before(cmd.m) /\ cmd.n = Due(cmd.m)
<1>1. cmd.v /\ ~cmd.we /\ cmd.m \in Mux!Masters /\ cmd.n \in Nat
  BY DEF Mux!Push, Mux!Take, IInv, KindInv
<1>2. cmd.m \in Waiters \cup {"FBR"}
  BY <1>1 DEF IInv, CmdInv, Waiters, Requesters, Mux!Masters
<1>3. CASE cmd.m \in Waiters
  <2>1. Before(cmd.m)
    BY <1>1, <1>3 DEF IInv, CmdInv
  <2>2. Fits(cmd.m)
    BY <1>3, <2>1 DEF IInv, WhereInv, RIdle, Before
  <2>3. cmd.n = Due(cmd.m) /\ Due(cmd.m) \in 1..4
    BY <1>1, <1>3, <2>1, <2>2, DueIs DEF IInv, Before
  <2> QED
    BY <1>1, <1>2, <2>1, <2>3 DEF Entry
<1>4. CASE cmd.m = "FBR"
  <2>1. cmd.n > 0
    BY <1>1, <1>4 DEF IInv, BurstInv, FbrCmd, Mux!FbrCommand
  <2>2. cmd.m \notin Waiters
    BY <1>4 DEF Waiters, Requesters
  <2> QED
    BY <1>1, <1>2, <2>1, <2>2 DEF Entry
<1> QED
  BY <1>2, <1>3, <1>4

\* A word of a master's read is the one it has not had yet.
LEMMA WordIsNext ==
    ASSUME IInv, NEW m \in Waiters, Mux!WordOf(dout, m)
    PROVE  /\ dout = [who |-> m, addr |-> asked[m].addr, word |-> got[m]]
           /\ Reading(m)
           /\ rf[1].n = Due(m) - got[m] /\ rf[1].m = m
           /\ Mux!WordEnd(dout) <=> rf[1].n <= 1
<1>1. /\ rf \in Seq(Entry) /\ rf # <<>> /\ dout # NoWord /\ Head(rf) = rf[1] /\ rf[1].m = m
      /\ 1 \in 1..Len(rf) /\ DOMAIN rf = 1..Len(rf)
  BY HeadEntry, LenProperties DEF IInv, KindInv, Mux!WordOf, Mux!Word
<1>2. m # "FBR"
  BY DEF Waiters, Requesters
<1>3. Reading(m) /\ rf[1].n = Due(m) - got[m]
  BY <1>1, <1>2 DEF IInv, QueueInv
<1>4. PICK at : Streams(rf, owed, dout, FirstOf(rf, at))
  BY DEF IInv, StreamInv
<1>5. dout = [who |-> rf[1].m, addr |-> FirstOf(rf, at)[1].addr, word |-> FirstOf(rf, at)[1].word]
  BY <1>1, <1>4, HeadIsOldest DEF IInv, KindInv
<1>6. FirstOf(rf, at)[1] = [addr |-> asked[m].addr, word |-> got[m]]
  BY <1>1, <1>2 DEF FirstOf
<1> QED
  BY <1>1, <1>3, <1>5, <1>6 DEF Mux!WordEnd, Mux!Word

\* A master with nothing to wait for.
LEMMA IdleStep ==
    ASSUME IInv, NEW b, ClockWith(b), NEW m \in Waiters, RIdle(m)
    PROVE  RIdle(m)' \/ (Fits(m)' /\ OnWire(m)')
<1>1. rq[m] = line[m] /\ m \in Mux!Masters /\ m # "FBR" /\ m \in Requesters
  BY RequesterLine
<1>2. ~Before(m) /\ ~Reading(m)
  BY DEF RIdle, Before, Reading, Kept
<1>3. ~Mux!Accepts(rq, m) /\ ~Mux!Cand(rq, m)
  BY <1>1, CandidateIs DEF RIdle, Mux!Accepts
<1>4. ~Mux!LoadsOf(rq, b, m)
  BY <1>1, <1>3, CommandMoves DEF ClockWith, IInv, KindInv
<1>5. /\ ~(cmd.v /\ cmd.m = m) /\ ~Mux!WriteDone(b, m)
      /\ ~Mux!WordOf(dout, m) /\ ~Mux!ReadDone(dout, m)
  BY <1>2, Wires
<1>6. ~pend'[m] /\ ~busy_m'[m] /\ ~ack_q'[m]
  BY <1>3, <1>4, <1>5, MuxRegisters DEF ClockWith, RIdle
<1>7. KindInv /\ ~waiting[m]
  BY DEF IInv, RIdle
<1>8. CASE line'[m] # NoRequest
  <2>1. /\ asked'[m] = line'[m] /\ waiting'[m] /\ got'[m] = 0 /\ line'[m] \in Requests(m)
        /\ Requests(m)' = Requests(m)
    BY <1>7, <1>8, LineStep
  <2>2. asked'[m].word = 0
    BY <1>1, <1>7, <2>1, RequestsFit DEF KindInv
  <2> QED
    BY <1>6, <2>1, <2>2 DEF OnWire, Fits
<1>9. CASE line'[m] = NoRequest
  <2>1. asked'[m] = asked[m] /\ ~waiting'[m]
    BY <1>7, <1>9, LineStep
  <2>2. got'[m] = got[m]
    BY <1>5, <1>6, <1>7, <1>9, LineStep DEF Mux!Take
  <2> QED
    BY <1>6, <1>9, <2>1, <2>2 DEF RIdle, Due
<1> QED
  BY <1>8, <1>9

\* A request on the line is latched.
LEMMA WireStep ==
    ASSUME IInv, NEW b, ClockWith(b), NEW m \in Waiters, Fits(m), OnWire(m)
    PROVE  Fits(m)' /\ (Latched(m)' \/ Before(m)')
<1>1. rq[m] = line[m] /\ m \in Mux!Masters /\ m # "FBR" /\ m \in Requesters
  BY RequesterLine
<1>2. ~Before(m) /\ ~Reading(m)
  BY DEF OnWire, Before, Reading, Kept
<1>3. /\ Due(m) \in 1..4 /\ asked[m] \in Request /\ asked[m] # NoRequest
      /\ m # "RAM" => Due(m) = 1
      /\ asked[m].word = 0
      /\ m = "RAM" => Due(m) = asked[m].words
      /\ m = "RAM" /\ asked[m].we => Due(m) \in {1, 4}
  BY DueIs DEF IInv
<1>4. Mux!Accepts(rq, m) /\ ~pend[m]
  BY <1>1, <1>3 DEF OnWire, Mux!Accepts
<1>5. /\ ~(cmd.v /\ cmd.m = m) /\ ~Mux!WriteDone(b, m)
      /\ ~Mux!WordOf(dout, m) /\ ~Mux!ReadDone(dout, m)
      /\ \A i \in 1..Len(rf) : rf[i].m # m
  BY <1>2, Wires
<1>6. /\ rq_seen'[m] /\ p'[m] = asked[m] /\ (pend'[m] <=> ~Mux!LoadsOf(rq, b, m))
      /\ ~ack_q'[m] /\ (busy_m'[m] <=> Mux!LoadsOf(rq, b, m))
  <2>1. Mux!Clock(rq, b, dout)
    BY DEF ClockWith
  <2>2. ~pend[m] /\ ~busy_m[m] /\ rq[m] = asked[m] /\ rq[m] # NoRequest
    BY <1>1, <1>3 DEF OnWire
  <2>3. rq_seen'[m] /\ p'[m] = asked[m] /\ (pend'[m] <=> ~Mux!LoadsOf(rq, b, m))
    BY <1>4, <2>1, <2>2, MuxRegisters
  <2>4. ~ack_q'[m] /\ (busy_m'[m] <=> Mux!LoadsOf(rq, b, m))
    BY <1>5, <2>1, <2>2, MuxRegisters
  <2> QED
    BY <2>3, <2>4
<1>7. /\ asked'[m] = asked[m] /\ waiting'[m] /\ got'[m] = 0 /\ Requests(m)' = Requests(m)
      /\ m \in Pulsers => line'[m] = NoRequest
      /\ m \notin Pulsers => line'[m] = line[m]
  BY <1>5, <1>6, LineStep DEF IInv, OnWire, Finished, Mux!Take
<1>8. Fits(m)' /\ Kept(m)'
  BY <1>6, <1>7 DEF Fits, Kept, Quiet, OnWire
<1>9. CASE ~Mux!LoadsOf(rq, b, m)
  BY <1>6, <1>7, <1>8, <1>9 DEF Latched
<1>10. CASE Mux!LoadsOf(rq, b, m)
  <2>1. m = "RAM"
    BY <1>1, <1>4, <1>10, CandidateIs, CommandMoves DEF ClockWith, IInv, KindInv
  <2>2. /\ cmd'.v /\ cmd'.m = m
        /\ cmd'.we = asked[m].we /\ cmd'.addr = asked[m].addr /\ cmd'.word = 0
        /\ cmd'.n = IF ~asked[m].we THEN asked[m].words ELSE 1
        /\ cmd'.wl_left = IF asked[m].we /\ asked[m].words = 4 THEN 3 ELSE 0
    BY <1>1, <1>3, <1>4, <1>10, <2>1, CommandMoves DEF ClockWith, IInv, KindInv, OnWire
  <2>3. \A i \in DOMAIN rf' : rf'[i].m # m
    <3>1. /\ Mux!ReadQueue(b, dout) /\ rf \in Seq(Entry)
          /\ Mux!Push(b) => [m |-> cmd.m, n |-> cmd.n] \in Entry /\ cmd.v
      BY PushedEntry DEF ClockWith, Mux!Clock, IInv, KindInv
    <3>2. rf' \in Seq(Entry) /\ DOMAIN rf' = 1..Len(rf')
      BY <3>1, QueueMoves, LenProperties
    <3> SUFFICES ASSUME NEW i \in 1..Len(rf') PROVE rf'[i].m # m
      BY <3>2
    <3> QED
      BY <1>5, <3>1, EntryBefore
  <2>4. /\ cmd'.we => cmd'.wl_left = Due(m) - 1 - 0
        /\ ~cmd'.we => cmd'.n = Due(m)
        /\ 0 < Due(m)
    BY <1>3, <2>1, <2>2
  <2>5. Due(m)' = Due(m)
    BY <1>7 DEF Due
  <2> QED
    BY <1>6, <1>7, <1>8, <1>10, <2>2, <2>3, <2>4, <2>5 DEF Before
<1> QED
  BY <1>9, <1>10

\* The queue holds nothing of m after the clock unless it did before or m's
\* read goes in.
LEMMA StillNoRead ==
    ASSUME IInv, NEW b, ClockWith(b), NEW m \in Waiters,
           \A i \in 1..Len(rf) : rf[i].m # m, ~(Mux!Push(b) /\ cmd.m = m)
    PROVE  \A i \in DOMAIN rf' : rf'[i].m # m
<1>1. /\ Mux!ReadQueue(b, dout) /\ rf \in Seq(Entry)
      /\ (Mux!Push(b) => [m |-> cmd.m, n |-> cmd.n] \in Entry)
  BY PushedEntry DEF ClockWith, Mux!Clock, IInv, KindInv
<1>2. rf' \in Seq(Entry) /\ DOMAIN rf' = 1..Len(rf')
  BY <1>1, QueueMoves, LenProperties
<1> SUFFICES ASSUME NEW i \in 1..Len(rf') PROVE rf'[i].m # m
  BY <1>2
<1> QED
  BY <1>1, EntryBefore

\* A request that is being served is not taken again, and its line stays.
LEMMA HeldStep ==
    ASSUME IInv, NEW b, ClockWith(b), NEW m \in Waiters, Fits(m), Kept(m), ~Finished(m),
           pend[m] \/ busy_m[m]
    PROVE  /\ Fits(m)' /\ Kept(m)' /\ asked'[m] = asked[m] /\ Due(m)' = Due(m)
           /\ ~Mux!Accepts(rq, m)
           /\ got'[m] = IF \/ Mux!Take(b) /\ cmd.we /\ cmd.m = m
                           \/ ack_q'[m] /\ ~asked[m].we
                        THEN got[m] + 1 ELSE got[m]
<1>1. rq[m] = line[m] /\ m \in Mux!Masters /\ m # "FBR" /\ m \in Requesters
  BY RequesterLine
<1>2. asked[m] # NoRequest
  BY DueIs DEF IInv
<1>3. ~Mux!Accepts(rq, m)
  BY DEF Mux!Accepts
<1>4. /\ asked'[m] = asked[m] /\ waiting'[m] /\ Requests(m)' = Requests(m)
      /\ m \in Pulsers => line'[m] = NoRequest
      /\ m \notin Pulsers => line'[m] = line[m]
      /\ got'[m] = IF \/ Mux!Take(b) /\ cmd.we /\ cmd.m = m
                      \/ ack_q'[m] /\ ~asked[m].we
                   THEN got[m] + 1 ELSE got[m]
  BY LineStep DEF IInv, Kept
<1>5. p'[m] = p[m] /\ (m \notin Pulsers => rq_seen'[m])
  <2>1. Mux!Clock(rq, b, dout)
    BY DEF ClockWith
  <2>2. p'[m] = p[m]
    BY <1>3, <2>1, MuxRegisters
  <2>3. m \notin Pulsers => rq[m] # NoRequest /\ rq_seen[m]
    BY <1>1, <1>2 DEF Kept, Quiet
  <2>4. m \notin Pulsers => rq_seen'[m]
    BY <2>1, <2>3, MuxRegisters
  <2> QED
    BY <2>2, <2>4
<1>6. Fits(m)' /\ Kept(m)'
  BY <1>4, <1>5 DEF Fits, Kept, Quiet
<1> QED
  BY <1>3, <1>4, <1>6 DEF Due

\* A latched request waits, or becomes the command.
LEMMA LatchedStep ==
    ASSUME IInv, NEW b, ClockWith(b), NEW m \in Waiters, Fits(m), Latched(m)
    PROVE  Fits(m)' /\ (Latched(m)' \/ Before(m)')
<1>1. rq[m] = line[m] /\ m \in Mux!Masters /\ m # "FBR" /\ m \in Requesters
  BY RequesterLine
<1>2. ~Before(m) /\ ~Reading(m) /\ ~Finished(m) /\ Kept(m)
  BY DEF Latched, Before, Reading, Finished
<1>3. /\ Due(m) \in 1..4 /\ asked[m] \in Request /\ asked[m] # NoRequest
      /\ m # "RAM" => Due(m) = 1
      /\ asked[m].word = 0
      /\ m = "RAM" => Due(m) = asked[m].words
      /\ m = "RAM" /\ asked[m].we => Due(m) \in {1, 4}
  BY DueIs DEF IInv
<1>4. /\ Fits(m)' /\ Kept(m)' /\ asked'[m] = asked[m] /\ Due(m)' = Due(m)
      /\ ~Mux!Accepts(rq, m)
      /\ got'[m] = IF \/ Mux!Take(b) /\ cmd.we /\ cmd.m = m
                      \/ ack_q'[m] /\ ~asked[m].we
                   THEN got[m] + 1 ELSE got[m]
  BY <1>2, HeldStep DEF Latched
<1>5. /\ ~(cmd.v /\ cmd.m = m) /\ ~Mux!WriteDone(b, m)
      /\ ~Mux!WordOf(dout, m) /\ ~Mux!ReadDone(dout, m)
      /\ \A i \in 1..Len(rf) : rf[i].m # m
  BY <1>2, Wires
<1>6. /\ (pend'[m] <=> ~Mux!LoadsOf(rq, b, m)) /\ ~ack_q'[m] /\ (busy_m'[m] <=> Mux!LoadsOf(rq, b, m))
  <2>1. Mux!Clock(rq, b, dout)
    BY DEF ClockWith
  <2>2. pend[m] /\ ~busy_m[m]
    BY DEF Latched
  <2>3. pend'[m] <=> ~Mux!LoadsOf(rq, b, m)
    BY <2>1, <2>2, MuxRegisters
  <2>4. ~ack_q'[m] /\ (busy_m'[m] <=> Mux!LoadsOf(rq, b, m))
    BY <1>5, <2>1, <2>2, MuxRegisters
  <2> QED
    BY <2>3, <2>4
<1>7. got'[m] = 0
  BY <1>4, <1>5, <1>6 DEF Latched, Mux!Take
<1>9. CASE ~Mux!LoadsOf(rq, b, m)
  BY <1>4, <1>6, <1>7, <1>9 DEF Latched
<1>10. CASE Mux!LoadsOf(rq, b, m)
  <2>2. /\ cmd'.v /\ cmd'.m = m
        /\ cmd'.we = asked[m].we /\ cmd'.addr = asked[m].addr /\ cmd'.word = 0
        /\ cmd'.n = IF m = "RAM" /\ ~asked[m].we THEN asked[m].words ELSE 1
        /\ cmd'.wl_left = IF m = "RAM" /\ asked[m].we /\ asked[m].words = 4 THEN 3 ELSE 0
    BY <1>1, <1>2, <1>3, <1>10, CommandMoves DEF ClockWith, IInv, KindInv, Latched, Kept
  <2>3. \A i \in DOMAIN rf' : rf'[i].m # m
    BY <1>5, StillNoRead DEF Mux!Push, Mux!Take
  <2>4. /\ cmd'.we => cmd'.wl_left = Due(m) - 1 - 0
        /\ ~cmd'.we => cmd'.n = Due(m)
        /\ 0 < Due(m)
    BY <1>3, <2>2
  <2> QED
    BY <1>4, <1>6, <1>7, <1>10, <2>2, <2>3, <2>4 DEF Before
<1> QED
  BY <1>9, <1>10

\* The command in front of the bridge waits, or the bridge takes it or one of its
\* doublewords.
LEMMA BeforeStep ==
    ASSUME IInv, NEW b, ClockWith(b), NEW m \in Waiters, Fits(m), Before(m)
    PROVE  /\ Fits(m)' /\ (Before(m)' \/ Reading(m)' \/ Done(m)')
           /\ Mux!Push(b) => Reading(m)' /\ got'[m] = got[m]
           /\ asked'[m] = asked[m] /\ Due(m)' = Due(m)
<1>1. rq[m] = line[m] /\ m \in Mux!Masters /\ m # "FBR" /\ m \in Requesters
  BY RequesterLine
<1>2. ~Reading(m) /\ ~Finished(m) /\ Kept(m) /\ ~pend[m] /\ busy_m[m] /\ cmd.v /\ cmd.m = m
  <2>1. cmd.v /\ cmd.m = m /\ ~ack_q[m] /\ Kept(m) /\ ~pend[m] /\ busy_m[m]
    BY DEF Before
  <2> QED
    BY <2>1 DEF Reading, Finished
<1>3. /\ Due(m) \in 1..4 /\ asked[m] \in Request /\ asked[m] # NoRequest
      /\ m # "RAM" => Due(m) = 1
      /\ asked[m].word = 0
      /\ m = "RAM" => Due(m) = asked[m].words
      /\ m = "RAM" /\ asked[m].we => Due(m) \in {1, 4}
  BY DueIs DEF IInv
<1>4. /\ Fits(m)' /\ Kept(m)' /\ asked'[m] = asked[m] /\ Due(m)' = Due(m)
      /\ ~Mux!Accepts(rq, m)
      /\ got'[m] = IF \/ Mux!Take(b) /\ cmd.we /\ cmd.m = m
                      \/ ack_q'[m] /\ ~asked[m].we
                   THEN got[m] + 1 ELSE got[m]
  BY <1>2, HeldStep
<1>5. /\ ~Mux!WordOf(dout, m) /\ ~Mux!ReadDone(dout, m)
      /\ \A i \in 1..Len(rf) : rf[i].m # m
  BY <1>2, Wires
<1>6. ~Mux!LoadsOf(rq, b, m)
  <2>1. ~Mux!Cand(rq, m)
    BY <1>1, <1>2, CandidateIs
  <2> QED
    BY <1>1, <2>1, CommandMoves DEF ClockWith, IInv, KindInv
<1>7. /\ ~pend'[m] /\ (ack_q'[m] <=> Mux!WriteDone(b, m)) /\ (busy_m'[m] <=> ~Mux!WriteDone(b, m))
      /\ m = "RAM" => ram_last_q'
  <2>1. Mux!Clock(rq, b, dout)
    BY DEF ClockWith
  <2>3. ~pend'[m]
    BY <1>2, <1>4, <2>1, MuxRegisters
  <2>4. (ack_q'[m] <=> Mux!WriteDone(b, m)) /\ (busy_m'[m] <=> ~Mux!WriteDone(b, m))
    BY <1>2, <1>5, <1>6, <2>1, MuxRegisters
  <2>5. m = "RAM" => ram_last_q'
    BY <1>5, <2>1, MuxRegisters
  <2> QED
    BY <2>3, <2>4, <2>5
<1>8. got[m] \in Nat /\ cmd.wl_left \in Nat /\ cmd.word \in Nat
  BY <1>1 DEF IInv, KindInv
<1>9. CASE ~Mux!Take(b)
  <2>1. cmd' = cmd
    BY <1>1, <1>2, <1>9, CommandMoves DEF ClockWith, IInv, KindInv
  <2>2. ~Mux!WriteDone(b, m) /\ ~Mux!Push(b)
    BY <1>9 DEF Mux!WriteDone, Mux!Push
  <2>3. \A i \in DOMAIN rf' : rf'[i].m # m
    BY <1>5, <2>2, StillNoRead
  <2>4. got'[m] = got[m]
    BY <1>4, <1>7, <1>9, <2>2
  <2>5. Before(m)'
    BY <1>4, <1>7, <2>1, <2>2, <2>3, <2>4 DEF Before
  <2> QED
    BY <1>4, <2>2, <2>5
<1>10. CASE Mux!Take(b) /\ Mux!WlCont
  <2>1. cmd' = [cmd EXCEPT !.word = @ + 1, !.wl_left = @ - 1]
    BY <1>1, <1>10, CommandMoves DEF ClockWith, IInv, KindInv
  <2>2. ~Mux!WriteDone(b, m) /\ ~Mux!Push(b) /\ cmd.we /\ cmd.wl_left # 0
    BY <1>10 DEF Mux!WriteDone, Mux!Push, Mux!WlCont
  <2>3. \A i \in DOMAIN rf' : rf'[i].m # m
    BY <1>5, <2>2, StillNoRead
  <2>4. got'[m] = got[m] + 1
    BY <1>2, <1>4, <1>10, <2>2
  <2>5. /\ cmd'.v = cmd.v /\ cmd'.m = cmd.m /\ cmd'.we = cmd.we /\ cmd'.addr = cmd.addr
        /\ cmd'.word = cmd.word + 1 /\ cmd'.wl_left = cmd.wl_left - 1
    BY <2>1 DEF IInv, KindInv
  <2>6. cmd.word = got[m] /\ cmd.wl_left = Due(m) - 1 - got[m] /\ got[m] < Due(m)
    BY <2>2 DEF Before
  <2>7. got'[m] < Due(m) /\ cmd'.word = got'[m] /\ cmd'.wl_left = Due(m) - 1 - got'[m]
    BY <1>3, <1>8, <2>2, <2>4, <2>5, <2>6
  <2>8. Before(m)'
    BY <1>4, <1>7, <2>2, <2>3, <2>5, <2>7 DEF Before
  <2> QED
    BY <1>4, <2>2, <2>8
<1>11. CASE Mux!Take(b) /\ ~Mux!WlCont /\ cmd.we
  <2>1. Mux!WriteDone(b, m)
    BY <1>2, <1>11 DEF Mux!WriteDone
  <2>2. got'[m] = got[m] + 1
    BY <1>2, <1>4, <1>11
  <2>3. got[m] = Due(m) - 1
    <3>1. cmd.wl_left = Due(m) - 1 - got[m] /\ got[m] < Due(m)
      BY <1>11 DEF Before
    <3>2. m = "RAM" => cmd.wl_left = 0
      BY <1>2, <1>11 DEF Mux!WlCont
    <3> QED
      BY <1>3, <1>8, <3>1, <3>2
  <2>4. got'[m] = Due(m) /\ asked[m].we
    BY <1>3, <2>2, <2>3, <1>11 DEF Before
  <2>5. Done(m)'
    BY <1>4, <1>7, <2>1, <2>4 DEF Done
  <2> QED
    BY <1>4, <1>11, <2>5 DEF Mux!Push
<1>12. CASE Mux!Take(b) /\ ~cmd.we
  <2>1. ~Mux!WriteDone(b, m) /\ Mux!Push(b) /\ ~Mux!WlCont
    BY <1>12 DEF Mux!WriteDone, Mux!Push, Mux!WlCont
  <2>2. ~(cmd'.v /\ cmd'.m = m)
    BY <1>1, <1>6, <1>12, <2>1, CommandMoves DEF ClockWith, IInv, KindInv
  <2>3. \E i \in DOMAIN rf' : rf'[i].m = m
    <3>1. /\ Mux!ReadQueue(b, dout) /\ rf \in Seq(Entry)
          /\ (Mux!Push(b) => [m |-> cmd.m, n |-> cmd.n] \in Entry)
      BY PushedEntry DEF ClockWith, Mux!Clock, IInv, KindInv
    <3>2. rf' \in Seq(Entry) /\ DOMAIN rf' = 1..Len(rf')
      BY <3>1, QueueMoves, LenProperties
    <3>3. \E i \in 1..Len(rf') : rf'[i].m = cmd.m
      BY <2>1, <3>1, EntryAfter
    <3> QED
      BY <1>2, <3>2, <3>3
  <2>4. ~asked[m].we /\ got[m] = 0
    BY <1>12 DEF Before
  <2>5. got'[m] = got[m]
    BY <1>4, <1>7, <1>12, <2>1
  <2>6. Reading(m)'
    BY <1>3, <1>4, <1>7, <2>1, <2>2, <2>3, <2>4, <2>5 DEF Reading
  <2> QED
    BY <1>4, <2>5, <2>6
<1> QED
  BY <1>9, <1>10, <1>11, <1>12

\* A queued read waits, or the bridge answers one of its words.
LEMMA ReadingStep ==
    ASSUME IInv, NEW b, ClockWith(b), NEW m \in Waiters, Fits(m), Reading(m)
    PROVE  /\ Fits(m)' /\ (Reading(m)' \/ Done(m)') /\ (Mux!ReadDone(dout, m) => Done(m)')
           /\ (~Mux!ReadDone(dout, m) => Reading(m)')
           /\ got'[m] = IF Mux!WordOf(dout, m) THEN got[m] + 1 ELSE got[m]
           /\ asked'[m] = asked[m]
<1>1. rq[m] = line[m] /\ m \in Mux!Masters /\ m # "FBR" /\ m \in Requesters
  BY RequesterLine
<1>2. ~Before(m) /\ ~Finished(m) /\ Kept(m) /\ ~pend[m] /\ busy_m[m] /\ ~(cmd.v /\ cmd.m = m)
      /\ ~asked[m].we
  BY DEF Reading, Before, Finished
<1>3. /\ Due(m) \in 1..4 /\ (m # "RAM" => Due(m) = 1)
  BY DueIs DEF IInv
<1>4. /\ Fits(m)' /\ Kept(m)' /\ asked'[m] = asked[m] /\ Due(m)' = Due(m)
      /\ ~Mux!Accepts(rq, m)
      /\ got'[m] = IF \/ Mux!Take(b) /\ cmd.we /\ cmd.m = m
                      \/ ack_q'[m] /\ ~asked[m].we
                   THEN got[m] + 1 ELSE got[m]
  BY <1>2, HeldStep
<1>5. ~Mux!WriteDone(b, m)
  BY <1>2, Wires
<1>6. ~Mux!LoadsOf(rq, b, m) /\ ~(cmd'.v /\ cmd'.m = m)
  <2>1. ~Mux!Cand(rq, m)
    BY <1>1, <1>2, CandidateIs
  <2>2. ~Mux!LoadsOf(rq, b, m)
    BY <1>1, <2>1, CommandMoves DEF ClockWith, IInv, KindInv
  <2> QED
    BY <1>1, <1>2, <2>2, CommandMoves DEF ClockWith, IInv, KindInv
<1>7. /\ ~pend'[m] /\ (busy_m'[m] <=> ~Mux!ReadDone(dout, m))
      /\ (ack_q'[m] <=> (m = "RAM" /\ Mux!WordOf(dout, m)) \/ Mux!ReadDone(dout, m))
      /\ ram_last_q' <=> (Mux!WordOf(dout, "RAM") => Mux!WordEnd(dout))
      /\ rdata_q' = IF Mux!Word(dout) THEN dout ELSE rdata_q
  <2>1. Mux!Clock(rq, b, dout)
    BY DEF ClockWith
  <2>3. ~pend'[m]
    BY <1>2, <1>4, <2>1, MuxRegisters
  <2>4. (busy_m'[m] <=> ~Mux!ReadDone(dout, m))
    BY <1>2, <1>5, <1>6, <2>1, MuxRegisters
  <2>5. /\ (ack_q'[m] <=> (m = "RAM" /\ Mux!WordOf(dout, m)) \/ Mux!ReadDone(dout, m))
    BY <1>5, <2>1, MuxRegisters
  <2>6. /\ ram_last_q' <=> (Mux!WordOf(dout, "RAM") => Mux!WordEnd(dout))
        /\ rdata_q' = IF Mux!Word(dout) THEN dout ELSE rdata_q
    BY <2>1, MuxRegisters
  <2> QED
    BY <2>3, <2>4, <2>5, <2>6
<1>8. got[m] \in Nat /\ got[m] < Due(m)
  BY <1>1 DEF IInv, KindInv, Reading
<1>9. Mux!ReadDone(dout, m) <=> Mux!WordOf(dout, m) /\ Mux!WordEnd(dout)
  BY DEF Mux!ReadDone, Mux!WordOf, Mux!WordEnd
<1>10. /\ Mux!ReadQueue(b, dout) /\ rf \in Seq(Entry)
       /\ (Mux!Push(b) => [m |-> cmd.m, n |-> cmd.n] \in Entry)
  BY PushedEntry DEF ClockWith, Mux!Clock, IInv, KindInv
<1>11. rf' \in Seq(Entry) /\ DOMAIN rf' = 1..Len(rf') /\ DOMAIN rf = 1..Len(rf)
  BY <1>10, QueueMoves, LenProperties
<1>12. CASE Mux!WordOf(dout, m)
  <2>1. /\ dout = [who |-> m, addr |-> asked[m].addr, word |-> got[m]]
        /\ rf[1].n = Due(m) - got[m] /\ rf[1].m = m
        /\ Mux!WordEnd(dout) <=> rf[1].n <= 1
    BY <1>12, WordIsNext
  <2>2. got'[m] = got[m] + 1
    <3>1. ack_q'[m]
      BY <1>3, <1>7, <1>8, <1>9, <1>12, <2>1
    <3> QED
      BY <1>2, <1>4, <3>1
  <2>3. Given(m)'
    <3>1. rdata_q' = dout /\ got'[m] - 1 = got[m]
      BY <1>7, <1>8, <1>12, <2>2 DEF Mux!WordOf
    <3> QED
      BY <1>4, <2>1, <3>1 DEF Given
  <2>4. CASE Mux!WordEnd(dout)
    <3>1. got'[m] = Due(m)
      BY <1>3, <1>8, <2>1, <2>2, <2>4
    <3>2. ack_q'[m] /\ ~busy_m'[m] /\ (m = "RAM" => ram_last_q')
      BY <1>7, <1>9, <1>12, <2>4
    <3> QED
      BY <1>4, <1>7, <1>9, <1>12, <2>2, <2>3, <2>4, <3>1, <3>2 DEF Done
  <2>5. CASE ~Mux!WordEnd(dout)
    <3>1. got'[m] < Due(m) /\ m = "RAM"
      BY <1>3, <1>8, <2>1, <2>2, <2>5
    <3>2. busy_m'[m] /\ ~ram_last_q'
      BY <1>7, <1>9, <1>12, <2>5, <3>1
    <3>3. \E i \in DOMAIN rf' : rf'[i].m = m
      <4>1. PICK j \in 1..Len(rf) : rf[j].m = m
        BY <1>11 DEF Reading
      <4>2. \E i \in 1..Len(rf') : rf'[i].m = rf[j].m
        BY <1>10, <2>5, EntryAfter
      <4> QED
        BY <1>11, <4>1, <4>2
    <3> QED
      BY <1>2, <1>4, <1>6, <1>7, <1>9, <2>2, <2>3, <2>5, <3>1, <3>2, <3>3 DEF Reading
  <2> QED
    BY <2>4, <2>5
<1>13. CASE ~Mux!WordOf(dout, m)
  <2>1. ~ack_q'[m] /\ busy_m'[m] /\ got'[m] = got[m]
    BY <1>2, <1>4, <1>7, <1>9, <1>13, Wires DEF Mux!Take
  <2>2. \E i \in DOMAIN rf' : rf'[i].m = m
    <3>1. PICK j \in 1..Len(rf) : rf[j].m = m
      BY <1>11 DEF Reading
    <3>2. ~(Mux!WordEnd(dout) /\ j = 1)
      <4>1. Mux!Word(dout) => Head(rf) = rf[1]
        BY <1>10, HeadEntry DEF Mux!Word
      <4> QED
        BY <1>13, <3>1, <4>1 DEF Mux!WordOf, Mux!WordEnd
    <3>3. \E i \in 1..Len(rf') : rf'[i].m = rf[j].m
      BY <1>10, <3>2, EntryAfter
    <3> QED
      BY <1>11, <3>1, <3>3
  <2>3. ~asked'[m].we /\ got'[m] < Due(m)'
    BY <1>2, <1>4, <1>8, <2>1
  <2>4. Reading(m)'
    BY <1>4, <1>6, <1>7, <2>1, <2>2, <2>3 DEF Reading
  <2> QED
    BY <1>4, <1>9, <1>13, <2>1, <2>4
<1> QED
  BY <1>12, <1>13

\* An answered master goes on.
LEMMA DoneStep ==
    ASSUME IInv, NEW b, ClockWith(b), NEW m \in Waiters, Fits(m), Done(m)
    PROVE  RIdle(m)' \/ (Fits(m)' /\ OnWire(m)')
<1>1. rq[m] = line[m] /\ m \in Mux!Masters /\ m # "FBR" /\ m \in Requesters
  BY RequesterLine
<1>2. ~Before(m) /\ ~Reading(m) /\ Finished(m) /\ ~pend[m] /\ ~busy_m[m] /\ Kept(m) /\ ack_q[m]
  BY DEF Done, Before, Reading, Finished
<1>3. ~Mux!Accepts(rq, m) /\ ~Mux!Cand(rq, m)
  <2>1. m \in Pulsers => rq[m] = NoRequest
    BY <1>1, <1>2 DEF Kept, Quiet
  <2>2. m \notin Pulsers => rq[m] = p[m] /\ rq_seen[m]
    BY <1>1, <1>2 DEF Kept, Quiet
  <2>3. ~Mux!Accepts(rq, m)
    BY <1>2, <2>1, <2>2 DEF Mux!Accepts
  <2> QED
    BY <1>1, <1>2, <2>3, CandidateIs
<1>4. ~Mux!LoadsOf(rq, b, m)
  BY <1>1, <1>3, CommandMoves DEF ClockWith, IInv, KindInv
<1>5. /\ ~(cmd.v /\ cmd.m = m) /\ ~Mux!WriteDone(b, m)
      /\ ~Mux!WordOf(dout, m) /\ ~Mux!ReadDone(dout, m)
  BY <1>2, Wires
<1>6. ~pend'[m] /\ ~busy_m'[m] /\ ~ack_q'[m]
  BY <1>2, <1>3, <1>4, <1>5, MuxRegisters DEF ClockWith
<1>7. KindInv
  BY DEF IInv
<1>8. CASE line'[m] # NoRequest
  <2>1. /\ asked'[m] = line'[m] /\ waiting'[m] /\ got'[m] = 0 /\ line'[m] \in Requests(m)
        /\ Requests(m)' = Requests(m)
    BY <1>2, <1>7, <1>8, LineStep
  <2>2. asked'[m].word = 0
    BY <1>1, <1>7, <2>1, RequestsFit DEF KindInv
  <2> QED
    BY <1>6, <2>1, <2>2 DEF OnWire, Fits
<1>9. CASE line'[m] = NoRequest
  <2>1. asked'[m] = asked[m] /\ ~waiting'[m]
    BY <1>2, <1>7, <1>9, LineStep
  <2>2. got'[m] = got[m]
    BY <1>5, <1>6, <1>7, <1>9, LineStep DEF Mux!Take
  <2>3. got[m] = Due(m)
    BY DEF Done
  <2> QED
    BY <1>6, <1>9, <2>1, <2>2, <2>3 DEF RIdle, Due
<1> QED
  BY <1>8, <1>9

\* Every waiting master is in one of the places after the clock.
LEMMA WhereStep ==
    ASSUME IInv, NEW b, ClockWith(b)
    PROVE  WhereInv'
<1> SUFFICES ASSUME NEW m \in Waiters
             PROVE  \/ RIdle(m)'
                    \/ Fits(m)' /\ (OnWire(m)' \/ Latched(m)' \/ Before(m)' \/ Reading(m)' \/ Done(m)')
  BY DEF WhereInv
<1>1. CASE RIdle(m)
  BY <1>1, IdleStep
<1>2. CASE Fits(m) /\ OnWire(m)
  BY <1>2, WireStep
<1>3. CASE Fits(m) /\ Latched(m)
  BY <1>3, LatchedStep
<1>4. CASE Fits(m) /\ Before(m)
  BY <1>4, BeforeStep
<1>5. CASE Fits(m) /\ Reading(m)
  BY <1>5, ReadingStep
<1>6. CASE Fits(m) /\ Done(m)
  BY <1>6, DoneStep
<1> QED
  BY <1>1, <1>2, <1>3, <1>4, <1>5, <1>6 DEF IInv, WhereInv

\* The command in front of the bridge is one its master waits for.
LEMMA CommandStep ==
    ASSUME IInv, NEW b, ClockWith(b)
    PROVE  \A m \in Waiters : cmd'.v /\ cmd'.m = m => Before(m)'
<1> SUFFICES ASSUME NEW m \in Waiters, cmd'.v, cmd'.m = m PROVE Before(m)'
  OBVIOUS
<1>1. m \in Mux!Masters /\ m # "FBR"
  BY RequesterLine
<1>2. Mux!Clock(rq, b, dout) /\ rr \in 0..2
  BY DEF ClockWith, IInv, KindInv
<1>3. Mux!LoadsOf(rq, b, m) \/ (cmd.v /\ cmd.m = m /\ ~(Mux!Take(b) /\ ~Mux!WlCont))
  BY <1>1, <1>2, CommandMoves
<1>4. Mux!LoadsOf(rq, b, m) => Mux!Cand(rq, m) /\ ~pend'[m]
  BY <1>1, <1>2, CommandMoves, MuxRegisters
<1>5. CASE RIdle(m)
  <2>1. ~Before(m) /\ rq[m] = NoRequest /\ ~pend[m]
    BY <1>5, RequesterLine DEF RIdle, Before, Kept
  <2>2. ~Mux!Cand(rq, m)
    BY <1>1, <2>1, CandidateIs DEF Mux!Accepts
  <2> QED
    BY <1>3, <1>4, <2>1, <2>2, Wires
<1>6. CASE Fits(m) /\ OnWire(m)
  <2>1. ~Before(m) /\ (Latched(m)' \/ Before(m)')
    BY <1>6, WireStep DEF OnWire, Before
  <2> QED
    BY <1>3, <1>4, <2>1, Wires DEF Latched
<1>7. CASE Fits(m) /\ Latched(m)
  <2>1. ~Before(m) /\ (Latched(m)' \/ Before(m)')
    BY <1>7, LatchedStep DEF Latched, Before
  <2> QED
    BY <1>3, <1>4, <2>1, Wires DEF Latched
<1>8. CASE Fits(m) /\ Before(m)
  <2>1. Before(m)' \/ Reading(m)' \/ Done(m)'
    BY <1>8, BeforeStep
  <2>2. ~Reading(m)'
    BY DEF Reading
  <2>3. ~Reading(m) /\ busy_m[m]
    BY <1>8 DEF Before, Reading
  <2>4. ~Mux!LoadsOf(rq, b, m)
    BY <1>1, <1>4, <2>3, CandidateIs
  <2>5. ~Mux!WriteDone(b, m)
    BY <1>3, <2>4 DEF Mux!WriteDone
  <2>6. busy_m'[m]
    BY <1>2, <2>3, <2>5, MuxRegisters, Wires
  <2> QED
    BY <2>1, <2>2, <2>6 DEF Done
<1>9. CASE Fits(m) /\ Reading(m)
  <2>1. ~Before(m) /\ busy_m[m]
    BY <1>9 DEF Before, Reading
  <2>2. ~Mux!Cand(rq, m)
    BY <1>1, <2>1, CandidateIs
  <2> QED
    BY <1>3, <1>4, <2>1, <2>2, Wires
<1>10. CASE Fits(m) /\ Done(m)
  <2>1. ~Before(m) /\ ~pend[m] /\ Kept(m) /\ ack_q[m]
    BY <1>10 DEF Before, Done
  <2>2. m \in Pulsers => rq[m] = NoRequest
    BY <2>1, RequesterLine DEF Kept, Quiet
  <2>3. m \notin Pulsers => rq[m] = p[m] /\ rq_seen[m]
    BY <2>1, RequesterLine DEF Kept, Quiet
  <2>4. ~Mux!Accepts(rq, m)
    BY <2>1, <2>2, <2>3 DEF Mux!Accepts
  <2>5. ~Mux!Cand(rq, m)
    BY <1>1, <2>1, <2>4, CandidateIs
  <2> QED
    BY <1>3, <1>4, <2>1, <2>5, Wires
<1> QED
  BY <1>5, <1>6, <1>7, <1>8, <1>9, <1>10 DEF IInv, WhereInv

\* The beacon only writes.
LEMMA BeaconStep ==
    ASSUME IInv, NEW b, ClockWith(b)
    PROVE  /\ cmd'.v /\ cmd'.m = "BCN" => cmd'.we
           /\ pend'["BCN"] => p'["BCN"].we
<1>1. "BCN" \in Mux!Masters /\ "BCN" \in Waiters \cup {"BCN"} /\ "BCN" \in Requesters /\ "BCN" # "RAM"
  BY DEF Mux!Masters, Requesters
<1>2. Mux!Clock(rq, b, dout) /\ rr \in 0..2 /\ load \in Loads
      /\ cmd \in [v : BOOLEAN, m : Mux!Masters, we : BOOLEAN, addr : Nat, word : Nat,
                  n : Nat, wl_left : Nat]
  BY DEF ClockWith, IInv, KindInv
<1>3. rq["BCN"] = line["BCN"] /\ line["BCN"] \in Requests("BCN") \cup {NoRequest}
  BY <1>1 DEF rq, IInv, KindInv
<1>4. rq["BCN"] # NoRequest => rq["BCN"].we
  BY <1>1, <1>2, <1>3, RequestsFit
<1>5. pend["BCN"] => p["BCN"].we
  BY DEF IInv, CmdInv
<1>6. pend'["BCN"] => p'["BCN"].we
  BY <1>1, <1>2, <1>4, <1>5, MuxRegisters DEF Mux!Accepts
<1>7. ASSUME cmd'.v, cmd'.m = "BCN" PROVE cmd'.we
  <2>1. CASE Mux!LoadsOf(rq, b, "BCN")
    <3>1. pend["BCN"] /\ cmd'.we = p["BCN"].we
      BY <1>1, <1>2, <2>1, CommandMoves, CandidateIs
    <3> QED
      BY <1>5, <3>1
  <2>2. CASE ~Mux!LoadsOf(rq, b, "BCN")
    <3>1. cmd.v /\ cmd.m = "BCN" /\ ~(Mux!Take(b) /\ ~Mux!WlCont)
      BY <1>1, <1>2, <1>7, <2>2, CommandMoves
    <3>2. cmd' = cmd \/ cmd' = [cmd EXCEPT !.word = @ + 1, !.wl_left = @ - 1]
      BY <1>1, <1>2, <3>1, CommandMoves
    <3>3. cmd'.we = cmd.we
      BY <1>2, <3>2
    <3> QED
      BY <3>1, <3>3 DEF IInv, CmdInv
  <2> QED
    BY <2>1, <2>2
<1> QED
  BY <1>6, <1>7

\* The queue holds the reads that are waited for after the clock.
LEMMA QueueStep ==
    ASSUME IInv, NEW b, ClockWith(b)
    PROVE  QueueInv'
<1>1. /\ Mux!ReadQueue(b, dout) /\ rf \in Seq(Entry)
      /\ (Mux!Push(b) => [m |-> cmd.m, n |-> cmd.n] \in Entry)
  BY PushedEntry DEF ClockWith, Mux!Clock, IInv, KindInv
<1>2. rf' \in Seq(Entry) /\ DOMAIN rf' = 1..Len(rf') /\ DOMAIN rf = 1..Len(rf) /\ Len(rf') \in Nat
      /\ Len(rf) \in Nat
  BY <1>1, QueueMoves, LenProperties
<1> SUFFICES ASSUME NEW i \in 1..Len(rf'), NEW m \in Waiters, rf'[i].m = m
             PROVE  /\ Reading(m)' /\ rf'[i].n = Due(m)' - got'[m]
                    /\ \A k \in 1..Len(rf') : rf'[k].m = m => k = i
  BY <1>2 DEF QueueInv
<1> DEFINE From(k, j) == /\ j = IF Mux!WordEnd(dout) THEN k + 1 ELSE k
                         /\ j \in 1..Len(rf)
                         /\ rf'[k].m = rf[j].m
                         /\ rf'[k].n = IF Mux!Word(dout) /\ j = 1 THEN rf[j].n - 1 ELSE rf[j].n
           Pushed(k) == /\ Mux!Push(b) /\ rf'[k] = [m |-> cmd.m, n |-> cmd.n]
                        /\ k = Len(rf')
<1>3. m \in Waiters
  OBVIOUS
<1>4. ASSUME NEW k \in 1..Len(rf') PROVE (\E j : From(k, j)) \/ Pushed(k)
  BY <1>1, EntryBefore
<1>5. ASSUME NEW j, NEW k \in 1..Len(rf'), From(k, j), rf'[k].m = m
      PROVE  /\ Reading(m) /\ Fits(m) /\ rf[j].n = Due(m) - got[m]
             /\ \A l \in 1..Len(rf) : rf[l].m = m => l = j
  <2>1. j \in 1..Len(rf) /\ rf[j].m = m
    BY <1>5
  <2>2. Reading(m) /\ rf[j].n = Due(m) - got[m]
    BY <1>2, <2>1 DEF IInv, QueueInv
  <2>3. \A l \in 1..Len(rf) : rf[l].m = m => l = j
    BY <1>2, <2>1 DEF IInv, QueueInv
  <2>4. Fits(m)
    BY <1>3, <2>2 DEF IInv, WhereInv, RIdle, Reading, Kept
  <2> QED
    BY <2>2, <2>3, <2>4
<1>6. ASSUME NEW k \in 1..Len(rf'), Pushed(k), rf'[k].m = m
      PROVE  Before(m) /\ ~Reading(m) /\ Fits(m) /\ cmd.m = m /\ cmd.n = Due(m)
  <2>1. cmd.m = m
    BY <1>6
  <2>2. Before(m) /\ cmd.n = Due(m)
    BY <1>3, <1>6, <2>1, PushedEntry
  <2>3. ~Reading(m)
    BY <2>2 DEF Before, Reading
  <2>4. Fits(m)
    BY <1>3, <2>2 DEF IInv, WhereInv, RIdle, Before, Kept
  <2> QED
    BY <2>1, <2>2, <2>3, <2>4
<1>7. CASE \E j : From(i, j)
  <2>1. PICK j : From(i, j)
    BY <1>7
  <2>2. /\ Reading(m) /\ Fits(m) /\ rf[j].n = Due(m) - got[m]
        /\ \A l \in 1..Len(rf) : rf[l].m = m => l = j
    BY <1>5, <2>1
  <2>3. j \in 1..Len(rf) /\ rf[j].n \in Nat \ {0} /\ rf[j].m = m
    BY <1>1, <2>1, HeadEntry
  <2>4. Mux!WordOf(dout, m) <=> Mux!Word(dout) /\ j = 1
    <3>1. Mux!Word(dout) => Head(rf) = rf[1] /\ 1 \in 1..Len(rf)
      BY <1>1, HeadEntry DEF Mux!Word
    <3> QED
      BY <2>2, <2>3, <3>1 DEF Mux!WordOf
  <2>5. ~Mux!ReadDone(dout, m)
    <3>1. ~(Mux!WordEnd(dout) /\ j = 1)
      BY <1>2, <2>1
    <3> QED
      BY <2>4, <3>1 DEF Mux!ReadDone, Mux!WordOf, Mux!WordEnd
  <2>6. /\ Reading(m)'
        /\ got'[m] = IF Mux!WordOf(dout, m) THEN got[m] + 1 ELSE got[m]
        /\ asked'[m] = asked[m]
    BY <1>3, <2>2, <2>5, ReadingStep
  <2>7. Due(m)' = Due(m) /\ Due(m) \in 1..4 /\ got[m] \in Nat
    BY <1>3, <2>2, <2>6, DueIs DEF Due, IInv, KindInv, Waiters
  <2>8. rf'[i].n = Due(m)' - got'[m]
    <3>1. CASE Mux!WordOf(dout, m)
      <4>1. rf'[i].n = rf[j].n - 1 /\ got'[m] = got[m] + 1
        BY <2>1, <2>4, <2>6, <3>1
      <4> QED
        BY <2>2, <2>7, <4>1
    <3>2. CASE ~Mux!WordOf(dout, m)
      <4>1. rf'[i].n = rf[j].n /\ got'[m] = got[m]
        BY <2>1, <2>4, <2>6, <3>2
      <4> QED
        BY <2>2, <2>7, <4>1
    <3> QED
      BY <3>1, <3>2
  <2>9. ASSUME NEW k \in 1..Len(rf'), rf'[k].m = m PROVE k = i
    <3>1. ~Pushed(k)
      BY <1>6, <2>2, <2>9
    <3>2. PICK l : From(k, l)
      BY <1>4, <3>1
    <3>3. l = j
      BY <2>2, <2>9, <3>2
    <3> QED
      BY <1>2, <2>1, <3>2, <3>3
  <2> QED
    BY <2>6, <2>8, <2>9
<1>8. CASE Pushed(i)
  <2>1. Before(m) /\ ~Reading(m) /\ Fits(m) /\ cmd.m = m /\ cmd.n = Due(m) /\ ~cmd.we
    BY <1>6, <1>8, PushedEntry
  <2>2. Reading(m)' /\ got'[m] = got[m] /\ Due(m)' = Due(m) /\ got[m] = 0
    BY <1>3, <1>8, <2>1, BeforeStep DEF Before
  <2>3. rf'[i].n = Due(m)' - got'[m]
    <3>1. Due(m) \in 1..4
      BY <1>3, <2>1, DueIs DEF IInv
    <3> QED
      BY <1>8, <2>1, <2>2, <3>1
  <2>4. ASSUME NEW k \in 1..Len(rf'), rf'[k].m = m PROVE k = i
    <3>1. Pushed(k)
      BY <1>4, <1>5, <2>1, <2>4
    <3> QED
      BY <1>8, <3>1
  <2> QED
    BY <2>2, <2>3, <2>4
<1> QED
  BY <1>4, <1>7, <1>8

-----------------------------------------------------------------------------
(* Types.                                                                  *)

\* The display's request, and any other, is a request.
LEMMA PresentedIs ==
    ASSUME FetchInv
    PROVE  /\ rq["FBR"] = IF sel_valid
                          THEN [we |-> FALSE, addr |-> Presented, word |-> fill_pos[Presented],
                                words |-> Fetch!BurstOf(Presented)]
                          ELSE NoRequest
           /\ Presented \in Fetch!Readers /\ Owner \in Fetch!Readers /\ Fetched \in Fetch!Readers
           /\ Presented \in Nat /\ Owner \in Nat /\ Fetched \in Nat
           /\ fill_pos[Presented] \in Nat
           /\ sel_valid => /\ rq["FBR"] \in Request /\ rq["FBR"] # NoRequest
                           /\ Fetch!BurstOf(Presented) \in Nat \ {0}
                           /\ fill_pos[Presented] + Fetch!BurstOf(Presented) <= LineWords
<1>1. /\ Presented \in Fetch!Readers /\ Owner \in Fetch!Readers /\ Fetched \in Fetch!Readers
      /\ Presented \in Nat /\ Owner \in Nat /\ Fetched \in Nat
  BY DEF Presented, Owner, Fetched, Fetch!Reader, Fetch!Readers
<1>2. fill_pos[Presented] \in Nat
  BY <1>1 DEF FetchInv
<1>3. "FBR" \in Mux!Masters
  BY DEF Mux!Masters
<1>4. rq["FBR"] = IF sel_valid
                  THEN [we |-> FALSE, addr |-> Presented, word |-> fill_pos[Presented],
                        words |-> Fetch!BurstOf(Presented)]
                  ELSE NoRequest
  BY <1>3 DEF rq, Fetch!Request, Presented, Fetch!Selected
<1>5. ASSUME sel_valid
      PROVE  /\ rq["FBR"] \in Request /\ rq["FBR"] # NoRequest
             /\ Fetch!BurstOf(Presented) \in Nat \ {0}
             /\ fill_pos[Presented] + Fetch!BurstOf(Presented) <= LineWords
  <2>1. fill_pos[Presented] < LineWords
    BY <1>1, <1>5 DEF FetchInv
  <2>2. /\ Fetch!BurstOf(Presented) \in Nat \ {0}
        /\ fill_pos[Presented] + Fetch!BurstOf(Presented) <= LineWords
    BY <1>2, <2>1, BurstAssumption DEF Fetch!BurstOf
  <2>3. rq["FBR"] \in Request
    BY <1>1, <1>2, <1>4, <1>5, <2>2 DEF Request
  <2> QED
    BY <2>2, <2>3, NoRequestAssumption DEF Request
<1> QED
  BY <1>1, <1>2, <1>4, <1>5

\* Whatever is presented to the muxer is a request.
LEMMA PresentedRequest ==
    ASSUME KindInv, FetchInv, NEW m \in Mux!Masters, rq[m] # NoRequest
    PROVE  rq[m] \in Request
<1>1. CASE m = "FBR"
  BY <1>1, PresentedIs
<1>2. CASE m # "FBR"
  <2>1. m \in Requesters /\ rq[m] = line[m]
    BY <1>2 DEF rq, Mux!Masters, Requesters
  <2>2. line[m] \in Requests(m) /\ load \in Loads
    BY <2>1 DEF KindInv
  <2> QED
    BY <2>1, <2>2, RequestsFit
<1> QED
  BY <1>1, <1>2

\* The kinds of the flags.
LEMMA FlagTypes ==
    ASSUME IInv, NEW b, ClockWith(b)
    PROVE  /\ pend' \in Flags(Mux!Masters) /\ busy_m' \in Flags(Mux!Masters)
           /\ ack_q' \in Flags(Mux!Masters) /\ rq_seen' \in Flags(Mux!Masters)
           /\ ram_last_q' \in BOOLEAN
           /\ p' \in [Mux!Masters -> Request]
           /\ rr' \in 0..2
<1>1. Mux!Clock(rq, b, dout)
  BY DEF ClockWith
<1>2. /\ pend' \in Flags(Mux!Masters) /\ busy_m' \in Flags(Mux!Masters)
      /\ ack_q' \in Flags(Mux!Masters) /\ rq_seen' \in Flags(Mux!Masters)
      /\ ram_last_q' \in BOOLEAN
  BY <1>1 DEF Mux!Clock, Mux!Latch, Mux!Answer, Flags
<1>3. p' \in [Mux!Masters -> Request]
  <2>1. \A m \in Mux!Masters : Mux!Accepts(rq, m) => rq[m] \in Request
    BY PresentedRequest DEF IInv, Mux!Accepts
  <2>2. p \in [Mux!Masters -> Request]
    BY DEF IInv, KindInv
  <2> QED
    BY <1>1, <2>1, <2>2 DEF Mux!Clock, Mux!Latch
<1>4. rr' \in 0..2
  <2>1. CASE Mux!Load(rq, b) /\ Mux!Pick(rq) \in Mux!Range(Mux!Slots)
    <3> DEFINE x == Mux!Pick(rq)
               S == {i \in 1..Len(Mux!Slots) : Mux!Slots[i] = x}
    <3>1. Len(Mux!Slots) = 3 /\ DOMAIN Mux!Slots = 1..3
      BY DEF Mux!Slots
    <3>2. \E i \in 1..3 : Mux!Slots[i] = x
      BY <2>1, <3>1 DEF Mux!Range
    <3>3. S # {} /\ S \subseteq 1..3
      BY <3>1, <3>2
    <3>4. PICK i \in S : \A j \in S : i <= j
      BY <3>3, SMT
    <3>5. Mux!SelectInSeq(Mux!Slots, LAMBDA m : m = x) = Mux!Min(S)
      BY <3>3 DEF Mux!SelectInSeq
    <3>6. Mux!Min(S) \in 1..3
      BY <3>3, <3>4 DEF Mux!Min
    <3>7. rr' = Mux!SelectInSeq(Mux!Slots, LAMBDA m : m = x) - 1
      BY <1>1, <2>1 DEF Mux!Clock, Mux!Command
    <3> QED
      BY <3>5, <3>6, <3>7
  <2>2. CASE ~(Mux!Load(rq, b) /\ Mux!Pick(rq) \in Mux!Range(Mux!Slots))
    <3>1. rr' = rr
      BY <1>1, <2>2 DEF Mux!Clock, Mux!Command
    <3> QED
      BY <3>1 DEF IInv, KindInv
  <2> QED
    BY <2>1, <2>2
<1> QED
  BY <1>2, <1>3, <1>4

\* The kinds of the masters' variables.
LEMMA MasterTypes ==
    ASSUME IInv, NEW b, ClockWith(b)
    PROVE  /\ waiting' \in Flags(Requesters) /\ got' \in [Requesters -> Nat]
           /\ asked' \in [Requesters -> Request]
           /\ \A m \in Requesters : line'[m] \in Requests(m)' \cup {NoRequest}
           /\ DOMAIN line' = Requesters
           /\ load' = load
<1>1. load' = load /\ MastersClock(b) /\ KindInv /\ load \in Loads
  BY DEF ClockWith, IInv, KindInv
<1>2. PICK ram \in NextLine("RAM"), prom \in NextLine("PROM"), fbw \in NextLine("FBW"),
           dl \in NextLine("DL"), bcn \in NextLine("BCN") :
      LET next == [n \in Requesters |->
                     CASE n = "RAM" -> ram [] n = "PROM" -> prom
                       [] n = "FBW" -> fbw [] n = "DL" -> dl [] OTHER -> bcn]
      IN
        /\ line' = next
        /\ asked' = [n \in Requesters |->
                       IF Raised(n, next[n]) THEN next[n] ELSE asked[n]]
        /\ waiting' = [n \in Requesters |->
                         /\ n # "BCN"
                         /\ Raised(n, next[n]) \/ (waiting[n] /\ ~Finished(n))]
        /\ got' = [n \in Requesters |->
                     IF n = "BCN" \/ Raised(n, next[n]) THEN 0
                     ELSE IF \/ Mux!Take(b) /\ cmd.we /\ cmd.m = n
                             \/ ack_q'[n] /\ ~asked[n].we
                          THEN got[n] + 1 ELSE got[n]]
  BY <1>1 DEF MastersClock
<1>3. /\ DOMAIN line' = Requesters
      /\ asked' = [n \in Requesters |-> IF Raised(n, line'[n]) THEN line'[n] ELSE asked[n]]
      /\ waiting' = [n \in Requesters |->
                         /\ n # "BCN"
                         /\ Raised(n, line'[n]) \/ (waiting[n] /\ ~Finished(n))]
      /\ got' = [n \in Requesters |->
                     IF n = "BCN" \/ Raised(n, line'[n]) THEN 0
                     ELSE IF \/ Mux!Take(b) /\ cmd.we /\ cmd.m = n
                             \/ ack_q'[n] /\ ~asked[n].we
                          THEN got[n] + 1 ELSE got[n]]
      /\ line'["BCN"] = bcn
  <2>1. line' = [n \in Requesters |->
                     CASE n = "RAM" -> ram [] n = "PROM" -> prom
                       [] n = "FBW" -> fbw [] n = "DL" -> dl [] OTHER -> bcn]
    BY <1>2, Zenon
  <2>2. line'["BCN"] = bcn
    BY <2>1, Zenon DEF Requesters
  <2>3. DOMAIN line' = Requesters
    BY <2>1, Zenon
  <2> QED
    BY <1>2, <2>1, <2>2, <2>3, Zenon
<1>4. \A m \in Requesters : line'[m] \in Requests(m) \cup {NoRequest}
  <2> TAKE m \in Requesters
  <2>1. CASE m = "BCN"
    BY <1>2, <1>3, <2>1, NextLineIs
  <2>2. CASE m # "BCN"
    <3>1. m \in Waiters
      BY <2>2 DEF Waiters
    <3> QED
      BY <1>1, <3>1, LineStep
  <2> QED
    BY <2>1, <2>2
<1>5. \A m \in Requesters : Requests(m)' = Requests(m)
  BY <1>1, Zenon DEF Requests
<1>6. \A m \in Requesters : line'[m] # NoRequest => line'[m] \in Request
  BY <1>1, <1>4, RequestsFit
<1>7. asked' \in [Requesters -> Request]
  BY <1>1, <1>3, <1>6 DEF Raised, KindInv
<1>8. waiting' \in Flags(Requesters) /\ got' \in [Requesters -> Nat]
  BY <1>1, <1>3 DEF KindInv, Flags
<1> QED
  BY <1>1, <1>3, <1>4, <1>5, <1>7, <1>8

\* The kind of the command.
LEMMA CommandType ==
    ASSUME IInv, NEW b, ClockWith(b)
    PROVE  cmd' \in [v : BOOLEAN, m : Mux!Masters, we : BOOLEAN, addr : Nat, word : Nat,
                     n : Nat, wl_left : Nat]
<1> DEFINE C == [v : BOOLEAN, m : Mux!Masters, we : BOOLEAN, addr : Nat, word : Nat,
                     n : Nat, wl_left : Nat]
<1>1. Mux!Command(rq, b) /\ cmd \in C /\ rr \in 0..2 /\ p \in [Mux!Masters -> Request]
  BY DEF ClockWith, Mux!Clock, IInv, KindInv
<1>2. CASE Mux!Load(rq, b)
  <2> DEFINE m == Mux!Pick(rq)
  <2>1. m \in Mux!Masters /\ Mux!Cand(rq, m) /\ cmd' = Mux!NewCommand(rq)
    BY <1>1, <1>2, PickIsCand DEF Mux!Load, Mux!Command
  <2>2. CASE m = "FBR"
    <3>1. Mux!SubBurst \in Nat /\ fbr.addr \in Nat /\ fbr.nxt \in Nat
      BY SubBurstAssumption DEF IInv, BurstInv, Mux!SubBurst
    <3>2. cmd' = [v |-> TRUE, m |-> m, we |-> FALSE, addr |-> fbr.addr,
                  word |-> fbr.nxt, n |-> Mux!SubBurst, wl_left |-> 0]
      BY <2>1, <2>2 DEF Mux!NewCommand
    <3> QED
      BY <2>1, <3>1, <3>2
  <2>3. CASE m # "FBR"
    <3> DEFINE r == Mux!Chosen(rq, m)
    <3>1. r \in Request
      <4>1. CASE m = "RAM" /\ ~pend[m]
        <5>1. rq[m] # NoRequest
          BY <2>1, <4>1, CandidateIs DEF Mux!Accepts
        <5>2. rq[m] \in Request
          BY <2>1, <5>1, PresentedRequest DEF IInv
        <5> QED
          BY <4>1, <5>2 DEF Mux!Chosen
      <4>2. CASE ~(m = "RAM" /\ ~pend[m])
        BY <1>1, <2>1, <4>2 DEF Mux!Chosen
      <4> QED
        BY <4>1, <4>2
    <3>2. cmd' = [v |-> TRUE, m |-> m, we |-> r.we, addr |-> r.addr, word |-> r.word,
                  n |-> IF m = "RAM" /\ ~r.we THEN r.words ELSE 1,
                  wl_left |-> IF m = "RAM" /\ r.we /\ r.words = 4 THEN 3 ELSE 0]
      BY <2>1, <2>3 DEF Mux!NewCommand
    <3> HIDE DEF r, m
    <3>3. r.we \in BOOLEAN /\ r.addr \in Nat /\ r.word \in Nat /\ r.words \in Nat
      BY <3>1 DEF Request
    <3> QED
      BY <2>1, <3>2, <3>3
  <2> QED
    BY <2>2, <2>3
<1>3. CASE ~Mux!Load(rq, b)
  <2>1. CASE ~Mux!Take(b)
    BY <1>1, <1>3, <2>1 DEF Mux!Command
  <2>2. CASE Mux!Take(b) /\ Mux!WlCont
    <3>1. cmd' = [cmd EXCEPT !.word = @ + 1, !.wl_left = @ - 1] /\ cmd.wl_left # 0
      BY <1>1, <1>3, <2>2 DEF Mux!Command, Mux!WlCont
    <3>2. cmd.word + 1 \in Nat /\ cmd.wl_left - 1 \in Nat
      BY <1>1, <3>1
    <3> QED
      BY <1>1, <3>1, <3>2
  <2>3. CASE Mux!Take(b) /\ ~Mux!WlCont
    <3>1. cmd' = [cmd EXCEPT !.v = FALSE]
      BY <1>1, <1>3, <2>3 DEF Mux!Command
    <3> QED
      BY <1>1, <3>1
  <2> QED
    BY <2>1, <2>2, <2>3
<1> QED
  BY <1>2, <1>3

\* The words the bridge owes.
LEMMA TakenWords ==
    ASSUME IInv, NEW b, Mux!Push(b)
    PROVE  /\ Words(cmd) = Run([m |-> cmd.m, n |-> cmd.n], [addr |-> cmd.addr, word |-> cmd.word])
           /\ [addr |-> cmd.addr, word |-> cmd.word] \in FirstWord
           /\ Words(cmd) \in Seq(OwedWord)
<1>1. cmd.m \in Mux!Masters /\ cmd.addr \in Nat /\ cmd.word \in Nat /\ cmd.n \in Nat
  BY DEF IInv, KindInv
<1>2. Words(cmd) = Run([m |-> cmd.m, n |-> cmd.n], [addr |-> cmd.addr, word |-> cmd.word])
  BY DEF Words, Run
<1>3. Words(cmd) \in [1..cmd.n -> OwedWord]
  BY <1>1 DEF Words, OwedWord
<1>4. Words(cmd) \in Seq(OwedWord)
  BY <1>1, <1>3, SeqDef
<1> QED
  BY <1>1, <1>2, <1>4 DEF FirstWord

\* The kinds of the bridge's variables and of the queue.
LEMMA BridgeTypes ==
    ASSUME IInv, NEW b, ClockWith(b)
    PROVE  rf' \in Seq(Entry) /\ owed' \in Seq(OwedWord) /\ dout' \in OwedWord \cup {NoWord}
<1>1. rf' \in Seq(Entry)
  <2>1. /\ Mux!ReadQueue(b, dout) /\ rf \in Seq(Entry)
        /\ (Mux!Push(b) => [m |-> cmd.m, n |-> cmd.n] \in Entry)
    BY PushedEntry DEF ClockWith, Mux!Clock, IInv, KindInv
  <2> QED
    BY <2>1, QueueMoves
<1> DEFINE taken == IF Mux!Push(b) THEN Words(cmd) ELSE <<>>
<1>2. taken \in Seq(OwedWord)
  <2>1. <<>> \in Seq(OwedWord)
    BY EmptySeq
  <2> QED
    BY <2>1, TakenWords
<1>3. owed \in Seq(OwedWord)
  BY DEF IInv, KindInv
<1>4. \/ owed # <<>> /\ dout' = Head(owed) /\ owed' = Tail(owed) \o taken
      \/ dout' = NoWord /\ owed' = owed \o taken
  BY DEF ClockWith, BridgeClock
<1> HIDE DEF taken
<1>5. CASE owed # <<>> /\ dout' = Head(owed) /\ owed' = Tail(owed) \o taken
  <2>1. Head(owed) \in OwedWord /\ Tail(owed) \in Seq(OwedWord)
    BY <1>3, <1>5, HeadTailProperties
  <2> QED
    BY <1>1, <1>2, <1>5, <2>1, ConcatProperties
<1>6. CASE dout' = NoWord /\ owed' = owed \o taken
  BY <1>1, <1>2, <1>3, <1>6, ConcatProperties
<1> QED
  BY <1>4, <1>5, <1>6

\* Everything is of its kind after the clock.
LEMMA KindStep ==
    ASSUME IInv, NEW b, ClockWith(b)
    PROVE  KindInv'
<1>1. load' \in Loads
  BY MasterTypes DEF IInv, KindInv
<1> QED
  BY <1>1, FlagTypes, MasterTypes, CommandType, BridgeTypes DEF KindInv, Flags

-----------------------------------------------------------------------------
(* The display's side.                                                     *)

LEMMA FillIs ==
    ASSUME NEW r, NEW t, NEW v, NEW f, NEW n \in Fetch!Fill(r, t, v, f)
    PROVE  /\ fst[r] = "F_IDLE" =>
                /\ n.burst_left = burst_left[r]
                /\ \/ n.fst = fst[r] /\ n.fill_pos = fill_pos[r]
                   \/ n.fst = "F_REQ" /\ n.fill_pos = 0
           /\ fst[r] = "F_REQ" /\ Fetch!TakenFor(r, t) =>
                n.fst = "F_DATA" /\ n.burst_left = Fetch!BurstOf(r) /\ n.fill_pos = fill_pos[r]
           /\ fst[r] = "F_DATA" /\ Fetch!ValidFor(r, v) =>
                /\ n.fst = IF burst_left[r] > 1 THEN "F_DATA"
                           ELSE IF fill_pos[r] + 1 >= LineWords THEN "F_IDLE" ELSE "F_REQ"
                /\ n.fill_pos = fill_pos[r] + 1 /\ n.burst_left = burst_left[r] - 1
           /\ fst[r] = "F_REQ" /\ ~Fetch!TakenFor(r, t) => n = Engine(r)
           /\ fst[r] = "F_DATA" /\ ~Fetch!ValidFor(r, v) => n = Engine(r)
<1>0. "F_IDLE" # "F_REQ" /\ "F_IDLE" # "F_DATA" /\ "F_REQ" # "F_DATA"
  OBVIOUS
<1>1. ASSUME fst[r] = "F_IDLE"
      PROVE  /\ n.burst_left = burst_left[r]
             /\ \/ n.fst = fst[r] /\ n.fill_pos = fill_pos[r]
                \/ n.fst = "F_REQ" /\ n.fill_pos = 0
  <2>1. Fetch!Fill(r, t, v, f)
          = IF r \in f THEN {Engine(r), [Engine(r) EXCEPT !.fst = "F_REQ", !.fill_pos = 0]}
            ELSE {Engine(r)}
    BY <1>0, <1>1, Zenon DEF Fetch!Fill, Engine
  <2>2. n = Engine(r) \/ n = [Engine(r) EXCEPT !.fst = "F_REQ", !.fill_pos = 0]
    BY <2>1
  <2>3. CASE n = Engine(r)
    BY <2>3 DEF Engine
  <2>4. CASE n = [Engine(r) EXCEPT !.fst = "F_REQ", !.fill_pos = 0]
    BY <2>4 DEF Engine
  <2> QED
    BY <2>2, <2>3, <2>4
<1>2. ASSUME fst[r] = "F_REQ", Fetch!TakenFor(r, t), fst[r] # "F_IDLE"
      PROVE  n.fst = "F_DATA" /\ n.burst_left = Fetch!BurstOf(r) /\ n.fill_pos = fill_pos[r]
  <2>1. Fetch!Fill(r, t, v, f)
          = {[Engine(r) EXCEPT !.fst = "F_DATA", !.burst_left = Fetch!BurstOf(r)]}
    BY <1>2, Zenon DEF Fetch!Fill, Engine
  <2>2. n = [Engine(r) EXCEPT !.fst = "F_DATA", !.burst_left = Fetch!BurstOf(r)]
    BY <2>1
  <2> QED
    BY <2>2 DEF Engine
<1>3. ASSUME fst[r] = "F_DATA", Fetch!ValidFor(r, v), fst[r] # "F_IDLE", fst[r] # "F_REQ"
      PROVE  n = [fst |-> IF burst_left[r] > 1 THEN "F_DATA"
                          ELSE IF fill_pos[r] + 1 >= LineWords THEN "F_IDLE" ELSE "F_REQ",
                  fill_pos |-> fill_pos[r] + 1, burst_left |-> burst_left[r] - 1]
  <2>1. Fetch!Fill(r, t, v, f)
          = {[fst |-> IF burst_left[r] > 1 THEN "F_DATA"
                      ELSE IF fill_pos[r] + 1 >= LineWords THEN "F_IDLE" ELSE "F_REQ",
              fill_pos |-> fill_pos[r] + 1, burst_left |-> burst_left[r] - 1]}
    BY <1>3, Zenon DEF Fetch!Fill
  <2> QED
    BY <2>1, Zenon
<1>4. ASSUME fst[r] # "F_IDLE", ~(fst[r] = "F_REQ" /\ Fetch!TakenFor(r, t)),
             ~(fst[r] = "F_DATA" /\ Fetch!ValidFor(r, v))
      PROVE  n = Engine(r)
  <2>1. Fetch!Fill(r, t, v, f) = {Engine(r)}
    BY <1>4, Zenon DEF Fetch!Fill, Engine
  <2> QED
    BY <2>1
<1> QED
  BY <1>0, <1>1, <1>2, <1>3, <1>4

\* One fill engine, a clock later.
LEMMA FillStep ==
    ASSUME NEW t, NEW v, NEW f, Fetch!Clock(t, v, f), NEW r \in Fetch!Readers,
           fst[r] \in {"F_IDLE", "F_REQ", "F_DATA"}
    PROVE  /\ DOMAIN fst' = Fetch!Readers /\ DOMAIN fill_pos' = Fetch!Readers
           /\ DOMAIN burst_left' = Fetch!Readers
           /\ fst[r] = "F_IDLE" =>
                /\ burst_left'[r] = burst_left[r]
                /\ \/ fst'[r] = fst[r] /\ fill_pos'[r] = fill_pos[r]
                   \/ fst'[r] = "F_REQ" /\ fill_pos'[r] = 0
           /\ fst[r] = "F_REQ" /\ Fetch!TakenFor(r, t) =>
                /\ fst'[r] = "F_DATA" /\ burst_left'[r] = Fetch!BurstOf(r)
                /\ fill_pos'[r] = fill_pos[r]
           /\ fst[r] = "F_DATA" /\ Fetch!ValidFor(r, v) =>
                /\ fst'[r] = IF burst_left[r] > 1 THEN "F_DATA"
                             ELSE IF fill_pos[r] + 1 >= LineWords THEN "F_IDLE" ELSE "F_REQ"
                /\ fill_pos'[r] = fill_pos[r] + 1 /\ burst_left'[r] = burst_left[r] - 1
           /\ \/ fst[r] = "F_REQ" /\ ~Fetch!TakenFor(r, t)
              \/ fst[r] = "F_DATA" /\ ~Fetch!ValidFor(r, v)
              => /\ fst'[r] = fst[r] /\ fill_pos'[r] = fill_pos[r] /\ burst_left'[r] = burst_left[r]
<1>1. PICK a \in Fetch!Fill(0, t, v, f), c \in Fetch!Fill(1, t, v, f) :
          LET next == [q \in Fetch!Readers |-> IF q = 0 THEN a ELSE c] IN
          /\ fst' = [q \in Fetch!Readers |-> next[q].fst]
          /\ fill_pos' = [q \in Fetch!Readers |-> next[q].fill_pos]
          /\ burst_left' = [q \in Fetch!Readers |-> next[q].burst_left]
  BY DEF Fetch!Clock
<1>2. PICK n \in Fetch!Fill(r, t, v, f) :
          fst'[r] = n.fst /\ fill_pos'[r] = n.fill_pos /\ burst_left'[r] = n.burst_left
  <2>1. r = 0 \/ r = 1
    BY DEF Fetch!Readers
  <2>2. CASE r = 0
    <3>1. fst'[r] = a.fst /\ fill_pos'[r] = a.fill_pos /\ burst_left'[r] = a.burst_left
      BY <1>1, <2>2
    <3> QED
      BY <2>2, <3>1
  <2>3. CASE r = 1
    <3>1. fst'[r] = c.fst /\ fill_pos'[r] = c.fill_pos /\ burst_left'[r] = c.burst_left
      BY <1>1, <2>3
    <3> QED
      BY <2>3, <3>1
  <2> QED
    BY <2>1, <2>2, <2>3
<1>3. /\ DOMAIN fst' = Fetch!Readers /\ DOMAIN fill_pos' = Fetch!Readers
      /\ DOMAIN burst_left' = Fetch!Readers
  BY <1>1
<1>4. \/ fst[r] = "F_REQ" /\ ~Fetch!TakenFor(r, t)
      \/ fst[r] = "F_DATA" /\ ~Fetch!ValidFor(r, v)
      => /\ fst'[r] = fst[r] /\ fill_pos'[r] = fill_pos[r] /\ burst_left'[r] = burst_left[r]
  BY <1>2, FillIs DEF Engine
<1> QED
  BY <1>2, <1>3, <1>4, FillIs

\* The burst the muxer serves, and the wires it depends on.
LEMMA BurstWires ==
    ASSUME IInv, NEW b, ClockWith(b)
    PROVE  /\ Mux!Accepts(rq, "FBR") <=> sel_valid /\ ~fbr.act
           /\ Mux!Push(b) /\ cmd.m = "FBR" <=> Mux!Take(b) /\ FbrCmd
           /\ Mux!LoadsOf(rq, b, "FBR") =>
                /\ fbr.act /\ fbr.isl > 0 /\ ~FbrCmd /\ Mux!SubBurst \in Nat \ {0}
                /\ Mux!SubBurst <= fbr.isl
                /\ cmd'.v /\ cmd'.m = "FBR" /\ ~cmd'.we /\ cmd'.addr = fbr.addr
                /\ cmd'.word = fbr.nxt /\ cmd'.n = Mux!SubBurst
           /\ ~Mux!LoadsOf(rq, b, "FBR") /\ cmd'.v /\ cmd'.m = "FBR" =>
                FbrCmd /\ ~Mux!Take(b) /\ cmd' = cmd
           /\ ~Mux!Accepts(rq, "FBR") =>
                /\ fbr'.addr = fbr.addr
                /\ fbr'.nxt = IF Mux!LoadsOf(rq, b, "FBR") THEN fbr.nxt + Mux!SubBurst ELSE fbr.nxt
                /\ fbr'.isl = IF Mux!LoadsOf(rq, b, "FBR") THEN fbr.isl - Mux!SubBurst ELSE fbr.isl
                /\ fbr'.rxl = IF FbrWord THEN fbr.rxl - 1 ELSE fbr.rxl
                /\ fbr'.act <=> fbr.act /\ ~(FbrWord /\ fbr.rxl <= 1)
                /\ fbr'.first <=> fbr.first /\ ~(Mux!Take(b) /\ FbrCmd)
           /\ Mux!Accepts(rq, "FBR") =>
                /\ fbr'.act /\ fbr'.first /\ fbr'.addr = Presented
                /\ fbr'.nxt = fill_pos[Presented] /\ fbr'.isl = Fetch!BurstOf(Presented)
                /\ fbr'.rxl = Fetch!BurstOf(Presented)
           /\ fbr_taken_q' <=> Mux!Take(b) /\ FbrCmd /\ fbr.first
           /\ ~pend'["FBR"] /\ ~busy_m'["FBR"] /\ ~ack_q'["FBR"]
<1>1. "FBR" \in Mux!Masters /\ Mux!Clock(rq, b, dout) /\ rr \in 0..2 /\ FetchInv /\ BurstInv /\ CmdInv
  BY DEF Mux!Masters, ClockWith, IInv, KindInv
<1>2. FbrCmd => cmd.v /\ cmd.m = "FBR" /\ ~cmd.we
  BY <1>1 DEF BurstInv, FbrCmd, Mux!FbrCommand
<1>3. Mux!Accepts(rq, "FBR") <=> sel_valid /\ ~fbr.act
  BY <1>1, PresentedIs DEF Mux!Accepts, CmdInv
<1>4. (Mux!Push(b) /\ cmd.m = "FBR") <=> (Mux!Take(b) /\ FbrCmd)
  BY <1>2 DEF Mux!Push, Mux!Take, FbrCmd, Mux!FbrCommand
<1>5. ASSUME Mux!LoadsOf(rq, b, "FBR")
      PROVE  /\ fbr.act /\ fbr.isl > 0 /\ ~FbrCmd /\ Mux!SubBurst \in Nat \ {0}
             /\ Mux!SubBurst <= fbr.isl
             /\ cmd'.v /\ cmd'.m = "FBR" /\ ~cmd'.we /\ cmd'.addr = fbr.addr
             /\ cmd'.word = fbr.nxt /\ cmd'.n = Mux!SubBurst
  <2>1. fbr.act /\ fbr.isl > 0 /\ ~FbrCmd
    BY <1>1, <1>5, CommandMoves, CandidateIs DEF FbrCmd
  <2>2. fbr.isl \in Nat
    BY <1>1 DEF BurstInv
  <2>3. Mux!SubBurst \in Nat \ {0} /\ Mux!SubBurst <= fbr.isl
    BY <2>1, <2>2, SubBurstAssumption DEF Mux!SubBurst
  <2> QED
    BY <1>1, <1>5, <2>1, <2>3, CommandMoves
<1>6. ASSUME ~Mux!LoadsOf(rq, b, "FBR"), cmd'.v, cmd'.m = "FBR"
      PROVE  FbrCmd /\ ~Mux!Take(b) /\ cmd' = cmd
  <2>1. cmd.v /\ cmd.m = "FBR" /\ ~(Mux!Take(b) /\ ~Mux!WlCont)
    BY <1>1, <1>6, CommandMoves
  <2>2. FbrCmd /\ ~Mux!WlCont
    BY <2>1 DEF FbrCmd, Mux!FbrCommand, Mux!WlCont
  <2> QED
    BY <1>1, <2>1, <2>2, CommandMoves
<1>7. ASSUME ~Mux!Accepts(rq, "FBR")
      PROVE  /\ fbr'.addr = fbr.addr
             /\ fbr'.nxt = IF Mux!LoadsOf(rq, b, "FBR") THEN fbr.nxt + Mux!SubBurst ELSE fbr.nxt
             /\ fbr'.isl = IF Mux!LoadsOf(rq, b, "FBR") THEN fbr.isl - Mux!SubBurst ELSE fbr.isl
             /\ fbr'.rxl = IF FbrWord THEN fbr.rxl - 1 ELSE fbr.rxl
             /\ fbr'.act <=> fbr.act /\ ~(FbrWord /\ fbr.rxl <= 1)
             /\ fbr'.first <=> fbr.first /\ ~(Mux!Take(b) /\ FbrCmd)
  <2>1. fbr' = [fbr EXCEPT
                  !.nxt = IF Mux!LoadsOf(rq, b, "FBR") THEN @ + Mux!SubBurst ELSE @,
                  !.isl = IF Mux!LoadsOf(rq, b, "FBR") THEN @ - Mux!SubBurst ELSE @,
                  !.rxl = IF FbrWord THEN @ - 1 ELSE @,
                  !.act = @ /\ ~(FbrWord /\ fbr.rxl <= 1),
                  !.out = (@ + Mux!One(Mux!Push(b) /\ cmd.m = "FBR")) - Mux!One(Mux!ReadDone(dout, "FBR")),
                  !.first = @ /\ ~(Mux!Push(b) /\ cmd.m = "FBR")]
    BY <1>1, <1>7 DEF Mux!Clock, Mux!Display, FbrWord
  <2>2. fbr \in [act : BOOLEAN, addr : Nat, nxt : Nat, isl : Nat, rxl : Nat,
                 out : Int, first : BOOLEAN]
    BY <1>1 DEF BurstInv
  <2> QED
    BY <1>4, <2>1, <2>2
<1>8. ASSUME Mux!Accepts(rq, "FBR")
      PROVE  /\ fbr'.act /\ fbr'.first /\ fbr'.addr = Presented
             /\ fbr'.nxt = fill_pos[Presented] /\ fbr'.isl = Fetch!BurstOf(Presented)
             /\ fbr'.rxl = Fetch!BurstOf(Presented)
  <2>1. fbr' = [act |-> TRUE, addr |-> rq["FBR"].addr, nxt |-> rq["FBR"].word,
                isl |-> rq["FBR"].words, rxl |-> rq["FBR"].words,
                out |-> fbr.out, first |-> TRUE]
    BY <1>1, <1>8 DEF Mux!Clock, Mux!Display
  <2>2. rq["FBR"] = [we |-> FALSE, addr |-> Presented, word |-> fill_pos[Presented],
                     words |-> Fetch!BurstOf(Presented)]
    BY <1>1, <1>3, <1>8, PresentedIs
  <2> QED
    BY <2>1, <2>2
<1>9. fbr_taken_q' <=> Mux!Take(b) /\ FbrCmd /\ fbr.first
  BY <1>1, <1>4 DEF Mux!Clock, Mux!Display
<1>10. ~pend'["FBR"] /\ ~busy_m'["FBR"] /\ ~ack_q'["FBR"]
  <2>1. ~Mux!WriteDone(b, "FBR")
    BY <1>2 DEF Mux!WriteDone, Mux!Take, FbrCmd, Mux!FbrCommand
  <2> QED
    BY <1>1, <2>1 DEF Mux!Clock, Mux!Latch, Mux!Answer, CmdInv
<1> QED
  BY <1>3, <1>4, <1>5, <1>6, <1>7, <1>8, <1>9, <1>10

\* A word of the display's stream comes to the reader whose burst is in flight.
LEMMA FbrWordIs ==
    ASSUME IInv, FbrWord
    PROVE  /\ fbr.act /\ busy /\ ~fbr.first /\ ~fbr_taken_q /\ fbr.rxl = left /\ left \in Nat \ {0}
           /\ fst[Owner] = "F_DATA" /\ burst_left[Owner] = left /\ Fetched = Owner
           /\ rf # <<>> /\ 1 \in 1..Len(rf) /\ rf[1].m = "FBR"
           /\ dout = [who |-> "FBR", addr |-> Owner, word |-> fill_pos[Owner]]
<1>1. /\ rf \in Seq(Entry) /\ rf # <<>> /\ dout # NoWord /\ rf[1].m = "FBR" /\ Head(rf) = rf[1]
      /\ 1 \in 1..Len(rf) /\ DOMAIN rf = 1..Len(rf)
  BY HeadEntry, LenProperties DEF IInv, KindInv, FbrWord, Mux!WordOf, Mux!Word
<1>2. fbr.act /\ ~fbr.first
  BY <1>1 DEF IInv, BurstInv
<1>3. ~fbr_taken_q
  BY <1>1 DEF IInv, BurstInv
<1>4. busy
  BY <1>2, <1>3 DEF IInv, BurstInv
<1>5. Owner \in Fetch!Readers /\ Fetched = Owner
  BY <1>4, PresentedIs DEF Fetched, IInv
<1>6. fbr.rxl = left /\ left \in Nat \ {0} /\ fst[Owner] = "F_DATA" /\ burst_left[Owner] = left
  BY <1>4, <1>5 DEF IInv, BurstInv, FetchInv
<1>7. PICK at : /\ Streams(rf, owed, dout, FirstOf(rf, at))
                /\ ChainOf(rf, fill_pos[Fetched], EndOfFbr, at)
  BY <1>2 DEF IInv, StreamInv
<1>8. dout = [who |-> rf[1].m, addr |-> FirstOf(rf, at)[1].addr, word |-> FirstOf(rf, at)[1].word]
  BY <1>1, <1>7, HeadIsOldest DEF IInv, KindInv
<1>9. FirstOf(rf, at)[1] = [addr |-> fbr.addr, word |-> at[1]]
  BY <1>1 DEF FirstOf
<1>10. at[1] = fill_pos[Owner] /\ fbr.addr = Owner
  BY <1>2, <1>5, <1>7 DEF ChainOf, IInv, BurstInv
<1> QED
  BY <1>1, <1>2, <1>3, <1>4, <1>5, <1>6, <1>8, <1>9, <1>10

-----------------------------------------------------------------------------
\* The clock the display's request is acknowledged in.
LEMMA TakenIs ==
    ASSUME IInv, fbr_taken_q
    PROVE  fbr.act /\ ~busy /\ sel_valid /\ ~fbr.first /\ ~FbrWord /\ Fetched = Presented
<1>1. fbr.act /\ ~busy /\ sel_valid /\ ~fbr.first
  BY DEF IInv, BurstInv
<1>2. ~FbrWord
  BY FbrWordIs
<1> QED
  BY <1>1, <1>2 DEF Fetched

\* The words of a burst.
LEMMA BurstIs ==
    ASSUME FetchInv, NEW r \in Fetch!Readers, fst[r] = "F_REQ"
    PROVE  /\ Fetch!BurstOf(r) \in Nat \ {0} /\ fill_pos[r] \in Nat
           /\ fill_pos[r] + Fetch!BurstOf(r) <= LineWords
<1>1. fill_pos[r] \in Nat /\ fill_pos[r] < LineWords
  BY DEF FetchInv
<1> QED
  BY <1>1, BurstAssumption DEF Fetch!BurstOf

\* The fill engines stay what they are, each by itself.
LEMMA EnginesAre ==
    ASSUME NEW t, NEW v, NEW f, Fetch!Clock(t, v, f),
           \A r \in Fetch!Readers : /\ fst'[r] \in {"F_IDLE", "F_REQ", "F_DATA"}
                                    /\ fill_pos'[r] \in Nat /\ burst_left'[r] \in Int
    PROVE  /\ fst' \in [Fetch!Readers -> {"F_IDLE", "F_REQ", "F_DATA"}]
           /\ fill_pos' \in [Fetch!Readers -> Nat] /\ burst_left' \in [Fetch!Readers -> Int]
<1>1. /\ fst' = [r \in Fetch!Readers |-> fst'[r]]
      /\ fill_pos' = [r \in Fetch!Readers |-> fill_pos'[r]]
      /\ burst_left' = [r \in Fetch!Readers |-> burst_left'[r]]
  BY DEF Fetch!Clock
<1> QED
  BY <1>1

\* The display's fetch, in the clock its request is acknowledged.
LEMMA TakenStep ==
    ASSUME IInv, NEW b, ClockWith(b), fbr_taken_q
    PROVE  /\ FetchInv' /\ busy' /\ ~sel_valid' /\ Owner' = Presented
           /\ left' = Fetch!BurstOf(Presented) /\ fill_pos'[Presented] = fill_pos[Presented]
<1> USE DEF Fetch!Readers
<1>1. FetchInv /\ sel_valid /\ ~busy /\ fbr_taken_q = TRUE /\ ~FbrWord
  BY TakenIs DEF IInv, BurstInv, FetchInv
<1>2. Fetch!Clock(fbr_taken_q, FbrWord, load.readers)
  BY DEF ClockWith
<1>3. ~sel_valid' /\ busy' /\ owner_b' = sel_b /\ left' = Fetch!BurstOf(Presented) /\ sel_b' = sel_b
      /\ sel_valid' \in BOOLEAN /\ busy' \in BOOLEAN
  BY <1>1, <1>2 DEF Fetch!Clock, Fetch!Arbitrate, Fetch!Selected, Presented
<1>4. Presented \in Fetch!Readers /\ Owner' = Presented /\ fst[Presented] = "F_REQ"
  BY <1>1, <1>3 DEF Presented, Owner, Fetch!Reader, FetchInv
<1>5. ASSUME NEW r \in Fetch!Readers
      PROVE  /\ r = Presented => /\ fst'[r] = "F_DATA" /\ burst_left'[r] = Fetch!BurstOf(r)
                                 /\ fill_pos'[r] = fill_pos[r]
             /\ r # Presented => /\ fst'[r] \in {"F_IDLE", "F_REQ"}
                                 /\ burst_left'[r] = burst_left[r]
                                 /\ fill_pos'[r] \in {0, fill_pos[r]}
                                 /\ fst'[r] = "F_REQ" => fill_pos'[r] < LineWords
  <2>1. fst[r] \in {"F_IDLE", "F_REQ"}
    BY <1>1 DEF FetchInv
  <2>2. Fetch!TakenFor(r, fbr_taken_q) <=> r = Presented
    BY <1>1 DEF Fetch!TakenFor, Fetch!Selected, Presented
  <2>3. fst[r] = "F_REQ" => fill_pos[r] < LineWords
    BY <1>1 DEF FetchInv
  <2>4. CASE r = Presented
    BY <2>2, <2>4, <1>2, <1>4, FillStep
  <2>5. CASE r # Presented /\ fst[r] = "F_IDLE"
    <3>1. /\ burst_left'[r] = burst_left[r]
          /\ \/ fst'[r] = fst[r] /\ fill_pos'[r] = fill_pos[r]
             \/ fst'[r] = "F_REQ" /\ fill_pos'[r] = 0
      BY <2>5, <1>2, FillStep
    <3> QED
      BY <3>1, <2>5, BurstAssumption
  <2>6. CASE r # Presented /\ fst[r] = "F_REQ"
    BY <2>2, <2>3, <2>6, <1>2, FillStep
  <2> QED
    BY <2>1, <2>4, <2>5, <2>6
<1>7. /\ Fetch!BurstOf(Presented) \in Nat \ {0} /\ fill_pos[Presented] \in Nat
      /\ fill_pos[Presented] + Fetch!BurstOf(Presented) <= LineWords
  BY <1>1, <1>4, BurstIs
<1>8. /\ fst' \in [Fetch!Readers -> {"F_IDLE", "F_REQ", "F_DATA"}]
      /\ fill_pos' \in [Fetch!Readers -> Nat] /\ burst_left' \in [Fetch!Readers -> Int]
  <2>1. fill_pos \in [Fetch!Readers -> Nat] /\ burst_left \in [Fetch!Readers -> Int]
    BY <1>1 DEF FetchInv
  <2>2. ASSUME NEW r \in Fetch!Readers
        PROVE  /\ fst'[r] \in {"F_IDLE", "F_REQ", "F_DATA"} /\ fill_pos'[r] \in Nat
               /\ burst_left'[r] \in Int
    <3>1. CASE r = Presented
      BY <1>5, <1>7, <3>1
    <3>2. CASE r # Presented
      BY <1>5, <2>1, <3>2
    <3> QED
      BY <3>1, <3>2
  <2> QED
    BY <2>2, <1>2, EnginesAre
<1>9. {sel_valid', sel_b', busy', owner_b', fbr_taken_q'} \subseteq BOOLEAN
  <2>1. fbr_taken_q' \in BOOLEAN
    BY DEF ClockWith, Mux!Clock, Mux!Display
  <2> QED
    BY <2>1, <1>1, <1>3 DEF FetchInv
<1>10. \A r \in Fetch!Readers : fst'[r] = "F_DATA" <=> busy' /\ Owner' = r
  BY <1>3, <1>4, <1>5
<1>11. FetchInv'
  BY <1>3, <1>4, <1>5, <1>7, <1>8, <1>9, <1>10 DEF FetchInv
<1> QED
  BY <1>3, <1>4, <1>5, <1>11

\* The display's fetch, in the clock of a word of it.
LEMMA WordStep ==
    ASSUME IInv, NEW b, ClockWith(b), FbrWord
    PROVE  /\ FetchInv' /\ ~sel_valid' /\ Owner' = Owner /\ left' = left - 1
           /\ busy' <=> left > 1
           /\ fill_pos'[Owner] = fill_pos[Owner] + 1
<1> USE DEF Fetch!Readers
<1>1. /\ FetchInv /\ busy /\ ~sel_valid /\ ~fbr_taken_q /\ left \in Nat \ {0}
      /\ fst[Owner] = "F_DATA" /\ burst_left[Owner] = left /\ FbrWord = TRUE
  BY FbrWordIs DEF IInv, FetchInv, FbrWord, Mux!WordOf, Mux!Word
<1>2. Fetch!Clock(fbr_taken_q, FbrWord, load.readers)
  BY DEF ClockWith
<1>3. /\ sel_valid' = sel_valid /\ sel_b' = sel_b /\ owner_b' = owner_b /\ left' = left - 1
      /\ (busy' <=> left > 1) /\ busy' \in BOOLEAN
  <2>1. /\ sel_valid' = sel_valid /\ sel_b' = sel_b /\ owner_b' = owner_b
        /\ left' = (IF busy /\ FbrWord THEN left - 1 ELSE left)
        /\ busy' = (busy /\ ~(FbrWord /\ left <= 1))
    BY <1>1, <1>2 DEF Fetch!Clock, Fetch!Arbitrate
  <2>2. left' = left - 1 /\ (left <= 1 <=> ~(left > 1))
    BY <1>1, <2>1
  <2> QED
    BY <1>1, <2>1, <2>2
<1>4. Owner \in Fetch!Readers /\ Owner' = Owner /\ fill_pos[Owner] \in Nat
      /\ fill_pos[Owner] + left <= LineWords
  BY <1>1, <1>3 DEF Owner, Fetch!Reader, FetchInv
<1>5. ASSUME NEW r \in Fetch!Readers
      PROVE  /\ r = Owner => /\ fst'[r] = IF left > 1 THEN "F_DATA"
                                          ELSE IF fill_pos[r] + 1 >= LineWords THEN "F_IDLE"
                                          ELSE "F_REQ"
                             /\ burst_left'[r] = left - 1
                             /\ fill_pos'[r] = fill_pos[r] + 1
             /\ r # Owner => /\ fst'[r] \in {"F_IDLE", "F_REQ"}
                             /\ burst_left'[r] = burst_left[r]
                             /\ fill_pos'[r] \in {0, fill_pos[r]}
                             /\ fst'[r] = "F_REQ" => fill_pos'[r] < LineWords
  <2>1. /\ r = Owner => fst[r] = "F_DATA"
        /\ r # Owner => fst[r] \in {"F_IDLE", "F_REQ"}
    BY <1>1 DEF FetchInv
  <2>2. ~Fetch!TakenFor(r, fbr_taken_q) /\ (Fetch!ValidFor(r, FbrWord) <=> r = Owner)
    BY <1>1 DEF Fetch!TakenFor, Fetch!ValidFor, Owner
  <2>3. fst[r] = "F_REQ" => fill_pos[r] < LineWords
    BY <1>1 DEF FetchInv
  <2>4. CASE r = Owner
    BY <2>1, <2>2, <2>4, <1>1, <1>2, FillStep
  <2>5. CASE r # Owner /\ fst[r] = "F_IDLE"
    <3>1. /\ burst_left'[r] = burst_left[r]
          /\ \/ fst'[r] = fst[r] /\ fill_pos'[r] = fill_pos[r]
             \/ fst'[r] = "F_REQ" /\ fill_pos'[r] = 0
      BY <2>5, <1>2, FillStep
    <3> QED
      BY <3>1, <2>5, BurstAssumption
  <2>6. CASE r # Owner /\ fst[r] = "F_REQ"
    BY <2>2, <2>3, <2>6, <1>2, FillStep
  <2> QED
    BY <2>1, <2>4, <2>5, <2>6
<1>6. /\ fst' \in [Fetch!Readers -> {"F_IDLE", "F_REQ", "F_DATA"}]
      /\ fill_pos' \in [Fetch!Readers -> Nat] /\ burst_left' \in [Fetch!Readers -> Int]
  <2>1. fill_pos \in [Fetch!Readers -> Nat] /\ burst_left \in [Fetch!Readers -> Int]
    BY <1>1 DEF FetchInv
  <2>2. ASSUME NEW r \in Fetch!Readers
        PROVE  /\ fst'[r] \in {"F_IDLE", "F_REQ", "F_DATA"} /\ fill_pos'[r] \in Nat
               /\ burst_left'[r] \in Int
    <3>1. CASE r = Owner
      BY <1>1, <1>4, <1>5, <3>1
    <3>2. CASE r # Owner
      BY <1>5, <2>1, <3>2
    <3> QED
      BY <3>1, <3>2
  <2> QED
    BY <2>2, <1>2, EnginesAre
<1>7. {sel_valid', sel_b', busy', owner_b', fbr_taken_q'} \subseteq BOOLEAN
  <2>1. fbr_taken_q' \in BOOLEAN
    BY DEF ClockWith, Mux!Clock, Mux!Display
  <2> QED
    BY <2>1, <1>1, <1>3 DEF FetchInv
<1>8. \A r \in Fetch!Readers : fst'[r] = "F_DATA" <=> busy' /\ Owner' = r
  <2> TAKE r \in Fetch!Readers
  <2>1. CASE r = Owner
    BY <2>1, <1>3, <1>4, <1>5
  <2>2. CASE r # Owner
    BY <2>2, <1>4, <1>5
  <2> QED
    BY <2>1, <2>2
<1>9. \A r \in Fetch!Readers : fst'[r] = "F_REQ" => fill_pos'[r] < LineWords
  <2> TAKE r \in Fetch!Readers
  <2>1. CASE r = Owner
    BY <2>1, <1>4, <1>5, BurstAssumption
  <2>2. CASE r # Owner
    BY <2>2, <1>5
  <2> QED
    BY <2>1, <2>2
<1>10. busy' => /\ left' = burst_left'[Owner'] /\ left' \in Nat \ {0}
               /\ fill_pos'[Owner'] + left' <= LineWords
  BY <1>1, <1>3, <1>4, <1>5
<1>11. left' \in Int /\ ~sel_valid'
  BY <1>1, <1>3
<1>12. FetchInv'
  BY <1>6, <1>7, <1>8, <1>9, <1>10, <1>11 DEF FetchInv
<1> QED
  BY <1>3, <1>4, <1>5, <1>11, <1>12

\* The display's fetch, in a clock without either.
LEMMA QuietStep ==
    ASSUME IInv, NEW b, ClockWith(b), ~fbr_taken_q, ~FbrWord
    PROVE  /\ FetchInv' /\ (busy' <=> busy) /\ Owner' = Owner /\ left' = left
           /\ sel_valid => sel_valid' /\ Presented' = Presented
           /\ sel_valid => fill_pos'[Presented] = fill_pos[Presented]
           /\ busy => ~sel_valid' /\ fill_pos'[Owner] = fill_pos[Owner]
<1> USE DEF Fetch!Readers
<1>1. FetchInv /\ FbrWord = FALSE /\ fbr_taken_q = FALSE
  BY DEF IInv, FetchInv, FbrWord, Mux!WordOf, Mux!Word
<1>2. Fetch!Clock(fbr_taken_q, FbrWord, load.readers)
  BY DEF ClockWith
<1>3. /\ owner_b' = owner_b /\ left' = left /\ busy' = busy
      /\ \/ /\ ~sel_valid /\ ~busy /\ \E r \in Fetch!Readers : fst[r] = "F_REQ"
            /\ sel_valid' = TRUE /\ sel_b' = (fst[0] # "F_REQ")
         \/ /\ sel_valid \/ busy \/ \A r \in Fetch!Readers : fst[r] # "F_REQ"
            /\ sel_valid' = sel_valid /\ sel_b' = sel_b
  BY <1>1, <1>2 DEF Fetch!Clock, Fetch!Arbitrate, FetchInv
<1>4. ASSUME NEW r \in Fetch!Readers
      PROVE  /\ fst[r] # "F_IDLE" => /\ fst'[r] = fst[r] /\ burst_left'[r] = burst_left[r]
                                     /\ fill_pos'[r] = fill_pos[r]
             /\ fst[r] = "F_IDLE" => /\ fst'[r] \in {"F_IDLE", "F_REQ"}
                                     /\ burst_left'[r] = burst_left[r]
                                     /\ fill_pos'[r] \in {0, fill_pos[r]}
                                     /\ fst'[r] = "F_REQ" => fill_pos'[r] = 0
  <2>1. fst[r] \in {"F_IDLE", "F_REQ", "F_DATA"}
    BY <1>1 DEF FetchInv
  <2>2. ~Fetch!TakenFor(r, fbr_taken_q) /\ ~Fetch!ValidFor(r, FbrWord)
    BY <1>1 DEF Fetch!TakenFor, Fetch!ValidFor
  <2>3. CASE fst[r] = "F_IDLE"
    <3>1. /\ burst_left'[r] = burst_left[r]
          /\ \/ fst'[r] = fst[r] /\ fill_pos'[r] = fill_pos[r]
             \/ fst'[r] = "F_REQ" /\ fill_pos'[r] = 0
      BY <2>3, <1>2, FillStep
    <3> QED
      BY <3>1, <2>3
  <2>4. CASE fst[r] # "F_IDLE"
    BY <2>1, <2>2, <2>4, <1>2, FillStep
  <2> QED
    BY <2>3, <2>4
<1>5. /\ fst \in [Fetch!Readers -> {"F_IDLE", "F_REQ", "F_DATA"}]
      /\ fill_pos \in [Fetch!Readers -> Nat] /\ burst_left \in [Fetch!Readers -> Int]
  BY <1>1 DEF FetchInv
<1>6. /\ fst' \in [Fetch!Readers -> {"F_IDLE", "F_REQ", "F_DATA"}]
      /\ fill_pos' \in [Fetch!Readers -> Nat] /\ burst_left' \in [Fetch!Readers -> Int]
  <2>2. ASSUME NEW r \in Fetch!Readers
        PROVE  /\ fst'[r] \in {"F_IDLE", "F_REQ", "F_DATA"} /\ fill_pos'[r] \in Nat
               /\ burst_left'[r] \in Int
    BY <1>4, <1>5
  <2> QED
    BY <2>2, <1>2, EnginesAre
<1>7. {sel_valid', sel_b', busy', owner_b', fbr_taken_q'} \subseteq BOOLEAN
  <2>1. fbr_taken_q' \in BOOLEAN
    BY DEF ClockWith, Mux!Clock, Mux!Display
  <2> QED
    BY <2>1, <1>1, <1>3 DEF FetchInv
<1>8. \A r \in Fetch!Readers : fst'[r] = "F_DATA" <=> busy' /\ Owner' = r
  <2>1. Owner' = Owner
    BY <1>3 DEF Owner, Fetch!Reader
  <2>2. ASSUME NEW r \in Fetch!Readers
        PROVE  fst'[r] = "F_DATA" <=> fst[r] = "F_DATA"
    BY <1>4
  <2>3. \A r \in Fetch!Readers : fst[r] = "F_DATA" <=> busy /\ Owner = r
    BY <1>1 DEF FetchInv
  <2> QED
    BY <2>1, <2>2, <2>3, <1>3
<1>9. \A r \in Fetch!Readers : fst'[r] = "F_REQ" => fill_pos'[r] < LineWords
  <2>1. \A r \in Fetch!Readers : fst[r] = "F_REQ" => fill_pos[r] < LineWords
    BY <1>1 DEF FetchInv
  <2> QED
    BY <2>1, <1>4, <1>5, BurstAssumption
<1>10. busy' => /\ left' = burst_left'[Owner'] /\ left' \in Nat \ {0}
               /\ fill_pos'[Owner'] + left' <= LineWords
  <2>1. Owner \in Fetch!Readers /\ Owner' = Owner
    BY <1>3 DEF Owner, Fetch!Reader
  <2>2. busy => /\ left = burst_left[Owner] /\ left \in Nat \ {0}
                /\ fill_pos[Owner] + left <= LineWords /\ fst[Owner] = "F_DATA"
    BY <2>1, <1>1 DEF FetchInv
  <2> QED
    BY <2>1, <2>2, <1>3, <1>4
<1>11. sel_valid' => ~busy' /\ fst'[Presented'] = "F_REQ"
  <2>1. CASE sel_valid
    <3>1. Presented \in Fetch!Readers /\ fst[Presented] = "F_REQ" /\ ~busy
      BY <2>1, <1>1 DEF Presented, Fetch!Reader, FetchInv
    <3>2. Presented' = Presented
      BY <2>1, <1>3 DEF Presented, Fetch!Reader
    <3> QED
      BY <3>1, <3>2, <1>3, <1>4
  <2>2. CASE ~sel_valid /\ sel_valid'
    <3>1. /\ ~busy /\ sel_b' = (fst[0] # "F_REQ") /\ \E r \in Fetch!Readers : fst[r] = "F_REQ"
      BY <2>2, <1>1, <1>3 DEF FetchInv
    <3>2. Presented' = IF fst[0] = "F_REQ" THEN 0 ELSE 1
      BY <3>1 DEF Presented, Fetch!Reader
    <3>3. Presented' \in Fetch!Readers /\ fst[Presented'] = "F_REQ"
      BY <3>1, <3>2
    <3> QED
      BY <3>1, <3>3, <1>3, <1>4
  <2> QED
    BY <2>1, <2>2
<1>12. left' \in Int
  BY <1>1, <1>3 DEF FetchInv
<1>13. FetchInv'
  BY <1>6, <1>7, <1>8, <1>9, <1>10, <1>11, <1>12 DEF FetchInv
<1>14. Owner' = Owner /\ (sel_valid => Presented' = Presented) /\ (sel_valid => sel_valid')
  BY <1>1, <1>3 DEF Owner, Presented, Fetch!Reader, FetchInv
<1>15. sel_valid => fill_pos'[Presented] = fill_pos[Presented]
  <2>1. sel_valid => Presented \in Fetch!Readers /\ fst[Presented] = "F_REQ"
    BY <1>1 DEF Presented, Fetch!Reader, FetchInv
  <2> QED
    BY <2>1, <1>4
<1>16. busy => ~sel_valid' /\ fill_pos'[Owner] = fill_pos[Owner]
  <2>1. busy => Owner \in Fetch!Readers /\ fst[Owner] = "F_DATA" /\ ~sel_valid
    BY <1>1 DEF Owner, Fetch!Reader, FetchInv
  <2> QED
    BY <2>1, <1>1, <1>3, <1>4 DEF FetchInv
<1> QED
  BY <1>3, <1>13, <1>14, <1>15, <1>16

-----------------------------------------------------------------------------
\* Nothing is owed when no read is queued.
LEMMA EmptyOwed ==
    ASSUME NEW q \in Seq(Entry), NEW o \in Seq(OwedWord), NEW first,
           Streams(q, o, NoWord, first), q = <<>>
    PROVE  o = <<>>
<1>1. PICK start : StreamOf(q, o, NoWord, first, start)
  BY DEF Streams
<1>2. Len(q) = 0 /\ Len(o) \in Nat
  BY HeadEntry, LenProperties
<1>3. 1 = Len(o) + 1
  BY <1>1, <1>2 DEF StreamOf, Base
<1> QED
  BY <1>2, <1>3, EmptySeq

\* The bridge's word is taken from the queue in its own clock.
LEMMA RestStream ==
    ASSUME IInv, NEW at, Streams(rf, owed, dout, FirstOf(rf, at))
    PROVE  Rest \in Seq(Entry) /\ Streams(Rest, owed, NoWord, FirstRest(at))
<1>1. rf \in Seq(Entry) /\ owed \in Seq(OwedWord) /\ dout \in OwedWord \cup {NoWord}
  BY DEF IInv, KindInv
<1>2. CASE Mux!Word(dout)
  <2>1. rf # <<>> /\ dout \in OwedWord
    BY <1>1, <1>2 DEF Mux!Word
  <2> QED
    BY <1>1, <1>2, <2>1, WordLeaves, AfterWordIs DEF Rest, FirstRest
<1>3. CASE ~Mux!Word(dout)
  <2>1. dout = NoWord
    BY <1>1, <1>3, HeadIsOldest DEF Mux!Word
  <2> QED
    BY <1>1, <1>3, <2>1 DEF Rest, FirstRest
<1> QED
  BY <1>2, <1>3

\* The entries left are entries of the queue.
LEMMA RestIs ==
    ASSUME IInv, NEW at
    PROVE  /\ rf \in Seq(Entry) /\ Len(rf) \in Nat /\ Len(Rest) \in Nat /\ DOMAIN Rest = 1..Len(Rest)
           /\ Mux!Word(dout) => rf # <<>> /\ 1 \in 1..Len(rf)
           /\ Mux!Word(dout) /\ rf[1].n <= 1 =>
                /\ Len(Rest) = Len(rf) - 1
                /\ \A i \in 1..Len(Rest) :
                      /\ i + 1 \in 1..Len(rf) /\ Rest[i] = rf[i + 1]
                      /\ FirstRest(at)[i] = FirstOf(rf, at)[i + 1]
           /\ Mux!Word(dout) /\ ~(rf[1].n <= 1) =>
                /\ Len(Rest) = Len(rf)
                /\ \A i \in 1..Len(Rest) :
                      /\ i \in 1..Len(rf) /\ Rest[i].m = rf[i].m
                      /\ Rest[i].n = IF i = 1 THEN rf[i].n - 1 ELSE rf[i].n
                      /\ FirstRest(at)[i].addr = FirstOf(rf, at)[i].addr
                      /\ FirstRest(at)[i] = IF i = 1 THEN [FirstOf(rf, at)[1] EXCEPT !.word = @ + 1]
                                            ELSE FirstOf(rf, at)[i]
           /\ ~Mux!Word(dout) => Rest = rf /\ FirstRest(at) = FirstOf(rf, at)
<1>1. rf \in Seq(Entry) /\ Len(rf) \in Nat
  BY HeadEntry DEF IInv, KindInv
<1>2. Mux!Word(dout) => rf # <<>> /\ 1 \in 1..Len(rf)
  BY <1>1, HeadEntry DEF Mux!Word
<1>3. ASSUME Mux!Word(dout), rf[1].n <= 1
      PROVE  /\ Rest \in Seq(Entry) /\ Len(Rest) = Len(rf) - 1
             /\ \A i \in 1..Len(Rest) :
                      /\ i + 1 \in 1..Len(rf) /\ Rest[i] = rf[i + 1]
                      /\ FirstRest(at)[i] = FirstOf(rf, at)[i + 1]
  <2>1. FirstRest(at) = [i \in 1..(Len(rf) - 1) |-> FirstOf(rf, at)[i + 1]]
    BY <1>3 DEF FirstRest, FirstAfter
  <2>2. /\ Rest \in Seq(Entry) /\ Len(Rest) = Len(rf) - 1
        /\ \A i \in 1..(Len(rf) - 1) : Rest[i] = rf[i + 1]
    BY <1>1, <1>2, <1>3, AfterWordIs DEF Rest
  <2> QED
    BY <1>1, <2>1, <2>2
<1>4. ASSUME Mux!Word(dout), ~(rf[1].n <= 1)
      PROVE  /\ Rest \in Seq(Entry) /\ Len(Rest) = Len(rf)
             /\ \A i \in 1..Len(Rest) :
                      /\ i \in 1..Len(rf) /\ Rest[i].m = rf[i].m
                      /\ Rest[i].n = IF i = 1 THEN rf[i].n - 1 ELSE rf[i].n
                      /\ FirstRest(at)[i].addr = FirstOf(rf, at)[i].addr
                      /\ FirstRest(at)[i] = IF i = 1 THEN [FirstOf(rf, at)[1] EXCEPT !.word = @ + 1]
                                            ELSE FirstOf(rf, at)[i]
  <2>1. FirstRest(at) = [FirstOf(rf, at) EXCEPT ![1].word = @ + 1]
    BY <1>4 DEF FirstRest, FirstAfter
  <2>2. DOMAIN FirstOf(rf, at) = 1..Len(rf)
    BY DEF FirstOf
  <2>3. /\ Rest \in Seq(Entry) /\ Len(Rest) = Len(rf)
        /\ \A i \in 1..Len(rf) : /\ Rest[i].m = rf[i].m
                                 /\ Rest[i].n = IF i = 1 THEN rf[i].n - 1 ELSE rf[i].n
    BY <1>1, <1>2, <1>4, AfterWordIs DEF Rest
  <2>4. \A i \in 1..Len(rf) :
           FirstRest(at)[i] = IF i = 1 THEN [FirstOf(rf, at)[1] EXCEPT !.word = @ + 1]
                              ELSE FirstOf(rf, at)[i]
    BY <2>1, <2>2
  <2>5. \A i \in 1..Len(rf) : FirstRest(at)[i].addr = FirstOf(rf, at)[i].addr
    <3> TAKE i \in 1..Len(rf)
    <3>1. CASE i = 1
      <4>1. FirstOf(rf, at)[1] = [addr |-> FirstOf(rf, at)[1].addr, word |-> FirstOf(rf, at)[1].word]
        BY <1>2, <1>4 DEF FirstOf
      <4> HIDE DEF FirstOf
      <4> QED
        BY <2>4, <3>1, <4>1
    <3>2. CASE i # 1
      BY <2>4, <3>2
    <3> QED
      BY <3>1, <3>2
  <2> QED
    BY <1>1, <2>3, <2>4, <2>5
<1>5. ~Mux!Word(dout) => Rest = rf /\ FirstRest(at) = FirstOf(rf, at)
  BY DEF Rest, FirstRest
<1>6. Len(Rest) \in Nat /\ DOMAIN Rest = 1..Len(Rest)
  <2>1. Rest \in Seq(Entry)
    BY <1>1, <1>3, <1>4, <1>5
  <2> QED
    BY <2>1, LenProperties
<1> QED
  BY <1>1, <1>2, <1>3, <1>4, <1>5, <1>6

-----------------------------------------------------------------------------
\* The last word of a burst is the only one left of it anywhere.
LEMMA LastWord ==
    ASSUME IInv, FbrWord, fbr.rxl <= 1
    PROVE  /\ ~FbrCmd /\ fbr.isl = 0 /\ Mux!WordEnd(dout)
           /\ \A i \in 1..Len(rf) : i # 1 => rf[i].m # "FBR"
<1>1. /\ fbr.act /\ rf \in Seq(Entry) /\ rf # <<>> /\ 1 \in 1..Len(rf) /\ rf[1].m = "FBR"
      /\ Fetched \in Fetch!Readers /\ fbr.rxl \in Nat \ {0}
  BY FbrWordIs, PresentedIs DEF IInv, KindInv
<1>2. PICK at \in [1..(Len(rf) + 1) -> Nat] : ChainOf(rf, fill_pos[Fetched], EndOfFbr, at)
  BY <1>1 DEF IInv, StreamInv
<1> DEFINE lo == fill_pos[Fetched]
<1>3. /\ fbr.rxl = 1 /\ fbr.nxt \in Nat /\ fbr.isl \in Nat /\ lo \in Nat
      /\ fbr.nxt + fbr.isl = lo + 1
      /\ FbrCmd => cmd.n > 0 /\ cmd.word + cmd.n = fbr.nxt /\ cmd.n \in Nat /\ cmd.word \in Nat
  <2>1. /\ fbr \in [act : BOOLEAN, addr : Nat, nxt : Nat, isl : Nat, rxl : Nat,
                    out : Int, first : BOOLEAN]
        /\ fbr.nxt + fbr.isl = lo + fbr.rxl
        /\ FbrCmd => cmd.n > 0 /\ cmd.word + cmd.n = fbr.nxt
    BY <1>1 DEF IInv, BurstInv
  <2>2. cmd.n \in Nat /\ cmd.word \in Nat
    BY DEF IInv, KindInv
  <2>3. lo \in Nat
    BY <1>1 DEF IInv, FetchInv
  <2>4. fbr.rxl = 1
    BY <1>1, <2>1
  <2> QED
    BY <2>1, <2>2, <2>3, <2>4
<1>4. /\ Len(rf) \in Nat /\ \A i \in 1..Len(rf) : rf[i].n \in Nat \ {0}
      /\ Head(rf) = rf[1]
  BY <1>1, HeadEntry
<1>5. at[1] = lo /\ at[2] = lo + rf[1].n /\ at[Len(rf) + 1] = EndOfFbr
  BY <1>1, <1>2 DEF ChainOf
<1>6. ASSUME NEW i \in 1..Len(rf)
      PROVE  /\ at[i] \in Nat /\ at[i + 1] \in Nat /\ at[2] \in Nat
             /\ at[i + 1] <= EndOfFbr
             /\ i # 1 => at[2] <= at[i]
             /\ rf[i].m = "FBR" => at[i + 1] = at[i] + rf[i].n
  <2>1. /\ i \in 1..(Len(rf) + 1) /\ i + 1 \in 1..(Len(rf) + 1) /\ 2 \in 1..(Len(rf) + 1)
        /\ Len(rf) + 1 \in 1..(Len(rf) + 1) /\ i + 1 <= Len(rf) + 1 /\ (i # 1 => 2 <= i)
    BY <1>1, <1>4
  <2>2. at[i] \in Nat /\ at[i + 1] \in Nat /\ at[2] \in Nat
    BY <2>1
  <2>3. at[i + 1] <= EndOfFbr /\ (i # 1 => at[2] <= at[i])
    BY <1>2, <1>5, <2>1 DEF ChainOf
  <2>4. rf[i].m = "FBR" => at[i + 1] = at[i] + rf[i].n
    BY <1>2 DEF ChainOf
  <2> QED
    BY <2>2, <2>3, <2>4
<1>7. at[2] <= EndOfFbr /\ at[2] \in Nat
  BY <1>1, <1>6
<1> HIDE DEF lo
<1>8. ~FbrCmd
  <2> SUFFICES ASSUME FbrCmd PROVE FALSE
    OBVIOUS
  <2>1. EndOfFbr = cmd.word
    BY DEF EndOfFbr
  <2>2. rf[1].n \in Nat /\ rf[1].n >= 1 /\ lo + rf[1].n <= cmd.word
    BY <2>1, <1>1, <1>4, <1>5, <1>7
  <2>3. cmd.n \in Nat /\ cmd.n > 0 /\ cmd.word \in Nat /\ cmd.word + cmd.n + fbr.isl = lo + 1
    BY <1>3
  <2> QED
    BY <2>2, <2>3, <1>3
<1>9. EndOfFbr = fbr.nxt
  BY <1>8 DEF EndOfFbr
<1>10. fbr.isl = 0 /\ rf[1].n = 1 /\ EndOfFbr = lo + 1 /\ at[2] = lo + 1
  BY <1>1, <1>3, <1>4, <1>5, <1>7, <1>9
<1>11. ASSUME NEW i \in 1..Len(rf), i # 1, rf[i].m = "FBR"
       PROVE  FALSE
  <2>1. at[i + 1] = at[i] + rf[i].n /\ at[2] <= at[i] /\ at[i + 1] <= EndOfFbr
    BY <1>6, <1>11
  <2> QED
    BY <2>1, <1>3, <1>4, <1>6, <1>10
<1>12. Mux!WordEnd(dout)
  BY <1>4, <1>10 DEF Mux!WordEnd, FbrWord, Mux!WordOf
<1> QED
  BY <1>8, <1>10, <1>11, <1>12

\* The burst's registers.
LEMMA BurstType ==
    ASSUME IInv, NEW b, ClockWith(b)
    PROVE  fbr' \in [act : BOOLEAN, addr : Nat, nxt : Nat, isl : Nat, rxl : Nat,
                     out : Int, first : BOOLEAN]
<1>1. /\ fbr \in [act : BOOLEAN, addr : Nat, nxt : Nat, isl : Nat, rxl : Nat,
                  out : Int, first : BOOLEAN]
      /\ FetchInv /\ Mux!Display(rq, b, dout)
  BY DEF IInv, BurstInv, ClockWith, Mux!Clock
<1>2. CASE Mux!Accepts(rq, "FBR")
  <2>1. sel_valid
    BY <1>2, BurstWires
  <2>2. /\ rq["FBR"] = [we |-> FALSE, addr |-> Presented, word |-> fill_pos[Presented],
                        words |-> Fetch!BurstOf(Presented)]
        /\ Presented \in Nat /\ fill_pos[Presented] \in Nat /\ Fetch!BurstOf(Presented) \in Nat
    BY <1>1, <2>1, PresentedIs
  <2>3. fbr' = [act |-> TRUE, addr |-> rq["FBR"].addr, nxt |-> rq["FBR"].word,
                isl |-> rq["FBR"].words, rxl |-> rq["FBR"].words,
                out |-> fbr.out, first |-> TRUE]
    BY <1>1, <1>2 DEF Mux!Display
  <2> QED
    BY <1>1, <2>2, <2>3
<1>3. CASE ~Mux!Accepts(rq, "FBR")
  <2>1. fbr' = [fbr EXCEPT
                  !.nxt = IF Mux!LoadsOf(rq, b, "FBR") THEN @ + Mux!SubBurst ELSE @,
                  !.isl = IF Mux!LoadsOf(rq, b, "FBR") THEN @ - Mux!SubBurst ELSE @,
                  !.rxl = IF FbrWord THEN @ - 1 ELSE @,
                  !.act = @ /\ ~(FbrWord /\ fbr.rxl <= 1),
                  !.out = (@ + Mux!One(Mux!Push(b) /\ cmd.m = "FBR")) - Mux!One(Mux!ReadDone(dout, "FBR")),
                  !.first = @ /\ ~(Mux!Push(b) /\ cmd.m = "FBR")]
    BY <1>1, <1>3 DEF Mux!Display, FbrWord
  <2>2. Mux!LoadsOf(rq, b, "FBR") =>
          Mux!SubBurst \in Nat /\ Mux!SubBurst <= fbr.isl
    BY BurstWires
  <2>3. FbrWord => fbr.rxl \in Nat \ {0}
    BY FbrWordIs
  <2>5. /\ Mux!One(Mux!Push(b) /\ cmd.m = "FBR") \in Int
        /\ Mux!One(Mux!ReadDone(dout, "FBR")) \in Int
    BY DEF Mux!One
  <2>4. fbr' = [act |-> fbr.act /\ ~(FbrWord /\ fbr.rxl <= 1), addr |-> fbr.addr,
                nxt |-> IF Mux!LoadsOf(rq, b, "FBR") THEN fbr.nxt + Mux!SubBurst ELSE fbr.nxt,
                isl |-> IF Mux!LoadsOf(rq, b, "FBR") THEN fbr.isl - Mux!SubBurst ELSE fbr.isl,
                rxl |-> IF FbrWord THEN fbr.rxl - 1 ELSE fbr.rxl,
                out |-> (fbr.out + Mux!One(Mux!Push(b) /\ cmd.m = "FBR")) - Mux!One(Mux!ReadDone(dout, "FBR")),
                first |-> fbr.first /\ ~(Mux!Push(b) /\ cmd.m = "FBR")]
    BY <1>1, <2>1
  <2>6. /\ fbr.act \in BOOLEAN /\ fbr.addr \in Nat /\ fbr.nxt \in Nat /\ fbr.isl \in Nat
        /\ fbr.rxl \in Nat /\ fbr.out \in Int /\ fbr.first \in BOOLEAN
    BY <1>1
  <2> DEFINE up == Mux!One(Mux!Push(b) /\ cmd.m = "FBR")
             down == Mux!One(Mux!ReadDone(dout, "FBR"))
  <2>7. (fbr.out + up) - down \in Int
    BY <2>5, <2>6
  <2>8. (IF Mux!LoadsOf(rq, b, "FBR") THEN fbr.nxt + Mux!SubBurst ELSE fbr.nxt) \in Nat
    BY <2>2, <2>6
  <2>9. (IF Mux!LoadsOf(rq, b, "FBR") THEN fbr.isl - Mux!SubBurst ELSE fbr.isl) \in Nat
    BY <2>2, <2>6
  <2>10. (IF FbrWord THEN fbr.rxl - 1 ELSE fbr.rxl) \in Nat
    BY <2>3, <2>6
  <2> HIDE DEF up, down
  <2> QED
    BY <2>4, <2>6, <2>7, <2>8, <2>9, <2>10 DEF up, down
<1> QED
  BY <1>2, <1>3

\* None of the display's reads is queued: none comes in but the one taken.
LEMMA NoFbrEntry ==
    ASSUME IInv, NEW b, ClockWith(b), ~(Mux!Take(b) /\ FbrCmd),
           \A i \in 1..Len(rf) : ~(Mux!WordEnd(dout) /\ i = 1) => rf[i].m # "FBR"
    PROVE  \A i \in DOMAIN rf' : rf'[i].m # "FBR"
<1>1. /\ Mux!ReadQueue(b, dout) /\ rf \in Seq(Entry)
      /\ Mux!Push(b) => [m |-> cmd.m, n |-> cmd.n] \in Entry
  BY PushedEntry DEF ClockWith, Mux!Clock, IInv, KindInv
<1>2. DOMAIN rf' = 1..Len(rf')
  <2>1. rf' \in Seq(Entry)
    BY BridgeTypes
  <2> QED
    BY <2>1, LenProperties
<1>3. ~(Mux!Push(b) /\ cmd.m = "FBR")
  BY DEF Mux!Push, Mux!Take, FbrCmd, Mux!FbrCommand
<1>4. SUFFICES ASSUME NEW i \in 1..Len(rf')
               PROVE  rf'[i].m # "FBR"
  BY <1>2
<1>5. CASE Mux!Push(b) /\ rf'[i] = [m |-> cmd.m, n |-> cmd.n]
  BY <1>3, <1>5
<1>6. ASSUME NEW j \in 1..Len(rf), j = IF Mux!WordEnd(dout) THEN i + 1 ELSE i,
             rf'[i].m = rf[j].m
      PROVE  rf'[i].m # "FBR"
  <2>1. Mux!WordEnd(dout) => j # 1
    <3>1. i \in Nat /\ i >= 1
      <4>1. Len(rf') \in Nat
        BY BridgeTypes, LenProperties
      <4> QED
        BY <4>1
    <3> QED
      BY <1>6, <3>1
  <2> QED
    BY <1>6, <2>1
<1> QED
  BY <1>1, <1>5, <1>6, EntryBefore

-----------------------------------------------------------------------------
\* The burst's address and its two counters, whose it is and how far.
LEMMA BurstServed ==
    ASSUME IInv, NEW b, ClockWith(b)
    PROVE  /\ busy' => fbr'.act /\ ~fbr'.first /\ ~fbr_taken_q' /\ fbr'.rxl = left'
           /\ fbr'.act /\ ~busy' => /\ sel_valid' /\ (fbr'.first <=> ~fbr_taken_q')
                                    /\ fbr'.rxl = Fetch!BurstOf(Presented)'
           /\ fbr'.act => /\ fbr'.addr = Fetched'
                          /\ fbr'.nxt + fbr'.isl = fill_pos'[Fetched'] + fbr'.rxl
<1> DEFINE acc == Mux!Accepts(rq, "FBR")
           loads == Mux!LoadsOf(rq, b, "FBR")
           issued == Mux!Take(b) /\ FbrCmd
<1>1. /\ BurstInv /\ FetchInv
      /\ fbr \in [act : BOOLEAN, addr : Nat, nxt : Nat, isl : Nat, rxl : Nat,
                  out : Int, first : BOOLEAN]
  BY DEF IInv, BurstInv
<1>2. acc <=> sel_valid /\ ~fbr.act
  BY BurstWires
<1>3. ASSUME ~acc
      PROVE  /\ fbr'.addr = fbr.addr /\ fbr'.nxt + fbr'.isl = fbr.nxt + fbr.isl
             /\ fbr'.rxl = IF FbrWord THEN fbr.rxl - 1 ELSE fbr.rxl
             /\ fbr'.act <=> fbr.act /\ ~(FbrWord /\ fbr.rxl <= 1)
             /\ fbr'.first <=> fbr.first /\ ~issued
  <2>1. loads => Mux!SubBurst \in Nat /\ Mux!SubBurst <= fbr.isl
    BY BurstWires
  <2>2. /\ fbr'.nxt = IF loads THEN fbr.nxt + Mux!SubBurst ELSE fbr.nxt
        /\ fbr'.isl = IF loads THEN fbr.isl - Mux!SubBurst ELSE fbr.isl
        /\ fbr.nxt \in Nat /\ fbr.isl \in Nat
    BY <1>1, <1>3, BurstWires
  <2>3. fbr'.nxt + fbr'.isl = fbr.nxt + fbr.isl
    BY <2>1, <2>2
  <2> QED
    BY <1>3, <2>3, BurstWires
<1>4. fbr_taken_q' <=> issued /\ fbr.first
  BY BurstWires
<1> HIDE DEF acc, loads, issued
<1>5. CASE fbr_taken_q
  <2>1. fbr.act /\ ~busy /\ sel_valid /\ ~fbr.first /\ ~FbrWord /\ Fetched = Presented /\ ~acc
    BY <1>2, <1>5, TakenIs
  <2>2. /\ busy' /\ Owner' = Presented /\ left' = Fetch!BurstOf(Presented)
        /\ fill_pos'[Presented] = fill_pos[Presented]
    BY <1>5, TakenStep
  <2>3. Fetched' = Presented
    BY <2>2 DEF Fetched
  <2>4. /\ fbr.rxl = Fetch!BurstOf(Presented) /\ fbr.addr = Presented
        /\ fbr.nxt + fbr.isl = fill_pos[Presented] + fbr.rxl
    BY <1>1, <2>1 DEF BurstInv
  <2> QED
    BY <1>3, <1>4, <2>1, <2>2, <2>3, <2>4
<1>6. CASE FbrWord
  <2>1. /\ fbr.act /\ busy /\ ~fbr.first /\ fbr.rxl = left /\ left \in Nat \ {0}
        /\ Fetched = Owner /\ ~acc /\ Owner \in Fetch!Readers
    BY <1>1, <1>2, <1>6, FbrWordIs, PresentedIs
  <2>2. /\ busy' <=> left > 1
        /\ Owner' = Owner /\ left' = left - 1 /\ fill_pos'[Owner] = fill_pos[Owner] + 1
    BY <1>6, WordStep
  <2>3. fbr.addr = Owner /\ fbr.nxt + fbr.isl = fill_pos[Owner] + fbr.rxl /\ fill_pos[Owner] \in Nat
    BY <1>1, <2>1 DEF BurstInv, FetchInv
  <2>4. fbr'.act <=> left > 1
    BY <1>3, <1>6, <2>1
  <2>5. busy' => Fetched' = Owner
    BY <2>2 DEF Fetched
  <2>6. fbr'.rxl = left' /\ ~fbr'.first /\ ~fbr_taken_q'
    BY <1>3, <1>4, <1>6, <2>1, <2>2
  <2>7. fbr'.nxt + fbr'.isl = fill_pos'[Owner] + fbr'.rxl
    BY <1>3, <2>1, <2>2, <2>3, <2>6
  <2> QED
    BY <1>3, <2>1, <2>2, <2>3, <2>4, <2>5, <2>6, <2>7
<1>7. CASE ~fbr_taken_q /\ ~FbrWord
  <2>1. /\ (busy' <=> busy) /\ Owner' = Owner /\ left' = left
        /\ sel_valid => sel_valid' /\ Presented' = Presented
        /\ sel_valid => fill_pos'[Presented] = fill_pos[Presented]
        /\ busy => ~sel_valid' /\ fill_pos'[Owner] = fill_pos[Owner]
    BY <1>7, QuietStep
  <2>2. sel_valid => Fetch!BurstOf(Presented)' = Fetch!BurstOf(Presented)
    BY <2>1 DEF Fetch!BurstOf
  <2>3. CASE acc
    <3>1. sel_valid /\ ~fbr.act /\ ~busy
      BY <1>1, <1>2, <2>3 DEF FetchInv
    <3>2. /\ fbr'.act /\ fbr'.first /\ fbr'.addr = Presented
          /\ fbr'.nxt = fill_pos[Presented] /\ fbr'.isl = Fetch!BurstOf(Presented)
          /\ fbr'.rxl = Fetch!BurstOf(Presented)
      BY <2>3, BurstWires DEF acc
    <3>3. ~fbr_taken_q'
      BY <1>1, <1>4, <3>1 DEF BurstInv, issued
    <3>4. Fetched' = Presented
      BY <2>1, <3>1 DEF Fetched
    <3> QED
      BY <2>1, <2>2, <3>1, <3>2, <3>3, <3>4
  <2>4. CASE ~acc
    <3>1. /\ fbr'.addr = fbr.addr /\ fbr'.nxt + fbr'.isl = fbr.nxt + fbr.isl
          /\ fbr'.rxl = fbr.rxl /\ (fbr'.act <=> fbr.act) /\ (fbr'.first <=> fbr.first /\ ~issued)
      BY <1>3, <1>7, <2>4
    <3>2. fbr.act => Fetched' = Fetched /\ fill_pos'[Fetched] = fill_pos[Fetched]
      BY <1>1, <2>1 DEF Fetched, BurstInv
    <3>3. busy => fbr'.act /\ ~fbr'.first /\ ~fbr_taken_q' /\ fbr'.rxl = left'
      BY <1>1, <1>4, <2>1, <3>1 DEF BurstInv
    <3>4. fbr.act /\ ~busy => /\ sel_valid' /\ (fbr'.first <=> ~fbr_taken_q')
                              /\ fbr'.rxl = Fetch!BurstOf(Presented)'
      BY <1>1, <1>4, <1>7, <2>1, <2>2, <3>1 DEF BurstInv
    <3>5. fbr.act => /\ fbr'.addr = Fetched'
                     /\ fbr'.nxt + fbr'.isl = fill_pos'[Fetched'] + fbr'.rxl
      BY <1>1, <3>1, <3>2 DEF BurstInv
    <3> QED
      BY <2>1, <3>1, <3>3, <3>4, <3>5
  <2> QED
    BY <2>3, <2>4
<1> QED
  BY <1>5, <1>6, <1>7

\* None of the display's reads is queued before its burst is issued, nor
\* after its last word.
LEMMA BurstGone ==
    ASSUME IInv, NEW b, ClockWith(b), ~fbr'.act \/ fbr'.first
    PROVE  /\ \A i \in DOMAIN rf' : rf'[i].m # "FBR"
           /\ ~fbr'.act => ~fbr_taken_q' /\ ~FbrCmd'
<1>1. BurstInv /\ rf \in Seq(Entry) /\ DOMAIN rf = 1..Len(rf)
  BY LenProperties DEF IInv, KindInv
<1>2. /\ Mux!Accepts(rq, "FBR") => ~fbr.act
      /\ Mux!Accepts(rq, "FBR") => fbr'.act
      /\ ~Mux!Accepts(rq, "FBR") =>
           /\ fbr'.act <=> fbr.act /\ ~(FbrWord /\ fbr.rxl <= 1)
           /\ fbr'.first <=> fbr.first /\ ~(Mux!Take(b) /\ FbrCmd)
      /\ fbr_taken_q' <=> Mux!Take(b) /\ FbrCmd /\ fbr.first
      /\ Mux!LoadsOf(rq, b, "FBR") => fbr.act /\ fbr.isl > 0
      /\ ~Mux!LoadsOf(rq, b, "FBR") /\ cmd'.v /\ cmd'.m = "FBR" => FbrCmd
  BY BurstWires
<1>3. FbrCmd' <=> cmd'.v /\ cmd'.m = "FBR"
  BY DEF FbrCmd, Mux!FbrCommand
<1>4. CASE ~fbr.act
  <2>1. ~FbrCmd /\ \A i \in 1..Len(rf) : rf[i].m # "FBR"
    BY <1>1, <1>4 DEF BurstInv
  <2>2. \A i \in DOMAIN rf' : rf'[i].m # "FBR"
    BY <2>1, NoFbrEntry
  <2> QED
    BY <1>2, <1>3, <1>4, <2>1, <2>2
<1>5. CASE fbr.act /\ FbrWord /\ fbr.rxl <= 1
  <2>1. /\ ~FbrCmd /\ fbr.isl = 0
        /\ \A i \in 1..Len(rf) : i # 1 => rf[i].m # "FBR"
        /\ Mux!WordEnd(dout)
    BY <1>5, LastWord
  <2>2. \A i \in DOMAIN rf' : rf'[i].m # "FBR"
    BY <2>1, NoFbrEntry
  <2> QED
    BY <1>2, <1>3, <2>1, <2>2
<1>6. CASE fbr.act /\ ~(FbrWord /\ fbr.rxl <= 1)
  <2>1. fbr'.act /\ fbr.first /\ ~(Mux!Take(b) /\ FbrCmd)
    BY <1>2, <1>6
  <2>2. \A i \in 1..Len(rf) : rf[i].m # "FBR"
    BY <1>1, <1>6, <2>1 DEF BurstInv
  <2>3. \A i \in DOMAIN rf' : rf'[i].m # "FBR"
    BY <2>1, <2>2, NoFbrEntry
  <2> QED
    BY <2>1, <2>3
<1> QED
  BY <1>4, <1>5, <1>6

\* What the display's command asks for.
LEMMA BurstCommand ==
    ASSUME IInv, NEW b, ClockWith(b), FbrCmd'
    PROVE  ~cmd'.we /\ cmd'.addr = fbr'.addr /\ cmd'.n > 0 /\ cmd'.word + cmd'.n = fbr'.nxt
<1>1. BurstInv /\ cmd'.v /\ cmd'.m = "FBR"
  BY DEF IInv, FbrCmd, Mux!FbrCommand
<1>2. CASE Mux!LoadsOf(rq, b, "FBR")
  <2>1. fbr.act /\ ~Mux!Accepts(rq, "FBR")
    BY <1>2, BurstWires
  <2>2. /\ ~cmd'.we /\ cmd'.addr = fbr.addr /\ cmd'.word = fbr.nxt /\ cmd'.n = Mux!SubBurst
        /\ Mux!SubBurst \in Nat \ {0}
        /\ fbr'.addr = fbr.addr /\ fbr'.nxt = fbr.nxt + Mux!SubBurst
    BY <1>2, <2>1, BurstWires
  <2> QED
    BY <2>2
<1>3. CASE ~Mux!LoadsOf(rq, b, "FBR")
  <2>1. FbrCmd /\ cmd' = cmd
    BY <1>1, <1>3, BurstWires
  <2>2. fbr.act /\ ~cmd.we /\ cmd.addr = fbr.addr /\ cmd.n > 0 /\ cmd.word + cmd.n = fbr.nxt
    BY <1>1, <2>1 DEF BurstInv
  <2>3. ~Mux!Accepts(rq, "FBR")
    BY <2>2, BurstWires
  <2>4. fbr'.addr = fbr.addr /\ fbr'.nxt = fbr.nxt
    BY <1>3, <2>3, BurstWires
  <2> QED
    BY <2>1, <2>2, <2>4
<1> QED
  BY <1>2, <1>3

\* The first word of a burst comes no sooner than its acknowledgement is over.
LEMMA NotTooEarly ==
    ASSUME IInv, NEW b, ClockWith(b), fbr_taken_q', rf' # <<>>
    PROVE  Head(rf').m # "FBR" \/ dout' = NoWord
<1>1. Mux!Take(b) /\ FbrCmd /\ fbr.first
  BY BurstWires
<1>2. BurstInv /\ rf \in Seq(Entry) /\ owed \in Seq(OwedWord)
  BY DEF IInv, KindInv
<1>3. fbr.act /\ Mux!Push(b) /\ cmd.m = "FBR"
  BY <1>1, <1>2 DEF BurstInv, Mux!Push, Mux!Take, FbrCmd, Mux!FbrCommand
<1>4. PICK at : Streams(rf, owed, dout, FirstOf(rf, at))
  BY DEF IInv, StreamInv
<1>5. Rest \in Seq(Entry) /\ Streams(Rest, owed, NoWord, FirstRest(at))
  BY <1>4, RestStream
<1>6. rf' = Append(Rest, [m |-> cmd.m, n |-> cmd.n])
  <2>1. /\ Mux!ReadQueue(b, dout)
        /\ Mux!Push(b) => [m |-> cmd.m, n |-> cmd.n] \in Entry
    BY PushedEntry DEF ClockWith, Mux!Clock
  <2> QED
    BY <1>2, <1>3, <2>1, QueueMoves DEF Rest
<1>7. CASE Rest = <<>>
  <2>1. owed = <<>>
    BY <1>2, <1>5, <1>7, EmptyOwed
  <2> QED
    BY <2>1 DEF ClockWith, BridgeClock
<1>8. CASE Rest # <<>>
  <2>1. Len(Rest) \in Nat /\ 1 \in 1..Len(Rest)
    BY <1>5, <1>8, HeadEntry
  <2>2. Rest[1].m # "FBR"
    <3>1. \A i \in 1..Len(rf) : rf[i].m # "FBR"
      BY <1>1, <1>2, <1>3, LenProperties DEF BurstInv
    <3> QED
      BY <2>1, <3>1, RestIs
  <2>3. rf'[1] = Rest[1]
    BY <1>5, <1>6, <2>1, AppendProperties
  <2>4. Head(rf') = rf'[1]
    BY BridgeTypes, HeadEntry
  <2> QED
    BY <2>2, <2>3, <2>4
<1> QED
  BY <1>7, <1>8

\* The muxer's account of the burst still agrees with the display's.
LEMMA BurstStep ==
    ASSUME IInv, NEW b, ClockWith(b)
    PROVE  BurstInv'
<1>1. fbr' \in [act : BOOLEAN, addr : Nat, nxt : Nat, isl : Nat, rxl : Nat,
                out : Int, first : BOOLEAN]
  BY BurstType
<1>2. FbrCmd' => ~cmd'.we /\ cmd'.addr = fbr'.addr /\ cmd'.n > 0 /\ cmd'.word + cmd'.n = fbr'.nxt
  BY BurstCommand
<1>3. fbr_taken_q' /\ rf' # <<>> => Head(rf').m # "FBR" \/ dout' = NoWord
  BY NotTooEarly
<1>4. /\ ~fbr'.act => ~fbr_taken_q' /\ ~FbrCmd' /\ \A i \in DOMAIN rf' : rf'[i].m # "FBR"
      /\ fbr'.act /\ fbr'.first => \A i \in DOMAIN rf' : rf'[i].m # "FBR"
  BY BurstGone
<1> QED
  BY <1>1, <1>2, <1>3, <1>4, BurstServed DEF BurstInv

\* The display's fetch keeps to its line.
LEMMA FetchStep ==
    ASSUME IInv, NEW b, ClockWith(b)
    PROVE  FetchInv'
BY TakenStep, WordStep, QuietStep

-----------------------------------------------------------------------------
\* A waiting read's place in the stream moves with its words.
LEMMA WaiterFirst ==
    ASSUME IInv, NEW b, ClockWith(b), NEW at,
           NEW i \in 1..Len(Rest), Rest[i].m \in Waiters
    PROVE  FirstRest(at)[i] = [addr |-> asked'[Rest[i].m].addr, word |-> got'[Rest[i].m]]
<1> DEFINE m == Rest[i].m
<1>1. /\ rf \in Seq(Entry) /\ Len(rf) \in Nat /\ DOMAIN rf = 1..Len(rf)
      /\ "FBR" \notin Waiters
  BY LenProperties DEF IInv, KindInv, Waiters, Requesters
<1>2. ASSUME NEW j \in 1..Len(rf), rf[j].m = m
      PROVE  /\ asked'[m] = asked[m] /\ FirstOf(rf, at)[j] = [addr |-> asked[m].addr, word |-> got[m]]
             /\ got[m] \in Nat
             /\ got'[m] = IF Mux!Word(dout) /\ j = 1 THEN got[m] + 1 ELSE got[m]
  <2>1. /\ Reading(m) /\ Fits(m) /\ \A k \in 1..Len(rf) : rf[k].m = m => k = j
    <3>1. Reading(m) /\ \A k \in 1..Len(rf) : rf[k].m = m => k = j
      BY <1>1, <1>2 DEF IInv, QueueInv
    <3>2. ~RIdle(m)
      BY <3>1 DEF RIdle, Reading, Kept
    <3> QED
      BY <3>1, <3>2 DEF IInv, WhereInv
  <2>2. Mux!WordOf(dout, m) <=> Mux!Word(dout) /\ j = 1
    <3>1. Mux!Word(dout) => 1 \in 1..Len(rf) /\ Head(rf) = rf[1]
      BY <1>1, HeadEntry DEF Mux!Word
    <3> QED
      BY <1>2, <2>1, <3>1 DEF Mux!WordOf
  <2>3. /\ asked'[m] = asked[m]
        /\ got'[m] = IF Mux!WordOf(dout, m) THEN got[m] + 1 ELSE got[m]
    BY <2>1, ReadingStep
  <2>4. FirstOf(rf, at)[j] = [addr |-> asked[m].addr, word |-> got[m]]
    BY <1>1, <1>2 DEF FirstOf
  <2>5. got[m] \in Nat
    BY DEF IInv, KindInv, Waiters
  <2> QED
    BY <2>2, <2>3, <2>4, <2>5
<1>3. CASE ~Mux!Word(dout)
  <2>1. i \in 1..Len(rf) /\ rf[i].m = m /\ FirstRest(at) = FirstOf(rf, at)
    BY <1>3, RestIs
  <2> QED
    BY <1>2, <1>3, <2>1
<1>4. CASE Mux!Word(dout) /\ rf[1].n <= 1
  <2>1. i + 1 \in 1..Len(rf) /\ rf[i + 1].m = m /\ FirstRest(at)[i] = FirstOf(rf, at)[i + 1]
    BY <1>4, RestIs
  <2>2. i + 1 # 1
    <3>1. Len(Rest) \in Nat
      BY RestIs
    <3> QED
      BY <3>1
  <2> QED
    BY <1>2, <2>1, <2>2
<1>5. CASE Mux!Word(dout) /\ ~(rf[1].n <= 1)
  <2>1. /\ i \in 1..Len(rf) /\ rf[i].m = m
        /\ FirstRest(at)[i] = IF i = 1 THEN [FirstOf(rf, at)[1] EXCEPT !.word = @ + 1]
                              ELSE FirstOf(rf, at)[i]
    BY <1>5, RestIs
  <2>2. CASE i = 1
    <3>1. FirstOf(rf, at)[1] = [addr |-> asked[m].addr, word |-> got[m]]
      BY <1>2, <2>1, <2>2
    <3>2. FirstRest(at)[i] = [addr |-> asked[m].addr, word |-> got[m] + 1]
      BY <2>1, <2>2, <3>1
    <3> QED
      BY <1>2, <1>5, <2>1, <2>2, <3>2
  <2>3. CASE i # 1
    BY <1>2, <2>1, <2>3
  <2> QED
    BY <2>2, <2>3
<1> QED
  BY <1>3, <1>4, <1>5

\* What the bridge owes, when the places of the display's entries are known.
LEMMA StreamsStep ==
    ASSUME IInv, NEW b, ClockWith(b), NEW at, Streams(rf, owed, dout, FirstOf(rf, at)),
           NEW to,
           \A i \in 1..Len(Rest) : Rest[i].m = "FBR" =>
              FirstRest(at)[i] = [addr |-> fbr'.addr, word |-> to[i]],
           Mux!Push(b) /\ cmd.m = "FBR" =>
              cmd.addr = fbr'.addr /\ cmd.word = to[Len(Rest) + 1]
    PROVE  Streams(rf', owed', dout', FirstOf(rf, to)')
<1> DEFINE e == [m |-> cmd.m, n |-> cmd.n]
           f == [addr |-> cmd.addr, word |-> cmd.word]
           long == [i \in 1..(Len(Rest) + 1) |-> IF i <= Len(Rest) THEN FirstRest(at)[i] ELSE f]
<1>1. /\ rf \in Seq(Entry) /\ owed \in Seq(OwedWord) /\ dout \in OwedWord \cup {NoWord}
      /\ rf' \in Seq(Entry) /\ Rest \in Seq(Entry) /\ Len(Rest) \in Nat
      /\ Streams(Rest, owed, NoWord, FirstRest(at))
  BY RestStream, BridgeTypes, RestIs DEF IInv, KindInv
<1>2. /\ Mux!Push(b) => e \in Entry /\ f \in FirstWord /\ Words(cmd) = Run(e, f) /\ rf' = Append(Rest, e)
      /\ ~Mux!Push(b) => rf' = Rest
  <2>1. Mux!Push(b) => e \in Entry /\ f \in FirstWord /\ Words(cmd) = Run(e, f)
    BY PushedEntry, TakenWords
  <2>2. Mux!ReadQueue(b, dout)
    BY DEF ClockWith, Mux!Clock
  <2> QED
    BY <1>1, <2>1, <2>2, QueueMoves DEF Rest
<1>3. \A i \in 1..Len(Rest) : Rest[i].m \in Waiters \cup {"FBR"}
  BY <1>1, HeadEntry
<1>4. ASSUME NEW i \in 1..Len(Rest)
      PROVE  FirstRest(at)[i] = IF Rest[i].m = "FBR" THEN [addr |-> fbr'.addr, word |-> to[i]]
                                ELSE [addr |-> asked'[Rest[i].m].addr, word |-> got'[Rest[i].m]]
  BY <1>3, WaiterFirst
<1>5. DOMAIN FirstRest(at) = 1..Len(Rest) /\ FirstRest(at) = [i \in 1..Len(Rest) |-> FirstRest(at)[i]]
  <2>1. PICK start : StreamOf(Rest, owed, NoWord, FirstRest(at), start)
    BY <1>1 DEF Streams
  <2> QED
    BY <2>1 DEF StreamOf
<1>6. FirstOf(rf, to)' = [i \in 1..Len(rf') |->
          IF rf'[i].m = "FBR" THEN [addr |-> fbr'.addr, word |-> to[i]]
          ELSE [addr |-> asked'[rf'[i].m].addr, word |-> got'[rf'[i].m]]]
  BY DEF FirstOf
<1>7. ASSUME ~Mux!Push(b)
      PROVE  FirstOf(rf, to)' = FirstRest(at)
  BY <1>2, <1>4, <1>5, <1>6, <1>7
<1>8. ASSUME Mux!Push(b)
      PROVE  FirstOf(rf, to)' = long
  <2>1. Len(rf') = Len(Rest) + 1 /\ rf'[Len(Rest) + 1] = e /\ \A i \in 1..Len(Rest) : rf'[i] = Rest[i]
    BY <1>1, <1>2, <1>8, AppendProperties
  <2>2. f = IF cmd.m = "FBR" THEN [addr |-> fbr'.addr, word |-> to[Len(Rest) + 1]]
            ELSE [addr |-> asked'[cmd.m].addr, word |-> got'[cmd.m]]
    <3>1. CASE cmd.m = "FBR"
      BY <1>8, <3>1
    <3>2. CASE cmd.m # "FBR"
      <4>1. cmd.m \in Waiters /\ Before(cmd.m) /\ cmd.v
        BY <1>8, <3>2, PushedEntry
      <4>2. Fits(cmd.m)
        <5>1. ~RIdle(cmd.m)
          BY <4>1 DEF RIdle, Before, Kept
        <5> QED
          BY <4>1, <5>1 DEF IInv, WhereInv
      <4>3. got'[cmd.m] = got[cmd.m] /\ asked'[cmd.m] = asked[cmd.m]
        BY <1>8, <4>1, <4>2, BeforeStep
      <4>4. cmd.addr = asked[cmd.m].addr /\ cmd.word = got[cmd.m]
        BY <4>1 DEF Before
      <4> QED
        BY <3>2, <4>3, <4>4
    <3> QED
      BY <3>1, <3>2
  <2>3. ASSUME NEW i \in 1..(Len(Rest) + 1)
        PROVE  (IF rf'[i].m = "FBR" THEN [addr |-> fbr'.addr, word |-> to[i]]
                ELSE [addr |-> asked'[rf'[i].m].addr, word |-> got'[rf'[i].m]])
               = IF i <= Len(Rest) THEN FirstRest(at)[i] ELSE f
    <3>1. CASE i <= Len(Rest)
      <4>1. i \in 1..Len(Rest)
        BY <1>1, <3>1
      <4> QED
        BY <1>4, <2>1, <3>1, <4>1
    <3>2. CASE ~(i <= Len(Rest))
      <4>1. i = Len(Rest) + 1
        BY <1>1, <3>2
      <4> QED
        BY <2>1, <2>2, <3>2, <4>1
    <3> QED
      BY <3>1, <3>2
  <2> QED
    BY <1>6, <2>1, <2>3
<1> HIDE DEF long, e, f
<1>9. ASSUME NEW o \in Seq(OwedWord), NEW d \in OwedWord \cup {NoWord},
             Streams(Rest, o, d, FirstRest(at)),
             owed' = o \o (IF Mux!Push(b) THEN Words(cmd) ELSE <<>>), dout' = d
      PROVE  Streams(rf', owed', dout', FirstOf(rf, to)')
  <2>1. CASE Mux!Push(b)
    <3>1. Streams(Append(Rest, e), o \o Run(e, f), d, long)
      <4>1. e \in Entry /\ f \in FirstWord
        BY <1>2, <2>1
      <4>2. Streams(Append(Rest, e), o \o Run(e, f), d,
                    [i \in 1..(Len(Rest) + 1) |-> IF i <= Len(Rest) THEN FirstRest(at)[i] ELSE f])
        BY <4>1, <1>1, <1>9, ReadJoins
      <4> QED
        BY <4>2 DEF long
    <3> QED
      BY <1>2, <1>8, <1>9, <2>1, <3>1
  <2>2. CASE ~Mux!Push(b)
    <3>1. o \o <<>> = o
      BY ConcatProperties, EmptySeq
    <3>2. owed' = o
      BY <1>9, <2>2, <3>1
    <3> QED
      BY <1>2, <1>7, <1>9, <2>2, <3>2
  <2> QED
    BY <2>1, <2>2
<1>10. BridgeClock(b)
  BY DEF ClockWith
<1>11. CASE /\ owed # <<>> /\ dout' = Head(owed)
            /\ owed' = Tail(owed) \o (IF Mux!Push(b) THEN Words(cmd) ELSE <<>>)
  <2>1. Tail(owed) \in Seq(OwedWord) /\ Head(owed) \in OwedWord
    BY <1>1, <1>11, HeadTailProperties
  <2>2. Streams(Rest, Tail(owed), Head(owed), FirstRest(at))
    BY <1>1, <1>11, WordComes
  <2> QED
    BY <1>9, <1>11, <2>1, <2>2
<1>12. CASE dout' = NoWord /\ owed' = owed \o (IF Mux!Push(b) THEN Words(cmd) ELSE <<>>)
  BY <1>1, <1>9, <1>12
<1> QED
  BY <1>10, <1>11, <1>12 DEF BridgeClock

-----------------------------------------------------------------------------
\* The display's entries still follow one another without their first word.
LEMMA ChainRest ==
    ASSUME IInv, NEW at \in [1..(Len(rf) + 1) -> Nat], NEW lo \in Nat, NEW hi \in Nat,
           ChainOf(rf, lo, hi, at)
    PROVE  /\ AtRest(at) \in [1..(Len(Rest) + 1) -> Nat]
           /\ ChainOf(Rest, IF FbrWord THEN lo + 1 ELSE lo, hi, AtRest(at))
           /\ \A i \in 1..Len(Rest) : Rest[i].m = "FBR" =>
                 FirstRest(at)[i] = [addr |-> fbr.addr, word |-> AtRest(at)[i]]
<1>1. /\ rf \in Seq(Entry) /\ Len(rf) \in Nat /\ Len(Rest) \in Nat
      /\ \A i \in 1..Len(rf) : rf[i].n \in Nat \ {0}
  BY RestIs, HeadEntry
<1>2. ASSUME NEW i \in 1..Len(rf)
      PROVE  /\ FirstOf(rf, at)[i] = IF rf[i].m = "FBR" THEN [addr |-> fbr.addr, word |-> at[i]]
                                     ELSE [addr |-> asked[rf[i].m].addr, word |-> got[rf[i].m]]
             /\ i \in 1..(Len(rf) + 1) /\ i + 1 \in 1..(Len(rf) + 1)
             /\ at[i] \in Nat /\ at[i + 1] \in Nat
             /\ at[i + 1] = IF rf[i].m = "FBR" THEN at[i] + rf[i].n ELSE at[i]
  <2>1. i \in 1..(Len(rf) + 1) /\ i + 1 \in 1..(Len(rf) + 1)
    BY <1>1
  <2> QED
    BY <2>1 DEF FirstOf, ChainOf
<1>3. CASE ~Mux!Word(dout)
  <2>1. Rest = rf /\ FirstRest(at) = FirstOf(rf, at) /\ AtRest(at) = at /\ ~FbrWord
    BY <1>3, RestIs DEF AtRest, FbrWord, Mux!WordOf
  <2> QED
    BY <1>2, <2>1
<1>4. ASSUME Mux!Word(dout)
      PROVE  /\ 1 \in 1..Len(rf) /\ at[1] = lo /\ at[1] \in Nat /\ at[2] \in Nat
             /\ at[2] = IF rf[1].m = "FBR" THEN at[1] + rf[1].n ELSE at[1]
             /\ rf[1].n \in Nat \ {0} /\ at[Len(rf) + 1] = hi
             /\ FbrWord <=> rf[1].m = "FBR"
  <2>1. 1 \in 1..Len(rf) /\ Head(rf) = rf[1]
    BY <1>1, <1>4, HeadEntry DEF Mux!Word
  <2>2. at[1] = lo /\ at[Len(rf) + 1] = hi
    BY DEF ChainOf
  <2>3. FbrWord <=> rf[1].m = "FBR"
    BY <1>4, <2>1 DEF FbrWord, Mux!WordOf
  <2>4. /\ at[1] \in Nat /\ at[1 + 1] \in Nat /\ rf[1].n \in Nat \ {0}
        /\ at[1 + 1] = IF rf[1].m = "FBR" THEN at[1] + rf[1].n ELSE at[1]
    BY <1>1, <1>2, <2>1
  <2> QED
    BY <2>1, <2>2, <2>3, <2>4
<1>5. CASE Mux!Word(dout) /\ rf[1].n <= 1
  <2>1. /\ Len(Rest) = Len(rf) - 1 /\ AtRest(at) = [i \in 1..Len(rf) |-> at[i + 1]]
        /\ \A i \in 1..Len(Rest) : /\ i + 1 \in 1..Len(rf) /\ Rest[i] = rf[i + 1]
                                   /\ FirstRest(at)[i] = FirstOf(rf, at)[i + 1]
    BY <1>5, RestIs DEF AtRest
  <2>2. AtRest(at) \in [1..(Len(Rest) + 1) -> Nat]
    BY <1>1, <1>2, <2>1
  <2>3. AtRest(at)[1] = IF FbrWord THEN lo + 1 ELSE lo
    <3>1. AtRest(at)[1] = at[2]
      BY <1>4, <1>5, <2>1
    <3>2. rf[1].n = 1
      BY <1>4, <1>5
    <3> QED
      BY <1>4, <1>5, <3>1, <3>2
  <2>4. AtRest(at)[Len(Rest) + 1] = hi
    BY <1>1, <1>4, <1>5, <2>1
  <2>5. \A i \in 1..Len(Rest) :
           AtRest(at)[i + 1] = IF Rest[i].m = "FBR" THEN AtRest(at)[i] + Rest[i].n ELSE AtRest(at)[i]
    <3> TAKE i \in 1..Len(Rest)
    <3>1. i \in 1..Len(rf) /\ i + 1 \in 1..Len(rf)
      BY <1>1, <2>1
    <3>2. AtRest(at)[i + 1] = at[i + 1 + 1] /\ AtRest(at)[i] = at[i + 1] /\ Rest[i] = rf[i + 1]
      BY <2>1, <3>1
    <3> QED
      BY <1>2, <3>1, <3>2
  <2>6. \A i, j \in 1..(Len(Rest) + 1) : i <= j => AtRest(at)[i] <= AtRest(at)[j]
    <3> TAKE i, j \in 1..(Len(Rest) + 1)
    <3>1. i \in 1..Len(rf) /\ j \in 1..Len(rf) /\ i \in Nat /\ j \in Nat
      BY <1>1, <2>1
    <3>2. i + 1 \in 1..(Len(rf) + 1) /\ j + 1 \in 1..(Len(rf) + 1)
      BY <1>1, <3>1
    <3>3. i <= j => at[i + 1] <= at[j + 1]
      BY <3>1, <3>2 DEF ChainOf
    <3> QED
      BY <2>1, <3>1, <3>3
  <2>7. \A i \in 1..Len(Rest) : Rest[i].m = "FBR" =>
           FirstRest(at)[i] = [addr |-> fbr.addr, word |-> AtRest(at)[i]]
    <3> TAKE i \in 1..Len(Rest)
    <3>1. i \in 1..Len(rf) /\ i + 1 \in 1..Len(rf)
      BY <1>1, <2>1
    <3> QED
      BY <1>2, <2>1, <3>1
  <2> QED
    BY <2>2, <2>3, <2>4, <2>5, <2>6, <2>7 DEF ChainOf
<1>6. CASE Mux!Word(dout) /\ ~(rf[1].n <= 1)
  <2>1. /\ Len(Rest) = Len(rf)
        /\ \A i \in 1..Len(Rest) :
              /\ i \in 1..Len(rf) /\ Rest[i].m = rf[i].m
              /\ Rest[i].n = IF i = 1 THEN rf[i].n - 1 ELSE rf[i].n
              /\ FirstRest(at)[i] = IF i = 1 THEN [FirstOf(rf, at)[1] EXCEPT !.word = @ + 1]
                                    ELSE FirstOf(rf, at)[i]
    BY <1>6, RestIs
  <2>2. AtRest(at) = IF rf[1].m = "FBR" THEN [at EXCEPT ![1] = @ + 1] ELSE at
    BY <1>6 DEF AtRest
  <2>3. /\ AtRest(at) \in [1..(Len(Rest) + 1) -> Nat]
        /\ \A i \in 1..(Len(rf) + 1) :
              AtRest(at)[i] = IF rf[1].m = "FBR" /\ i = 1 THEN at[1] + 1 ELSE at[i]
    <3>1. 1 \in 1..(Len(rf) + 1)
      BY <1>1
    <3> QED
      BY <1>4, <1>6, <2>1, <2>2, <3>1
  <2>4. AtRest(at)[1] = IF FbrWord THEN lo + 1 ELSE lo
    BY <1>1, <1>4, <1>6, <2>3
  <2>5. AtRest(at)[Len(Rest) + 1] = hi
    <3>1. Len(rf) + 1 \in 1..(Len(rf) + 1) /\ Len(rf) + 1 # 1
      BY <1>1, <1>4, <1>6
    <3> QED
      BY <1>4, <1>6, <2>1, <2>3, <3>1
  <2>6. \A i \in 1..Len(Rest) :
           AtRest(at)[i + 1] = IF Rest[i].m = "FBR" THEN AtRest(at)[i] + Rest[i].n ELSE AtRest(at)[i]
    <3> TAKE i \in 1..Len(Rest)
    <3>1. /\ i \in 1..Len(rf) /\ i \in 1..(Len(rf) + 1) /\ i + 1 \in 1..(Len(rf) + 1)
          /\ i \in Nat /\ i >= 1 /\ Rest[i].m = rf[i].m
          /\ Rest[i].n = IF i = 1 THEN rf[i].n - 1 ELSE rf[i].n
      BY <1>1, <2>1
    <3>2. AtRest(at)[i + 1] = at[i + 1]
      BY <2>3, <3>1
    <3>3. AtRest(at)[i] = IF rf[1].m = "FBR" /\ i = 1 THEN at[1] + 1 ELSE at[i]
      BY <2>3, <3>1
    <3>4. /\ at[i] \in Nat /\ rf[i].n \in Nat
          /\ at[i + 1] = IF rf[i].m = "FBR" THEN at[i] + rf[i].n ELSE at[i]
      BY <1>1, <1>2, <3>1
    <3>5. CASE i = 1
      <4>1. CASE rf[i].m = "FBR"
        <5>1. AtRest(at)[i] = at[i] + 1 /\ Rest[i].n = rf[i].n - 1 /\ at[i + 1] = at[i] + rf[i].n
          BY <3>1, <3>3, <3>4, <3>5, <4>1
        <5> QED
          BY <3>1, <3>2, <3>4, <4>1, <5>1
      <4>2. CASE rf[i].m # "FBR"
        BY <3>1, <3>2, <3>3, <3>4, <3>5, <4>2
      <4> QED
        BY <4>1, <4>2
    <3>6. CASE i # 1
      BY <3>1, <3>2, <3>3, <3>4, <3>6
    <3> QED
      BY <3>5, <3>6
  <2>7. \A i, j \in 1..(Len(Rest) + 1) : i <= j => AtRest(at)[i] <= AtRest(at)[j]
    <3> TAKE i, j \in 1..(Len(Rest) + 1)
    <3>1. /\ i \in 1..(Len(rf) + 1) /\ j \in 1..(Len(rf) + 1) /\ 2 \in 1..(Len(rf) + 1)
          /\ i \in Nat /\ j \in Nat /\ i >= 1 /\ j >= 1 /\ (j # 1 => 2 <= j)
      BY <1>1, <1>4, <1>6, <2>1
    <3>2. /\ i <= j => at[i] <= at[j]
          /\ j # 1 => at[2] <= at[j]
          /\ at[i] \in Nat /\ at[j] \in Nat
      BY <3>1 DEF ChainOf
    <3>3. rf[1].m = "FBR" => at[1] + 1 <= at[2]
      BY <1>4, <1>6
    <3>4. /\ AtRest(at)[i] = IF rf[1].m = "FBR" /\ i = 1 THEN at[1] + 1 ELSE at[i]
          /\ AtRest(at)[j] = IF rf[1].m = "FBR" /\ j = 1 THEN at[1] + 1 ELSE at[j]
      BY <2>3, <3>1
    <3>5. CASE rf[1].m = "FBR" /\ i = 1 /\ j # 1
      BY <1>4, <1>6, <3>2, <3>3, <3>4, <3>5
    <3>6. CASE rf[1].m = "FBR" /\ i = 1 /\ j = 1
      BY <1>4, <1>6, <3>4, <3>6
    <3>7. CASE ~(rf[1].m = "FBR" /\ i = 1)
      <4>1. i <= j => ~(rf[1].m = "FBR" /\ j = 1)
        BY <3>1, <3>7
      <4> QED
        BY <3>2, <3>4, <3>7, <4>1
    <3> QED
      BY <3>5, <3>6, <3>7
  <2>8. \A i \in 1..Len(Rest) : Rest[i].m = "FBR" =>
           FirstRest(at)[i] = [addr |-> fbr.addr, word |-> AtRest(at)[i]]
    <3> SUFFICES ASSUME NEW i \in 1..Len(Rest), Rest[i].m = "FBR"
                 PROVE  FirstRest(at)[i] = [addr |-> fbr.addr, word |-> AtRest(at)[i]]
      OBVIOUS
    <3>1. i \in 1..Len(rf) /\ rf[i].m = "FBR" /\ i \in 1..(Len(rf) + 1)
      BY <1>1, <2>1
    <3>2. FirstOf(rf, at)[i] = [addr |-> fbr.addr, word |-> at[i]]
      BY <1>2, <3>1
    <3>3. CASE i = 1
      BY <2>1, <2>3, <3>1, <3>2, <3>3
    <3>4. CASE i # 1
      BY <2>1, <2>3, <3>1, <3>2, <3>4
    <3> QED
      BY <3>3, <3>4
  <2> QED
    BY <2>3, <2>4, <2>5, <2>6, <2>7, <2>8 DEF ChainOf
<1> QED
  BY <1>3, <1>5, <1>6

\* The places of a longer queue.
LEMMA PushPlaces ==
    ASSUME NEW q \in Seq(Entry), NEW e \in Entry, NEW hi \in Nat,
           NEW at \in [1..(Len(q) + 1) -> Nat]
    PROVE  /\ Len(Append(q, e)) = Len(q) + 1
           /\ AtPush(q, e, hi, at) \in [1..(Len(Append(q, e)) + 1) -> Nat]
           /\ \A i \in 1..(Len(q) + 1) : AtPush(q, e, hi, at)[i] = at[i]
           /\ AtPush(q, e, hi, at)[Len(q) + 2] = Past(e, hi)
<1>1. Len(q) \in Nat /\ Past(e, hi) \in Nat /\ Len(Append(q, e)) = Len(q) + 1
  <2>1. e.n \in Nat
    BY DEF Entry
  <2> QED
    BY <2>1, LenProperties, AppendProperties DEF Past
<1> QED
  BY <1>1 DEF AtPush

\* A read joins the end of the chain.
LEMMA ChainPush ==
    ASSUME NEW q \in Seq(Entry), NEW e \in Entry, NEW lo, NEW hi \in Nat,
           NEW at \in [1..(Len(q) + 1) -> Nat], ChainOf(q, lo, hi, at)
    PROVE  ChainOf(Append(q, e), lo, Past(e, hi), AtPush(q, e, hi, at))
<1> DEFINE r == Append(q, e)
           to == Past(e, hi)
           long == AtPush(q, e, hi, at)
<1>1. /\ Len(q) \in Nat /\ e.n \in Nat /\ to \in Nat /\ hi <= to /\ at[Len(q) + 1] = hi
      /\ Len(r) = Len(q) + 1 /\ r[Len(q) + 1] = e /\ \A i \in 1..Len(q) : r[i] = q[i]
  <2>1. e.n \in Nat
    BY DEF Entry
  <2> QED
    BY <2>1, LenProperties, AppendProperties DEF Past, ChainOf
<1>2. /\ long \in [1..(Len(r) + 1) -> Nat] /\ \A i \in 1..(Len(q) + 1) : long[i] = at[i]
      /\ long[Len(q) + 2] = to /\ Len(r) + 1 = Len(q) + 2
  BY <1>1, PushPlaces
<1> HIDE DEF r, to, long
<1>3. 1 \in 1..(Len(q) + 1) /\ Len(q) + 1 \in 1..(Len(q) + 1)
  BY <1>1
<1>4. long[1] = lo /\ long[Len(q) + 1] = hi
  BY <1>2, <1>3 DEF ChainOf
<1>5. \A i \in 1..Len(r) : long[i + 1] = IF r[i].m = "FBR" THEN long[i] + r[i].n ELSE long[i]
  <2> TAKE i \in 1..Len(r)
  <2>1. CASE i \in 1..Len(q)
    <3>1. i \in 1..(Len(q) + 1) /\ i + 1 \in 1..(Len(q) + 1)
      BY <1>1, <2>1
    <3> QED
      BY <1>1, <1>2, <2>1, <3>1 DEF ChainOf
  <2>2. CASE i = Len(q) + 1
    <3>1. i + 1 = Len(q) + 2
      BY <1>1, <2>2
    <3> QED
      BY <1>1, <1>2, <1>4, <2>2, <3>1 DEF to, Past
  <2> QED
    BY <1>1, <2>1, <2>2
<1>6. \A i, j \in 1..(Len(r) + 1) : i <= j => long[i] <= long[j]
  <2> SUFFICES ASSUME NEW i \in 1..(Len(r) + 1), NEW j \in 1..(Len(r) + 1), i <= j
               PROVE  long[i] <= long[j]
    OBVIOUS
  <2>1. CASE j \in 1..(Len(q) + 1)
    <3>1. i \in 1..(Len(q) + 1)
      BY <1>1, <2>1
    <3> QED
      BY <1>2, <2>1, <3>1 DEF ChainOf
  <2>2. CASE j = Len(q) + 2 /\ i \in 1..(Len(q) + 1)
    <3>1. i <= Len(q) + 1
      BY <1>1, <2>2
    <3>2. at[i] <= at[Len(q) + 1] /\ at[Len(q) + 1] = hi
      BY <1>3, <2>2, <3>1 DEF ChainOf
    <3>3. long[i] <= hi /\ long[i] \in Nat
      BY <1>2, <2>2, <3>2
    <3> QED
      BY <1>1, <1>2, <2>2, <3>3
  <2>3. CASE j = Len(q) + 2 /\ i = Len(q) + 2
    BY <1>1, <1>2, <2>3
  <2>4. \/ j \in 1..(Len(q) + 1) \/ j = Len(q) + 2
    BY <1>1
  <2>5. \/ i \in 1..(Len(q) + 1) \/ i = Len(q) + 2
    BY <1>1
  <2> QED
    BY <2>1, <2>2, <2>3, <2>4, <2>5
<1>7. ChainOf(r, lo, to, long)
  BY <1>2, <1>4, <1>5, <1>6 DEF ChainOf
<1> QED
  BY <1>2, <1>4, <1>7 DEF r, to, long

-----------------------------------------------------------------------------
\* Where the display's next entry will start.
LEMMA EndMoves ==
    ASSUME IInv, NEW b, ClockWith(b), fbr.act
    PROVE  /\ Mux!Push(b) /\ cmd.m = "FBR" => /\ cmd.word = EndOfFbr /\ cmd.addr = fbr.addr
                                              /\ EndOfFbr' = EndOfFbr + cmd.n
           /\ ~(Mux!Push(b) /\ cmd.m = "FBR") => EndOfFbr' = EndOfFbr
           /\ EndOfFbr \in Nat
<1>1. /\ BurstInv /\ cmd.n \in Nat /\ cmd.word \in Nat /\ fbr.nxt \in Nat
      /\ ~Mux!Accepts(rq, "FBR")
  BY BurstWires DEF IInv, BurstInv, KindInv
<1>2. FbrCmd' <=> cmd'.v /\ cmd'.m = "FBR"
  BY DEF FbrCmd, Mux!FbrCommand
<1>3. FbrCmd => cmd.v /\ cmd.m = "FBR" /\ cmd.addr = fbr.addr /\ cmd.word + cmd.n = fbr.nxt
  BY <1>1 DEF BurstInv, FbrCmd, Mux!FbrCommand
<1>4. CASE Mux!Push(b) /\ cmd.m = "FBR"
  <2>1. Mux!Take(b) /\ FbrCmd
    BY <1>4, BurstWires
  <2>2. ~Mux!LoadsOf(rq, b, "FBR") /\ ~FbrCmd'
    BY <1>2, <2>1, BurstWires
  <2>3. fbr'.nxt = fbr.nxt
    BY <1>1, <2>2, BurstWires
  <2> QED
    BY <1>1, <1>3, <1>4, <2>1, <2>2, <2>3 DEF EndOfFbr
<1>5. CASE ~(Mux!Push(b) /\ cmd.m = "FBR") /\ Mux!LoadsOf(rq, b, "FBR")
  <2>1. ~FbrCmd /\ FbrCmd' /\ cmd'.word = fbr.nxt
    BY <1>2, <1>5, BurstWires
  <2> QED
    BY <1>1, <1>5, <2>1 DEF EndOfFbr
<1>6. CASE ~(Mux!Push(b) /\ cmd.m = "FBR") /\ ~Mux!LoadsOf(rq, b, "FBR")
  <2>1. fbr'.nxt = fbr.nxt
    BY <1>1, <1>6, BurstWires
  <2>2. FbrCmd' => FbrCmd /\ cmd' = cmd
    BY <1>2, <1>6, BurstWires
  <2>3. FbrCmd => cmd' = cmd /\ FbrCmd'
    <3>1. FbrCmd => ~Mux!Take(b) /\ cmd.v
      BY <1>3, <1>6, BurstWires
    <3>2. FbrCmd => cmd' = cmd
      BY <3>1, CommandMoves DEF ClockWith, IInv, KindInv, Mux!Masters
    <3> QED
      BY <1>2, <1>3, <3>2
  <2> QED
    BY <1>1, <1>6, <2>1, <2>2, <2>3 DEF EndOfFbr
<1> QED
  BY <1>4, <1>5, <1>6

\* The places the display's entries have after the clock make the stream.
LEMMA StreamIs ==
    ASSUME IInv, NEW b, ClockWith(b), NEW at, Streams(rf, owed, dout, FirstOf(rf, at)),
           NEW to \in [1..(Len(rf') + 1) -> Nat],
           \A i \in 1..Len(Rest) : Rest[i].m = "FBR" =>
              FirstRest(at)[i] = [addr |-> fbr'.addr, word |-> to[i]],
           Mux!Push(b) /\ cmd.m = "FBR" =>
              cmd.addr = fbr'.addr /\ cmd.word = to[Len(Rest) + 1],
           fbr'.act => ChainOf(rf', fill_pos'[Fetched'], EndOfFbr', to)
    PROVE  StreamInv'
<1>1. Streams(rf', owed', dout', FirstOf(rf, to)')
  BY StreamsStep
<1>2. fbr'.act => ChainOf(rf, fill_pos[Fetched], EndOfFbr, to)'
  BY DEF ChainOf
<1> QED
  BY <1>1, <1>2 DEF StreamInv

\* A burst begins with nothing of the display's queued.
LEMMA StreamBegins ==
    ASSUME IInv, NEW b, ClockWith(b), ~fbr.act
    PROVE  StreamInv'
<1>1. /\ BurstInv /\ rf \in Seq(Entry) /\ DOMAIN rf = 1..Len(rf)
      /\ rf' \in Seq(Entry) /\ Len(rf') \in Nat /\ DOMAIN rf' = 1..Len(rf')
  BY BridgeTypes, LenProperties DEF IInv, KindInv
<1>2. ~FbrCmd /\ \A i \in 1..Len(rf) : rf[i].m # "FBR"
  BY <1>1 DEF BurstInv
<1>3. PICK at : Streams(rf, owed, dout, FirstOf(rf, at))
  BY DEF IInv, StreamInv
<1>4. \A i \in 1..Len(rf') : rf'[i].m # "FBR"
  BY <1>1, <1>2, NoFbrEntry
<1>5. FetchInv' /\ Fetched' \in Fetch!Readers /\ fill_pos'[Fetched'] \in Nat
  <2>1. FetchInv'
    BY FetchStep
  <2>2. Fetched' \in Fetch!Readers
    BY DEF Fetched, Owner, Presented, Fetch!Reader, Fetch!Readers
  <2> QED
    BY <2>1, <2>2 DEF FetchInv
<1> DEFINE lo == fill_pos'[Fetched']
           to == [i \in 1..(Len(rf') + 1) |-> lo]
<1>6. to \in [1..(Len(rf') + 1) -> Nat]
  BY <1>5
<1>7. \A i \in 1..Len(Rest) : Rest[i].m # "FBR"
  BY <1>2, RestIs
<1>8. ~(Mux!Push(b) /\ cmd.m = "FBR")
  BY <1>2, BurstWires
<1> HIDE DEF to
<1>10. fbr'.act => EndOfFbr' = lo
  <2> SUFFICES ASSUME fbr'.act PROVE EndOfFbr' = lo
    OBVIOUS
  <2>1. Mux!Accepts(rq, "FBR")
    BY BurstWires
  <2>2. sel_valid /\ fbr'.nxt = fill_pos[Presented] /\ ~FbrWord /\ ~fbr_taken_q /\ ~busy
    BY <2>1, BurstWires, FbrWordIs, TakenIs DEF IInv, FetchInv
  <2>3. fill_pos'[Presented] = fill_pos[Presented] /\ Presented' = Presented /\ ~busy'
    BY <2>2, QuietStep
  <2>4. Fetched' = Presented
    BY <2>3 DEF Fetched
  <2>5. ~FbrCmd'
    <3>1. FbrCmd' <=> cmd'.v /\ cmd'.m = "FBR"
      BY DEF FbrCmd, Mux!FbrCommand
    <3> QED
      BY <1>2, <3>1, BurstWires
  <2> QED
    BY <2>2, <2>3, <2>4, <2>5 DEF EndOfFbr
<1>11. ChainOf(rf', lo, lo, to)
  BY <1>1, <1>4, <1>5 DEF ChainOf, to
<1>12. fbr'.act => ChainOf(rf', lo, EndOfFbr', to)
  BY <1>10, <1>11
<1> QED
  BY <1>3, <1>6, <1>7, <1>8, <1>12, StreamIs

\* A burst under way.
LEMMA StreamGoesOn ==
    ASSUME IInv, NEW b, ClockWith(b), fbr.act
    PROVE  StreamInv'
<1>1. PICK at \in [1..(Len(rf) + 1) -> Nat] :
        /\ Streams(rf, owed, dout, FirstOf(rf, at))
        /\ ChainOf(rf, fill_pos[Fetched], EndOfFbr, at)
  BY DEF IInv, StreamInv
<1> DEFINE lo == IF FbrWord THEN fill_pos[Fetched] + 1 ELSE fill_pos[Fetched]
           e == [m |-> cmd.m, n |-> cmd.n]
           hi == Past(e, EndOfFbr)
<1>2. fill_pos[Fetched] \in Nat /\ EndOfFbr \in Nat
  BY EndMoves, PresentedIs DEF IInv, FetchInv
<1>3. /\ AtRest(at) \in [1..(Len(Rest) + 1) -> Nat]
      /\ ChainOf(Rest, lo, EndOfFbr, AtRest(at))
      /\ \A i \in 1..Len(Rest) : Rest[i].m = "FBR" =>
           FirstRest(at)[i] = [addr |-> fbr.addr, word |-> AtRest(at)[i]]
  BY <1>1, <1>2, ChainRest
<1>4. /\ rf' \in Seq(Entry) /\ Rest \in Seq(Entry) /\ Len(Rest) \in Nat
      /\ Mux!Push(b) => e \in Entry /\ rf' = Append(Rest, e)
      /\ ~Mux!Push(b) => rf' = Rest
  <2>1. Mux!ReadQueue(b, dout) /\ rf \in Seq(Entry) /\ (Mux!Push(b) => e \in Entry)
    BY PushedEntry DEF ClockWith, Mux!Clock, IInv, KindInv
  <2> QED
    BY <1>1, <2>1, BridgeTypes, RestIs, RestStream, QueueMoves DEF Rest
<1> HIDE DEF e
<1>5. ASSUME Mux!Push(b)
      PROVE  \E to \in [1..(Len(rf') + 1) -> Nat] :
                /\ ChainOf(rf', lo, hi, to)
                /\ \A i \in 1..(Len(Rest) + 1) : to[i] = AtRest(at)[i]
                /\ to[Len(Rest) + 1] = EndOfFbr
  <2>1. e \in Entry /\ rf' = Append(Rest, e)
    BY <1>4, <1>5
  <2>2. ChainOf(Rest, lo, EndOfFbr, AtRest(at))
    BY <1>3
  <2>3. EndOfFbr \in Nat /\ Rest \in Seq(Entry) /\ AtRest(at) \in [1..(Len(Rest) + 1) -> Nat]
    BY <1>2, <1>3, <1>4
  <2> HIDE DEF lo
  <2> DEFINE long == AtPush(Rest, e, EndOfFbr, AtRest(at))
  <2>4. ChainOf(Append(Rest, e), lo, hi, long)
    BY <2>1, <2>2, <2>3, ChainPush
  <2>5. /\ long \in [1..(Len(Append(Rest, e)) + 1) -> Nat]
        /\ \A i \in 1..(Len(Rest) + 1) : long[i] = AtRest(at)[i]
    BY <2>1, <2>3, PushPlaces
  <2>6. Len(Rest) + 1 \in 1..(Len(Rest) + 1) /\ AtRest(at)[Len(Rest) + 1] = EndOfFbr
    BY <1>4, <2>2 DEF ChainOf
  <2> HIDE DEF long, hi
  <2>7. ChainOf(rf', lo, hi, long)
    BY <2>1, <2>4
  <2>8. long[Len(Rest) + 1] = EndOfFbr
    BY <2>5, <2>6
  <2> QED
    BY <2>1, <2>5, <2>7, <2>8
<1>6. PICK to \in [1..(Len(rf') + 1) -> Nat] :
        /\ ChainOf(rf', lo, EndOfFbr', to)
        /\ \A i \in 1..Len(Rest) : to[i] = AtRest(at)[i]
        /\ Mux!Push(b) => to[Len(Rest) + 1] = EndOfFbr
  <2>1. CASE Mux!Push(b)
    <3>1. EndOfFbr' = hi
      BY <2>1, EndMoves DEF e, Past
    <3>2. \A i \in 1..Len(Rest) : i \in 1..(Len(Rest) + 1)
      BY <1>4
    <3> HIDE DEF hi, lo
    <3> QED
      BY <1>5, <2>1, <3>1, <3>2
  <2>2. CASE ~Mux!Push(b)
    <3>1. EndOfFbr' = EndOfFbr /\ rf' = Rest
      BY <1>4, <2>2, EndMoves
    <3> HIDE DEF hi, lo
    <3> QED
      BY <1>3, <2>2, <3>1
  <2> QED
    BY <2>1, <2>2
<1> HIDE DEF hi
<1>7. fbr'.addr = fbr.addr
  BY BurstWires
<1>8. \A i \in 1..Len(Rest) : Rest[i].m = "FBR" =>
         FirstRest(at)[i] = [addr |-> fbr'.addr, word |-> to[i]]
  BY <1>3, <1>6, <1>7
<1>9. Mux!Push(b) /\ cmd.m = "FBR" => cmd.addr = fbr'.addr /\ cmd.word = to[Len(Rest) + 1]
  BY <1>6, <1>7, EndMoves
<1>11. fbr'.act => fill_pos'[Fetched'] = lo
  <2>1. CASE fbr_taken_q
    <3>1. ~FbrWord /\ Fetched = Presented
      BY <2>1, TakenIs
    <3>2. busy' /\ Owner' = Presented /\ fill_pos'[Presented] = fill_pos[Presented]
      BY <2>1, TakenStep
    <3>3. Fetched' = Presented
      BY <3>2 DEF Fetched
    <3> QED
      BY <3>1, <3>2, <3>3
  <2>2. CASE FbrWord
    <3>1. fbr.rxl = left /\ left \in Nat \ {0} /\ Fetched = Owner
      BY <2>2, FbrWordIs
    <3>2. (busy' <=> left > 1) /\ Owner' = Owner /\ fill_pos'[Owner] = fill_pos[Owner] + 1
      BY <2>2, WordStep
    <3>3. fbr'.act => left > 1
      BY <2>2, <3>1, BurstWires
    <3>4. fbr'.act => Fetched' = Owner
      BY <3>2, <3>3 DEF Fetched
    <3> QED
      BY <2>2, <3>1, <3>2, <3>4
  <2>3. CASE ~fbr_taken_q /\ ~FbrWord
    <3>1. /\ (busy' <=> busy) /\ Owner' = Owner
          /\ sel_valid => sel_valid' /\ Presented' = Presented
          /\ sel_valid => fill_pos'[Presented] = fill_pos[Presented]
          /\ busy => fill_pos'[Owner] = fill_pos[Owner]
      BY <2>3, QuietStep
    <3>2. ~busy => sel_valid
      BY DEF IInv, BurstInv
    <3>3. Fetched' = Fetched /\ fill_pos'[Fetched] = fill_pos[Fetched]
      BY <3>1, <3>2 DEF Fetched
    <3> QED
      BY <2>3, <3>3
  <2> QED
    BY <2>1, <2>2, <2>3
<1>12. fbr'.act => ChainOf(rf', fill_pos'[Fetched'], EndOfFbr', to)
  BY <1>6, <1>11
<1> HIDE DEF lo
<1> QED
  BY <1>1, <1>6, <1>8, <1>9, <1>12, StreamIs

\* What the bridge owes is what the queue says after the clock.
LEMMA StreamStep ==
    ASSUME IInv, NEW b, ClockWith(b)
    PROVE  StreamInv'
BY StreamBegins, StreamGoesOn

-----------------------------------------------------------------------------
\* The invariant holds at first.
LEMMA InvInit ==
    Init => IInv
<1> SUFFICES ASSUME Init PROVE IInv
  OBVIOUS
<1> USE DEF Init, Mux!Init, Fetch!Init
<1>1. KindInv
  <2>1. Mux!NoPayload \in Request
    BY DEF Mux!NoPayload, Request
  <2>2. cmd \in [v : BOOLEAN, m : Mux!Masters, we : BOOLEAN, addr : Nat, word : Nat,
                 n : Nat, wl_left : Nat]
    BY DEF Mux!NoCommand, Mux!Masters
  <2>3. rf \in Seq(Entry) /\ owed \in Seq(OwedWord)
    BY EmptySeq
  <2> QED
    BY <2>1, <2>2, <2>3 DEF KindInv, Flags
<1>2. WhereInv
  BY DEF WhereInv, RIdle, Waiters, Mux!Masters, Requesters
<1>3. CmdInv /\ QueueInv
  <2>1. DOMAIN rf = {} /\ ~cmd.v
    BY DEF Mux!NoCommand
  <2>2. \A m \in Mux!Masters : ~pend[m] /\ ~busy_m[m] /\ ~ack_q[m]
    OBVIOUS
  <2>3. "FBR" \in Mux!Masters /\ "BCN" \in Mux!Masters
    BY DEF Mux!Masters
  <2> QED
    BY <2>1, <2>2, <2>3 DEF CmdInv, QueueInv
<1>4. FetchInv
  <2>1. /\ fst \in [Fetch!Readers -> {"F_IDLE", "F_REQ", "F_DATA"}]
        /\ fill_pos \in [Fetch!Readers -> Nat] /\ burst_left \in [Fetch!Readers -> Int]
        /\ left \in Int /\ ~sel_valid /\ ~busy
        /\ \A r \in Fetch!Readers : fst[r] = "F_IDLE"
    OBVIOUS
  <2>2. {sel_valid, sel_b, busy, owner_b, fbr_taken_q} \subseteq BOOLEAN
    OBVIOUS
  <2> QED
    BY <2>1, <2>2 DEF FetchInv
<1>5. BurstInv
  BY DEF BurstInv, Mux!NoBurst, FbrCmd, Mux!FbrCommand, Mux!NoCommand
<1>6. StreamInv
  <2> DEFINE at == [i \in 1..(Len(rf) + 1) |-> 0]
             start == [i \in 1..(Len(rf) + 1) |-> 1]
  <2>1. Len(rf) = 0 /\ Len(owed) = 0
    BY EmptySeq
  <2>2. at \in [1..(Len(rf) + 1) -> Nat]
    OBVIOUS
  <2>3. FirstOf(rf, at) \in [1..Len(rf) -> FirstWord]
    BY <2>1 DEF FirstOf
  <2>4. StreamOf(rf, owed, dout, FirstOf(rf, at), start)
    BY <2>1, <2>3 DEF StreamOf, Base
  <2>5. ~fbr.act
    BY DEF Mux!NoBurst
  <2> QED
    BY <2>2, <2>4, <2>5 DEF StreamInv, Streams
<1> QED
  BY <1>1, <1>2, <1>3, <1>4, <1>5, <1>6 DEF IInv

\* Every clock keeps the invariant.
LEMMA InvStep ==
    IInv /\ [Next]_vars => IInv'
<1> SUFFICES ASSUME IInv, [Next]_vars PROVE IInv'
  OBVIOUS
<1>1. ASSUME NEW b \in BOOLEAN, ClockWith(b)
      PROVE  IInv'
  <2>1. KindInv' /\ WhereInv' /\ QueueInv' /\ FetchInv' /\ BurstInv' /\ StreamInv'
    BY <1>1, KindStep, WhereStep, QueueStep, FetchStep, BurstStep, StreamStep
  <2>2. CmdInv'
    BY <1>1, CommandStep, BeaconStep, BurstWires DEF CmdInv
  <2> QED
    BY <2>1, <2>2 DEF IInv
<1>2. CASE UNCHANGED vars
  <2> USE <1>2 DEF vars, Mux!muxVars, Fetch!fetchVars, envVars
  <2>1. KindInv'
    BY DEF KindInv, IInv, Requests
  <2>2. WhereInv'
    <3> USE DEF WhereInv
    <3> TAKE m \in Waiters
    <3>1. /\ Due(m)' = Due(m) /\ (Fits(m)' <=> Fits(m)) /\ (Kept(m)' <=> Kept(m))
          /\ (Given(m)' <=> Given(m))
      BY DEF Due, Fits, Kept, Given, Quiet, Requests
    <3>2. (RIdle(m)' <=> RIdle(m)) /\ (OnWire(m)' <=> OnWire(m)) /\ (Latched(m)' <=> Latched(m))
      BY <3>1 DEF RIdle, OnWire, Latched
    <3>3. (Before(m)' <=> Before(m)) /\ (Done(m)' <=> Done(m))
      BY <3>1 DEF Before, Done
    <3>4. Reading(m)' <=> Reading(m)
      BY <3>1 DEF Reading
    <3> QED
      BY <3>1, <3>2, <3>3, <3>4 DEF IInv, WhereInv
  <2>3. CmdInv' /\ QueueInv'
    BY DEF CmdInv, QueueInv, IInv, Before, Reading, Kept, Given, Quiet, Due
  <2>4. FetchInv'
    BY DEF FetchInv, IInv, Owner, Presented
  <2>5. BurstInv'
    BY DEF BurstInv, IInv, Owner, Presented, Fetched, FbrCmd, Mux!FbrCommand, Fetch!BurstOf
  <2>6. StreamInv'
    <3>1. PICK at \in [1..(Len(rf) + 1) -> Nat] :
            /\ Streams(rf, owed, dout, FirstOf(rf, at))
            /\ fbr.act => ChainOf(rf, fill_pos[Fetched], EndOfFbr, at)
      BY DEF IInv, StreamInv
    <3>2. Fetched' = Fetched /\ EndOfFbr' = EndOfFbr
      BY DEF Owner, Presented, Fetched, FbrCmd, Mux!FbrCommand, EndOfFbr
    <3>3. FirstOf(rf, at)' = FirstOf(rf, at)
      BY DEF FirstOf
    <3>4. ChainOf(rf, fill_pos[Fetched], EndOfFbr, at)' <=> ChainOf(rf, fill_pos[Fetched], EndOfFbr, at)
      BY <3>2 DEF ChainOf
    <3>5. Streams(rf, owed, dout, FirstOf(rf, at))'
      BY <3>1, <3>3
    <3> QED
      BY <3>1, <3>4, <3>5 DEF StreamInv
  <2> QED
    BY <2>1, <2>2, <2>3, <2>4, <2>5, <2>6 DEF IInv
<1> QED
  BY <1>1, <1>2 DEF Next

\* The inductive invariant of ddr3_mux among its masters.
THEOREM Invariant ==
    Spec => []IInv
BY InvInit, InvStep, PTL DEF Spec

\* The invariant says that answers match.
LEMMA AnswersFromInv ==
    IInv => AnswersMatch
<1> SUFFICES ASSUME IInv PROVE AnswersMatch
  OBVIOUS
<1>1. ASSUME NEW m \in Requesters \ {"BCN"}, ack_q[m]
      PROVE  /\ waiting[m]
             /\ asked[m].we => got[m] = Due(m)
             /\ ~asked[m].we =>
                  /\ rdata_q = [who |-> m, addr |-> asked[m].addr, word |-> got[m] - 1]
                  /\ Finished(m) <=> got[m] = Due(m)
  <2>1. m \in Waiters
    BY DEF Waiters
  <2>2. Fits(m) /\ (Reading(m) \/ Done(m))
    <3>1. ~RIdle(m) /\ ~OnWire(m) /\ ~Latched(m) /\ ~Before(m)
      BY <1>1 DEF RIdle, OnWire, Latched, Before
    <3> QED
      BY <2>1, <3>1 DEF IInv, WhereInv
  <2>3. Due(m) \in Nat /\ got[m] \in Nat
    <3>1. Due(m) \in 1..4
      BY <2>1, <2>2, DueIs DEF IInv
    <3>2. got[m] \in Nat
      BY DEF IInv, KindInv
    <3> QED
      BY <3>1, <3>2
  <2>4. CASE Reading(m)
    BY <1>1, <2>3, <2>4 DEF Reading, Kept, Given, Finished
  <2>5. CASE Done(m)
    BY <1>1, <2>3, <2>5 DEF Done, Kept, Given, Finished
  <2> QED
    BY <2>2, <2>4, <2>5
<1>2. ASSUME FbrWord
      PROVE  \E r \in Fetch!Readers :
               /\ fst[r] = "F_DATA" /\ Fetch!ValidFor(r, TRUE)
               /\ dout = [who |-> "FBR", addr |-> r, word |-> fill_pos[r]]
  <2>1. /\ busy /\ fst[Owner] = "F_DATA" /\ Owner \in Fetch!Readers
        /\ dout = [who |-> "FBR", addr |-> Owner, word |-> fill_pos[Owner]]
    BY <1>2, FbrWordIs, PresentedIs DEF IInv
  <2>2. Fetch!ValidFor(Owner, TRUE)
    BY <2>1 DEF Fetch!ValidFor, Owner
  <2> QED
    BY <2>1, <2>2
<1> QED
  BY <1>1, <1>2 DEF AnswersMatch

\* The invariant says that commands are wanted.
LEMMA CommandsFromInv ==
    IInv => CommandsAreWanted
<1> SUFFICES ASSUME IInv, cmd.v, cmd.m \in Requesters \ {"BCN"}
             PROVE  /\ waiting[cmd.m] /\ ~ack_q[cmd.m]
                    /\ cmd.we = asked[cmd.m].we /\ cmd.addr = asked[cmd.m].addr
                    /\ cmd.we => cmd.word = got[cmd.m] /\ got[cmd.m] < Due(cmd.m)
  BY DEF CommandsAreWanted
<1>1. Before(cmd.m)
  BY DEF IInv, CmdInv, Waiters
<1> QED
  BY <1>1 DEF Before, Kept

\* The invariant says that a line write stays in front of the bridge.
LEMMA OnePieceFromInv ==
    IInv => LineWriteInOnePiece
<1> SUFFICES ASSUME IInv, asked["RAM"].we, got["RAM"] \in 1..(Due("RAM") - 1)
             PROVE  cmd.v /\ cmd.m = "RAM"
  BY DEF LineWriteInOnePiece
<1>1. "RAM" \in Waiters
  BY DEF Waiters, Requesters
<1>2. ~RIdle("RAM")
  <2>1. got["RAM"] # 0 /\ got["RAM"] # Due("RAM")
    <3>1. Due("RAM") \in Nat
      BY <1>1 DEF IInv, KindInv, Due, Requesters, Request
    <3> QED
      BY <3>1
  <2> QED
    BY <2>1 DEF RIdle
<1>3. /\ Fits("RAM")
      /\ \/ OnWire("RAM") \/ Latched("RAM") \/ Before("RAM") \/ Reading("RAM") \/ Done("RAM")
  BY <1>1, <1>2 DEF IInv, WhereInv
<1>4. got["RAM"] # 0 /\ got["RAM"] # Due("RAM")
  <2>1. Due("RAM") \in Nat
    BY <1>1, <1>3, DueIs DEF IInv
  <2> QED
    BY <2>1
<1>5. Before("RAM")
  BY <1>3, <1>4 DEF OnWire, Latched, Reading, Done
<1> QED
  BY <1>5 DEF Before

\* An acknowledgement of ddr3_mux comes to a master that waits, with the word it
\* has not had yet, and tells the last word from the others; a word of the
\* display comes to the reader whose burst is in flight, in its place.
THEOREM AnswersMatchTheorem ==
    Spec => []AnswersMatch
BY Invariant, AnswersFromInv, PTL

\* A command of ddr3_mux is one its master still waits for: no request is taken
\* twice, held or not.
THEOREM CommandsAreWantedTheorem ==
    Spec => []CommandsAreWanted
BY Invariant, CommandsFromInv, PTL

\* Between the doublewords of main memory's line write nothing else is in front
\* of the bridge.
THEOREM LineWriteInOnePieceTheorem ==
    Spec => []LineWriteInOnePiece
BY Invariant, OnePieceFromInv, PTL

-----------------------------------------------------------------------------
(* Main memory's master keeps the contract of its port.                    *)

LEMMA OwedIs ==
    IInv => OwedFits
<1> SUFFICES ASSUME IInv PROVE OwedFits
  OBVIOUS
<1>1. "RAM" \in Waiters /\ rf \in Seq(Entry) /\ DOMAIN rf = 1..Len(rf)
  BY LenProperties DEF Waiters, Requesters, IInv, KindInv
<1>2. RIdle("RAM") \/ OnWire("RAM") \/ Done("RAM") => RamOwed = 0
  BY DEF RIdle, OnWire, Done, RamOwed
<1>3. Latched("RAM") => RamOwed = Port!Acks(RamRequest(asked["RAM"]))
  BY DEF Latched, Kept, RamOwed, Port!Acks, RamRequest
<1>4. Before("RAM") => RamOwed = Port!Acks(RamRequest(asked["RAM"]))
  BY DEF Before, Kept, RamOwed, Port!Acks, RamRequest, Due
<1>5. ASSUME Reading("RAM") PROVE RamOwed = Due("RAM") - got["RAM"]
  <2>1. PICK i \in 1..Len(rf) : rf[i].m = "RAM"
    BY <1>1, <1>5 DEF Reading
  <2>2. /\ rf[i].n = Due("RAM") - got["RAM"]
        /\ \A j \in 1..Len(rf) : rf[j].m = "RAM" => j = i
    BY <1>1, <2>1 DEF IInv, QueueInv
  <2>3. rf[i] \in Range(rf) /\ \A e \in Range(rf) : \E j \in 1..Len(rf) : e = rf[j]
    BY <1>1 DEF Range
  <2>4. (CHOOSE e \in Range(rf) : e.m = "RAM") = rf[i]
    BY <2>1, <2>2, <2>3
  <2> QED
    BY <1>5, <2>2, <2>4 DEF Reading, RamOwed
<1> QED
  BY <1>2, <1>3, <1>4, <1>5 DEF OwedFits

\* The same in the next state.
LEMMA OwedNext ==
    IInv' => OwedFits'
BY OwedIs, PTL

\* A clock without an acknowledgement for main memory.
LEMMA WaitIs ==
    ASSUME NEW r, NEW n, ~ack_q'["RAM"], ack_q' \in Flags(Mux!Masters), ram_last_q' = TRUE,
           RamOwed' = n,
           r = IF RamOwed' > 0 THEN RamRequest(p'["RAM"]) ELSE NoRequest
    PROVE  Port!Wait(r, n)
<1>1. ack_q'["RAM"] = FALSE
  BY DEF Flags, Mux!Masters
<1>2. RamRequest(p["RAM"])' = RamRequest(p'["RAM"])
  BY DEF RamRequest
<1> QED
  BY <1>1, <1>2 DEF Port!Wait, Port!NoData

\* No word of main memory's read: the mark of the last word is up.
LEMMA LastIs ==
    ASSUME IInv, NEW b, ClockWith(b)
    PROVE  /\ ram_last_q' = (Mux!WordOf(dout, "RAM") => Mux!WordEnd(dout))
           /\ ~Reading("RAM") => ram_last_q' = TRUE
           /\ ack_q' \in Flags(Mux!Masters) /\ ack_q'["RAM"] \in BOOLEAN
           /\ "RAM" \in Waiters
           /\ IInv'
<1>1. "RAM" \in Waiters /\ "RAM" \in Mux!Masters
  BY DEF Waiters, Requesters, Mux!Masters
<1>2. ram_last_q' = (Mux!WordOf(dout, "RAM") => Mux!WordEnd(dout))
  BY DEF ClockWith, Mux!Clock, Mux!Answer
<1>3. ~Reading("RAM") => ~Mux!WordOf(dout, "RAM")
  BY <1>1, Wires
<1>4. ack_q' \in Flags(Mux!Masters)
  BY FlagTypes
<1>5. IInv'
  <2>1. KindInv' /\ WhereInv' /\ QueueInv' /\ FetchInv' /\ BurstInv' /\ StreamInv'
    BY KindStep, WhereStep, QueueStep, FetchStep, BurstStep, StreamStep
  <2>2. CmdInv'
    BY CommandStep, BeaconStep, BurstWires DEF CmdInv
  <2> QED
    BY <2>1, <2>2 DEF IInv
<1> QED
  BY <1>1, <1>2, <1>3, <1>4, <1>5 DEF Flags

\* A free port.
LEMMA PortFree ==
    ASSUME IInv, NEW b, ClockWith(b), RIdle("RAM") \/ (Fits("RAM") /\ Done("RAM"))
    PROVE  Port!Clock(line["RAM"] # NoRequest, RamRequest(line["RAM"]))
<1>1. "RAM" \in Waiters /\ IInv' /\ ack_q' \in Flags(Mux!Masters)
      /\ (~Reading("RAM") => ram_last_q' = TRUE)
  BY LastIs
<1>2. line["RAM"] = NoRequest /\ ~Reading("RAM")
  <2>1. "RAM" \in Pulsers
    BY DEF Pulsers
  <2> QED
    BY <2>1 DEF RIdle, Done, Reading, Kept, Quiet
<1>3. RIdle("RAM")' \/ OnWire("RAM")'
  BY <1>1, IdleStep, DoneStep
<1>4. RamOwed' = 0
  BY <1>1, <1>3, OwedNext DEF OwedFits
<1>5. ~ack_q'["RAM"]
  BY <1>3 DEF RIdle, OnWire
<1>6. RamOwed = 0
  BY OwedIs DEF OwedFits
<1>7. Port!Wait(NoRequest, 0)
  BY <1>1, <1>2, <1>4, <1>5, WaitIs
<1> QED
  BY <1>2, <1>6, <1>7 DEF Port!Clock

\* The port takes main memory's request.
LEMMA PortTakes ==
    ASSUME IInv, NEW b, ClockWith(b), Fits("RAM"), OnWire("RAM")
    PROVE  Port!Clock(line["RAM"] # NoRequest, RamRequest(line["RAM"]))
<1>1. "RAM" \in Waiters /\ IInv' /\ ack_q' \in Flags(Mux!Masters) /\ ram_last_q' = TRUE
  BY LastIs DEF OnWire, Reading
<1>2. asked["RAM"] # NoRequest /\ line["RAM"] = asked["RAM"] /\ Due("RAM") \in 1..4
      /\ Due("RAM") = asked["RAM"].words
  BY <1>1, DueIs DEF OnWire, IInv
<1>3. Latched("RAM")' \/ Before("RAM")'
  BY <1>1, WireStep
<1>4. asked'["RAM"] = asked["RAM"] /\ p'["RAM"] = asked["RAM"]
  <2>1. asked'["RAM"] = asked["RAM"]
    BY <1>1, LineStep DEF IInv, OnWire, Finished
  <2> QED
    BY <1>3, <2>1 DEF Latched, Before, Kept
<1> DEFINE r == RamRequest(asked["RAM"])
<1>5. RamOwed' = Port!Acks(r)
  <2>1. RamOwed' = Port!Acks(RamRequest(asked'["RAM"]))
    BY <1>1, <1>3, OwedNext DEF OwedFits, Port!Acks, RamRequest
  <2> QED
    BY <1>4, <2>1
<1>6. ~ack_q'["RAM"]
  BY <1>3 DEF Latched, Before
<1>7. RamOwed' > 0
  BY <1>2, <1>5 DEF Port!Acks, RamRequest
<1>8. Port!Wait(r, Port!Acks(r))
  BY <1>1, <1>4, <1>5, <1>6, <1>7, WaitIs
<1>9. RamOwed = 0
  BY OwedIs DEF OwedFits
<1> QED
  BY <1>2, <1>8, <1>9 DEF Port!Clock

\* The port waits with main memory's request.
LEMMA PortHolds ==
    ASSUME IInv, NEW b, ClockWith(b), Fits("RAM"),
           \/ Latched("RAM")
           \/ Before("RAM") /\ (Before("RAM")' \/ Reading("RAM")')
    PROVE  Port!Clock(line["RAM"] # NoRequest, RamRequest(line["RAM"]))
<1>1. "RAM" \in Waiters /\ IInv' /\ ack_q' \in Flags(Mux!Masters) /\ ram_last_q' = TRUE
  BY LastIs DEF Latched, Before, Reading
<1>2. line["RAM"] = NoRequest
  <2>1. "RAM" \in Pulsers
    BY DEF Pulsers
  <2> QED
    BY <2>1 DEF Latched, Before, Kept, Quiet
<1>3. ~Finished("RAM") /\ Kept("RAM") /\ (pend["RAM"] \/ busy_m["RAM"])
  BY DEF Latched, Before, Finished
<1>4. /\ Latched("RAM")' \/ Before("RAM")' \/ Reading("RAM")'
      /\ Latched("RAM") => Latched("RAM")' \/ Before("RAM")'
  BY <1>1, LatchedStep
<1>5. /\ asked'["RAM"] = asked["RAM"] /\ p'["RAM"] = asked["RAM"] /\ p["RAM"] = asked["RAM"]
      /\ Due("RAM")' = Due("RAM") /\ Due("RAM") \in 1..4 /\ Due("RAM") = asked["RAM"].words
  <2>1. asked'["RAM"] = asked["RAM"] /\ Kept("RAM")' /\ Due("RAM")' = Due("RAM")
    BY <1>1, <1>3, HeldStep
  <2>2. Due("RAM") \in 1..4 /\ Due("RAM") = asked["RAM"].words
    BY <1>1, DueIs DEF IInv
  <2> QED
    BY <1>3, <2>1, <2>2 DEF Kept
<1> DEFINE r == RamRequest(asked["RAM"])
<1>6. RamOwed = Port!Acks(r)
  BY OwedIs DEF OwedFits
<1>7. RamOwed > 0 /\ r = RamRequest(p["RAM"])
  BY <1>5, <1>6 DEF Port!Acks, RamRequest
<1>8. ~ack_q'["RAM"] /\ RamOwed' = Port!Acks(r)
  <2>1. CASE Latched("RAM")' \/ Before("RAM")'
    <3>1. RamOwed' = Port!Acks(RamRequest(asked'["RAM"]))
      BY <1>1, <2>1, OwedNext DEF OwedFits, Port!Acks, RamRequest
    <3> QED
      BY <1>5, <2>1, <3>1 DEF Latched, Before
  <2>2. CASE Before("RAM") /\ Reading("RAM")' /\ ~Before("RAM")'
    <3>1. ~asked["RAM"].we
      BY <1>5, <2>2 DEF Reading
    <3>2. cmd.v /\ cmd.m = "RAM" /\ ~cmd.we /\ got["RAM"] = 0 /\ (\A i \in DOMAIN rf : rf[i].m # "RAM")
      BY <2>2, <3>1 DEF Before
    <3>3. ~ack_q'["RAM"]
      <4>1. ~Mux!WordOf(dout, "RAM") /\ ~Mux!ReadDone(dout, "RAM")
        BY <1>1, <2>2, Wires DEF Before, Reading
      <4>2. ~Mux!WriteDone(b, "RAM")
        BY <3>2 DEF Mux!WriteDone
      <4> QED
        BY <1>1, <4>1, <4>2, MuxRegisters DEF ClockWith
    <3>4. got'["RAM"] = 0
      <4>1. got'["RAM"] = IF \/ Mux!Take(b) /\ cmd.we /\ cmd.m = "RAM"
                             \/ ack_q'["RAM"] /\ ~asked["RAM"].we
                          THEN got["RAM"] + 1 ELSE got["RAM"]
        BY <1>1, <1>3, HeldStep
      <4> QED
        BY <3>2, <3>3, <4>1
    <3>5. RamOwed' = Due("RAM")' - got'["RAM"]
      BY <1>1, <2>2, OwedNext DEF OwedFits
    <3>6. Port!Acks(r) = Due("RAM")
      BY <1>5, <3>1 DEF Port!Acks, RamRequest
    <3> QED
      BY <1>5, <3>3, <3>4, <3>5, <3>6
  <2> QED
    BY <1>4, <2>1, <2>2
<1>9. Port!Wait(r, Port!Acks(r))
  BY <1>1, <1>5, <1>6, <1>7, <1>8, WaitIs
<1> QED
  BY <1>2, <1>6, <1>7, <1>9 DEF Port!Clock

\* The bridge takes the last word of main memory's write.
LEMMA PortWrites ==
    ASSUME IInv, NEW b, ClockWith(b), Fits("RAM"), Before("RAM"), Done("RAM")'
    PROVE  Port!Clock(line["RAM"] # NoRequest, RamRequest(line["RAM"]))
<1>1. /\ "RAM" \in Waiters /\ "RAM" \in Mux!Masters /\ IInv' /\ ack_q' \in Flags(Mux!Masters)
      /\ ram_last_q' = TRUE
  BY LastIs DEF Before, Reading, Mux!Masters
<1>2. line["RAM"] = NoRequest
  <2>1. "RAM" \in Pulsers
    BY DEF Pulsers
  <2> QED
    BY <2>1 DEF Before, Kept, Quiet
<1>3. asked'["RAM"] = asked["RAM"] /\ p'["RAM"] = asked["RAM"] /\ p["RAM"] = asked["RAM"]
  BY <1>1, BeforeStep DEF Before, Done, Kept
<1>4. asked["RAM"].we
  <2>1. ~Mux!WordOf(dout, "RAM") /\ ~Mux!ReadDone(dout, "RAM")
    BY <1>1, Wires DEF Before, Reading
  <2>2. Mux!WriteDone(b, "RAM")
    BY <1>1, <2>1, MuxRegisters DEF ClockWith, Done
  <2> QED
    BY <2>2 DEF Mux!WriteDone, Before
<1> DEFINE r == RamRequest(asked["RAM"])
<1>5. RamOwed = 1 /\ Port!Acks(r) = 1 /\ r = RamRequest(p["RAM"])
  BY <1>3, <1>4, OwedIs DEF OwedFits, Port!Acks, RamRequest
<1>6. ack_q'["RAM"] = TRUE /\ RamOwed' = 0
  BY <1>1, OwedNext DEF OwedFits, Done, Flags
<1>7. asked["RAM"].word \in Nat
  BY <1>1, DueIs DEF IInv
<1>8. Port!Word(r, 1)
  <2>1. r.who = "RAM" /\ r.id = asked["RAM"].addr /\ r.beat = asked["RAM"].word /\ r.we
    BY <1>4 DEF RamRequest
  <2>2. RamRequest(p["RAM"])' = r
    BY <1>3 DEF RamRequest
  <2>3. asked["RAM"].word + (Port!Acks(r) - 1) = asked["RAM"].word
    BY <1>5, <1>7
  <2>4. ~(RamOwed' > 0) /\ p'["RAM"].we
    BY <1>3, <1>4, <1>6
  <2>5. Port!Acks(r) = 1
    BY <1>5
  <2>6. p'["RAM"] = asked["RAM"]
    BY <1>3
  <2> HIDE DEF r
  <2>7. ack_q'["RAM"] = TRUE /\ RamOwed' = 1 - 1
    BY <1>6
  <2>8. ram_last_q' = (1 = 1)
    <3>1. ram_last_q' = TRUE
      BY <1>1
    <3> QED
      BY <3>1, Zenon
  <2> QED
    BY <2>1, <2>2, <2>3, <2>4, <2>6, <2>7, <2>8 DEF Port!Word
<1> QED
  BY <1>2, <1>5, <1>8 DEF Port!Clock

\* Main memory's read is answered, word by word.
LEMMA PortReads ==
    ASSUME IInv, NEW b, ClockWith(b), Fits("RAM"), Reading("RAM")
    PROVE  Port!Clock(line["RAM"] # NoRequest, RamRequest(line["RAM"]))
<1>1. /\ "RAM" \in Waiters /\ "RAM" \in Mux!Masters /\ IInv' /\ ack_q' \in Flags(Mux!Masters)
      /\ ram_last_q' = (Mux!WordOf(dout, "RAM") => Mux!WordEnd(dout))
  BY LastIs DEF Mux!Masters
<1>2. line["RAM"] = NoRequest
  <2>1. "RAM" \in Pulsers
    BY DEF Pulsers
  <2> QED
    BY <2>1 DEF Reading, Kept, Quiet
<1>3. /\ Reading("RAM")' \/ Done("RAM")'
      /\ Mux!ReadDone(dout, "RAM") => Done("RAM")'
      /\ ~Mux!ReadDone(dout, "RAM") => Reading("RAM")'
      /\ got'["RAM"] = IF Mux!WordOf(dout, "RAM") THEN got["RAM"] + 1 ELSE got["RAM"]
      /\ asked'["RAM"] = asked["RAM"]
  BY <1>1, ReadingStep
<1>4. /\ p["RAM"] = asked["RAM"] /\ p'["RAM"] = asked["RAM"] /\ ~asked["RAM"].we
      /\ got["RAM"] < Due("RAM") /\ got["RAM"] \in Nat
  BY <1>1, <1>3 DEF Reading, Done, Kept, IInv, KindInv, Waiters
<1>5. /\ Due("RAM") \in 1..4 /\ Due("RAM") = asked["RAM"].words /\ asked["RAM"].word = 0
      /\ Due("RAM")' = Due("RAM")
  <2>1. Due("RAM") \in 1..4 /\ Due("RAM") = asked["RAM"].words /\ asked["RAM"].word = 0
    BY <1>1, DueIs DEF IInv
  <2> QED
    BY <1>3, <2>1 DEF Due
<1> DEFINE r == RamRequest(asked["RAM"])
           owes == Due("RAM") - got["RAM"]
<1>6. RamOwed = owes /\ owes > 0 /\ owes \in Nat /\ Port!Acks(r) = Due("RAM") /\ r = RamRequest(p["RAM"])
  BY <1>4, <1>5, OwedIs DEF OwedFits, Port!Acks, RamRequest
<1>7. /\ Reading("RAM")' => RamOwed' = Due("RAM") - got'["RAM"]
      /\ Done("RAM")' => RamOwed' = 0
  BY <1>1, <1>5, OwedNext DEF OwedFits
<1>8. ack_q'["RAM"] <=> Mux!WordOf(dout, "RAM")
  <2>1. ~Mux!WriteDone(b, "RAM")
    BY <1>1, Wires DEF Reading, Before
  <2>2. Mux!ReadDone(dout, "RAM") => Mux!WordOf(dout, "RAM")
    BY DEF Mux!ReadDone, Mux!WordOf, Mux!WordEnd
  <2> QED
    BY <1>1, <2>1, <2>2, MuxRegisters DEF ClockWith
<1>9. Mux!ReadDone(dout, "RAM") <=> Mux!WordOf(dout, "RAM") /\ Mux!WordEnd(dout)
  BY DEF Mux!ReadDone, Mux!WordOf, Mux!WordEnd
<1>10. CASE ~Mux!WordOf(dout, "RAM")
  <2>1. RamOwed' = owes /\ ~ack_q'["RAM"] /\ ram_last_q' = TRUE
    BY <1>1, <1>3, <1>7, <1>8, <1>9, <1>10
  <2>2. Port!Wait(r, owes)
    BY <1>1, <1>4, <1>6, <2>1, WaitIs
  <2> QED
    BY <1>2, <1>6, <2>2 DEF Port!Clock
<1>11. CASE Mux!WordOf(dout, "RAM")
  <2>1. /\ rdata_q' = [who |-> "RAM", addr |-> asked["RAM"].addr, word |-> got["RAM"]]
        /\ Mux!WordEnd(dout) <=> owes <= 1
    <3>1. /\ dout = [who |-> "RAM", addr |-> asked["RAM"].addr, word |-> got["RAM"]]
          /\ Mux!WordEnd(dout) <=> owes <= 1
      BY <1>1, <1>11, WordIsNext
    <3>2. rdata_q' = dout
      BY <1>1, <1>11, MuxRegisters DEF ClockWith, Mux!WordOf
    <3> QED
      BY <3>1, <3>2
  <2>2. ack_q'["RAM"] = TRUE /\ ram_last_q' = (owes = 1)
    <3>1. ack_q'["RAM"] = TRUE
      BY <1>1, <1>8, <1>11 DEF Flags
    <3>2. Mux!WordEnd(dout) <=> owes = 1
      BY <1>6, <2>1
    <3> QED
      BY <1>1, <1>11, <3>1, <3>2
  <2>3. RamOwed' = owes - 1
    <3>1. CASE owes = 1
      BY <1>3, <1>7, <1>9, <1>11, <2>1, <3>1
    <3>2. CASE owes # 1
      <4>1. Reading("RAM")'
        BY <1>3, <1>6, <1>9, <1>11, <2>1, <3>2
      <4> QED
        BY <1>3, <1>4, <1>5, <1>7, <1>11, <4>1
    <3> QED
      BY <3>1, <3>2
  <2>4. asked["RAM"].word + (Port!Acks(r) - owes) = got["RAM"]
    BY <1>4, <1>5, <1>6
  <2>5. Port!Word(r, owes)
    <3>1. r.who = "RAM" /\ r.id = asked["RAM"].addr /\ r.beat = asked["RAM"].word
      BY DEF RamRequest
    <3>2. RamRequest(p["RAM"])' = r
      BY <1>4 DEF RamRequest
    <3>3. ~p'["RAM"].we
      BY <1>4
    <3>4. owes = 1 <=> ~(RamOwed' > 0)
      BY <1>6, <2>3
    <3> HIDE DEF r, owes
    <3> QED
      BY <1>6, <2>1, <2>2, <2>3, <2>4, <3>1, <3>2, <3>3, <3>4 DEF Port!Word
  <2> QED
    BY <1>2, <1>6, <2>5 DEF Port!Clock
<1> QED
  BY <1>10, <1>11

\* Every clock is one of the port.
LEMMA PortStep ==
    IInv /\ [Next]_vars =>
      [Port!Clock(line["RAM"] # NoRequest, RamRequest(line["RAM"]))]_vars
<1> SUFFICES ASSUME IInv, NEW b \in BOOLEAN, ClockWith(b)
             PROVE  Port!Clock(line["RAM"] # NoRequest, RamRequest(line["RAM"]))
  BY DEF Next
<1>1. "RAM" \in Waiters
  BY LastIs
<1>2. \/ RIdle("RAM")
      \/ Fits("RAM") /\ (OnWire("RAM") \/ Latched("RAM") \/ Before("RAM") \/ Reading("RAM") \/ Done("RAM"))
  BY <1>1 DEF IInv, WhereInv
<1>3. CASE Fits("RAM") /\ Before("RAM")
  <2>1. Before("RAM")' \/ Reading("RAM")' \/ Done("RAM")'
    BY <1>1, <1>3, BeforeStep
  <2> QED
    BY <1>3, <2>1, PortHolds, PortWrites
<1> QED
  BY <1>2, <1>3, PortFree, PortTakes, PortHolds, PortReads

\* The port begins free.
LEMMA PortInit ==
    Init => Port!Init
<1> SUFFICES ASSUME Init PROVE Port!Init
  OBVIOUS
<1>1. "RAM" \in Mux!Masters
  BY DEF Mux!Masters
<1>2. ~pend["RAM"] /\ ~busy_m["RAM"] /\ ack_q["RAM"] = FALSE /\ ram_last_q = TRUE
  BY <1>1 DEF Init, Mux!Init
<1>3. RamOwed = 0
  BY <1>2 DEF RamOwed
<1> QED
  BY <1>2, <1>3 DEF Port!Init, Port!NoData

\* Main memory's master of ddr3_mux implements RamPort, the port that ram_arb and
\* the CPU's bridge are modelled and proved against.
THEOREM RamContractTheorem ==
    Spec => RamContract
BY Invariant, PortInit, PortStep, PTL DEF Spec, RamContract

=============================================================================
