----------------------------- MODULE DdrSystem ------------------------------
(***************************************************************************)
(* ddr3_mux between its masters and the DDR3 bridge, as sgiindy.sv wires   *)
(* them.                                                                   *)
(*                                                                         *)
(*   RAM, PROM  pulse for one clock and wait (ram_arb and the CPU)         *)
(*   FBW        holds its request, and in the clock of its acknowledgement *)
(*              still presents it; from there it may go straight to        *)
(*              another request, the same one included (np_rex3)           *)
(*   DL         holds its request in a register (the PROM download)        *)
(*   FBR        is the display's fetch (FbFetch)                           *)
(*   BCN        pulses and waits for nothing (the debug beacon)            *)
(*                                                                         *)
(* The bridge is busy whenever it likes and answers the reads it took in   *)
(* order, the first word no sooner than the second clock after it took the *)
(* read.                                                                   *)
(***************************************************************************)
EXTENDS Naturals, Sequences, FiniteSets, SequencesExt

CONSTANTS
    Loads,       \* who asks for what, see LoadAssumption
    FBR_SUB, FBR_AHEAD, RF, LineWords, Burst, NoRequest, NoWord

ASSUME SubBurstAssumption == FBR_SUB \in Nat \ {0} /\ FBR_AHEAD \in Nat \ {0}
ASSUME QueueAssumption == RF \in Nat \ {0}
ASSUME BurstAssumption == LineWords \in Nat \ {0} /\ Burst \in Nat \ {0}

\* The masters that ask for anything, the display apart, and the display's
\* readers that do; doublewords of main memory's reads and of its writes;
\* blocks of a region.
ASSUME LoadAssumption ==
    \A l \in Loads : /\ l.masters \subseteq {"RAM", "PROM", "FBW", "DL", "BCN"}
                     /\ l.readers \subseteq 0..1
                     /\ l.reads \subseteq 1..4 /\ l.writes \subseteq {1, 4}
                     /\ l.blocks \subseteq Nat

VARIABLES
    load,        \* the load of this behaviour
    pend, rq_seen, p, busy_m, ack_q, ram_last_q, rdata_q, cmd, rf, fbr,
    fbr_taken_q, rr,
    sel_valid, sel_b, busy, owner_b, left, fst, fill_pos, burst_left,
    line,        \* the request RAM, PROM, FBW, DL and BCN present
    asked,       \* the request each of them raised last ...
    waiting,     \* ... and whether it still waits for its answer
    got,         \* words of it answered (reads) or taken (writes)
    owed,        \* the bridge: words it still has to answer, in order
    dout         \* DDRAM_DOUT, NoWord when DDRAM_DOUT_READY is low

Mux   == INSTANCE Ddr3Mux
Fetch == INSTANCE FbFetch

envVars == <<load, line, asked, waiting, got, owed, dout>>
vars == <<Mux!muxVars, Fetch!fetchVars, envVars>>

Requesters == {"RAM", "PROM", "FBW", "DL", "BCN"}

\* What is no request, and no word, is told from one.
ASSUME NoRequestAssumption ==
    NoRequest \notin [we : BOOLEAN, addr : Nat, word : Nat, words : Nat]
ASSUME NoWordAssumption ==
    NoWord \notin [who : Mux!Masters, addr : Nat, word : Nat]

Requests(m) ==
    IF m \notin load.masters THEN {}
    ELSE CASE m = "RAM" ->
                 [we : {FALSE}, addr : load.blocks, word : {0}, words : load.reads]
                 \cup [we : {TRUE}, addr : load.blocks, word : {0}, words : load.writes]
           [] m = "PROM" ->
                 [we : {FALSE}, addr : load.blocks, word : {0}, words : {1}]
           [] m = "FBW" ->
                 [we : BOOLEAN, addr : load.blocks, word : {0}, words : {1}]
           [] OTHER ->
                 [we : {TRUE}, addr : load.blocks, word : {0}, words : {1}]

rq == [m \in Mux!Masters |->
         IF m = "FBR" THEN Fetch!Request(NoRequest) ELSE line[m]]

\* The words of the read command in front of the bridge.
Words(c) == [k \in 1..c.n |->
               [who |-> c.m, addr |-> c.addr, word |-> c.word + k - 1]]

FbrWord == Mux!WordOf(dout, "FBR")

-----------------------------------------------------------------------------

Init ==
    /\ load \in Loads
    /\ Mux!Init /\ Fetch!Init
    /\ line = [m \in Requesters |-> NoRequest]
    /\ asked = [m \in Requesters |-> Mux!NoPayload]
    /\ waiting = [m \in Requesters |-> FALSE]
    /\ got = [m \in Requesters |-> 0]
    /\ owed = <<>> /\ dout = NoWord

\* The acknowledgement that ends what m waits for.
Finished(m) == ack_q[m] /\ (m = "RAM" => ram_last_q)

\* What m may present in the next clock.
NextLine(m) ==
    LET fresh == Requests(m) \cup {NoRequest} IN
    CASE m \in {"RAM", "PROM"} ->
            IF waiting[m] /\ ~Finished(m) THEN {NoRequest} ELSE fresh
      [] m = "FBW" -> IF waiting[m] /\ ~ack_q[m] THEN {line[m]} ELSE fresh
      [] m = "DL"  -> IF waiting[m] /\ ~ack_q[m] THEN {line[m]}
                      ELSE {NoRequest} \cup {r \in Requests(m) : r # line[m]}
      [] OTHER     -> fresh

\* A request is a new one unless it is the old one, held.
Raised(m, next) ==
    /\ next # NoRequest
    /\ m \in {"FBW", "DL"} => ~waiting[m] \/ ack_q[m]

MastersClock(ddram_busy) ==
    \E ram \in NextLine("RAM"), prom \in NextLine("PROM"), fbw \in NextLine("FBW"),
       dl \in NextLine("DL"), bcn \in NextLine("BCN") :
      LET next == [m \in Requesters |->
                     CASE m = "RAM" -> ram [] m = "PROM" -> prom
                       [] m = "FBW" -> fbw [] m = "DL" -> dl [] OTHER -> bcn]
      IN
        /\ line' = next
        /\ asked' = [m \in Requesters |->
                       IF Raised(m, next[m]) THEN next[m] ELSE asked[m]]
        /\ waiting' = [m \in Requesters |->
                         /\ m # "BCN"
                         /\ Raised(m, next[m]) \/ (waiting[m] /\ ~Finished(m))]
        /\ got' = [m \in Requesters |->
                     IF m = "BCN" \/ Raised(m, next[m]) THEN 0
                     ELSE IF \/ Mux!Take(ddram_busy) /\ cmd.we /\ cmd.m = m
                             \/ ack_q'[m] /\ ~asked[m].we
                          THEN got[m] + 1 ELSE got[m]]

BridgeClock(ddram_busy) ==
    LET taken == IF Mux!Push(ddram_busy) THEN Words(cmd) ELSE <<>> IN
    \/ owed # <<>> /\ dout' = Head(owed) /\ owed' = Tail(owed) \o taken
    \/ dout' = NoWord /\ owed' = owed \o taken

ClockWith(ddram_busy) ==
    /\ Mux!Clock(rq, ddram_busy, dout)
    /\ BridgeClock(ddram_busy)
    /\ Fetch!Clock(fbr_taken_q, FbrWord, load.readers)
    /\ MastersClock(ddram_busy)
    /\ UNCHANGED load

Next == \E ddram_busy \in BOOLEAN : ClockWith(ddram_busy)

Spec == Init /\ [][Next]_vars

-----------------------------------------------------------------------------

Due(m) == IF m = "RAM" THEN asked[m].words ELSE 1

(* An acknowledgement comes only to a master that waits for it, and with   *)
(* what it asked for: the next word of its own read - never what another   *)
(* master's read left in the shared register - or all the words of its     *)
(* write in the memory.  A word of the display's stream is stored by the   *)
(* reader it was fetched for, at its place in the line: one that comes     *)
(* when no reader takes it would be lost, and the burst would never end.   *)
AnswersMatch ==
  /\ \A m \in Requesters \ {"BCN"} :
        ack_q[m] =>
            /\ waiting[m]
            /\ asked[m].we => got[m] = Due(m)
            /\ ~asked[m].we =>
                  /\ rdata_q = [who |-> m, addr |-> asked[m].addr, word |-> got[m] - 1]
                  /\ Finished(m) <=> got[m] = Due(m)
  /\ FbrWord =>
        \E r \in Fetch!Readers :
            /\ fst[r] = "F_DATA" /\ Fetch!ValidFor(r, TRUE)
            /\ dout = [who |-> "FBR", addr |-> r, word |-> fill_pos[r]]

(* Nothing is put in front of the bridge that no master waits for: no      *)
(* request is taken twice, however long its line stays up, and none is     *)
(* presented with another one's address or direction.                      *)
CommandsAreWanted ==
    cmd.v /\ cmd.m \in Requesters \ {"BCN"} =>
        /\ waiting[cmd.m] /\ ~ack_q[cmd.m]
        /\ cmd.we = asked[cmd.m].we /\ cmd.addr = asked[cmd.m].addr
        /\ cmd.we => cmd.word = got[cmd.m] /\ got[cmd.m] < Due(cmd.m)

(* A line write reaches the bridge in one piece.                           *)
LineWriteInOnePiece ==
    asked["RAM"].we /\ got["RAM"] \in 1..(Due("RAM") - 1) =>
        cmd.v /\ cmd.m = "RAM"

-----------------------------------------------------------------------------
(* Main memory's master keeps the contract its masters rely on (RamPort).  *)

RamRequest(r) == [who |-> "RAM", id |-> r.addr, we |-> r.we, beat |-> r.word,
                  words |-> r.words]

\* Acknowledgements main memory's master is still owed.
RamOwed ==
    IF pend["RAM"] THEN IF p["RAM"].we THEN 1 ELSE p["RAM"].words
    ELSE IF ~busy_m["RAM"] THEN 0
    ELSE IF cmd.v /\ cmd.m = "RAM" THEN IF cmd.we THEN 1 ELSE cmd.n
    ELSE (CHOOSE e \in Range(rf) : e.m = "RAM").n

Port == INSTANCE RamPort WITH
    cur <- IF RamOwed > 0 THEN RamRequest(p["RAM"]) ELSE NoRequest,
    left <- RamOwed,
    ram_ack <- ack_q["RAM"],
    ram_last <- ram_last_q,
    ram_rdata <- IF ~ack_q["RAM"] THEN [who |-> "none", id |-> 0, word |-> 0]
                 ELSE IF p["RAM"].we
                 THEN [who |-> "RAM", id |-> p["RAM"].addr, word |-> p["RAM"].word]
                 ELSE [who |-> rdata_q.who, id |-> rdata_q.addr, word |-> rdata_q.word]

(* Between its request pulse and its last acknowledgement the port does    *)
(* what the model of it behind ram_arb assumes.                            *)
RamContract ==
    /\ Port!Init
    /\ [][Port!Clock(line["RAM"] # NoRequest, RamRequest(line["RAM"]))]_vars

-----------------------------------------------------------------------------

(* Nobody but the beacon starves, whatever the others ask for: main memory *)
(* and the display always, the PROM and the rasteriser as long as the      *)
(* display is off.                                                         *)
EveryoneServed ==
    /\ waiting["RAM"] ~> Finished("RAM")
    /\ \A r \in Fetch!Readers : fst[r] # "F_IDLE" ~> fst[r] = "F_IDLE"
    /\ load.readers = {} => \A m \in {"PROM", "FBW"} : waiting[m] ~> Finished(m)

=============================================================================
