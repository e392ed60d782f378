------------------------------ MODULE ScsiCache ------------------------------
(***************************************************************************)
(* rtl/scsi/scsi_cache.sv: a read-ahead, write-behind window of SECT       *)
(* sectors per slot, between the SCSI targets' block ports (the engine     *)
(* side) and hps_io (the platform side).  The shape is this core's: every  *)
(* slot cached, groups on every slot (CACHE_CD = MB_CD = 1).               *)
(*                                                                         *)
(* One clock edge is one Clock step; its parameter `in` is what the inputs *)
(* carry in the clock that ends:                                           *)
(*   rd, wr    slots whose target asks, lba its sector (by slot)           *)
(*   din       the words of the acknowledged target's buffer               *)
(*   ack       slots hps_io acknowledges                                   *)
(*   strobe    p_buff_wr, with block and word (p_buff_addr) and dout       *)
(*   mount     slots whose image is announced, blocks its size             *)
(*   bypass, nreset                                                        *)
(* A bitmap is the set of its ones.  A sector has WORDS words; what a word *)
(* holds is the business of whoever uses the cache.                        *)
(***************************************************************************)
EXTENDS Naturals, FiniteSets

CONSTANTS
    NS,          \* slots
    SECT,        \* sectors of a window
    GROUP,       \* sectors of a group
    WORDS,       \* words of a sector
    PREFETCH,    \* groups the prefetcher is armed for
    FLUSH_IDLE,  \* clocks without a write that make the engine quiet
    NoWord       \* the contents of the store at power-up

VARIABLES
    win,         \* per slot: base, ok, lim, valid, dirty, size, mounted
    store,       \* the sectors: slot, window index, word
    wr_q,        \* the store's write of the next clock, or NoWrite
    q_a,         \* the store's registered read
    c,           \* the platform transaction, p_rd/p_wr/p_lba/p_blk_cnt included
    p_ack_d,
    est, r,      \* the engine's state and its request
    dem,         \* the engine's demand for the channel
    pf, fl,      \* prefetcher and flush scan
    idle_ctr,
    e_ack, e_buff

cacheVars == <<win, store, wr_q, q_a, c, p_ack_d, est, r, dem, pf, fl,
               idle_ctr, e_ack, e_buff>>

Slots == 0..(NS - 1)
Sectors == 0..(SECT - 1)
Words == 0..(WORDS - 1)
Groups == SECT \div GROUP
InGroup(i) == {j \in Sectors : j \div GROUP = i \div GROUP}

NoWindow == [base |-> 0, ok |-> FALSE, lim |-> 0, valid |-> {}, dirty |-> {},
             size |-> 0, mounted |-> FALSE]
NoWrite == [on |-> FALSE, slot |-> 0, idx |-> 0, word |-> 0, data |-> NoWord]
\* What a transaction, a demand or a request (its slot excepted) leaves
\* behind is never read again.
NoTransaction == [st |-> "C_IDLE", wr |-> FALSE, pt |-> FALSE, slot |-> 0, idx |-> 0,
                  grp |-> FALSE, base |-> 0, lba |-> 0]
NoRequest == [slot |-> 0, lba |-> 0, wr |-> FALSE, word |-> 0]
NoDemand == [req |-> FALSE, wr |-> FALSE, pt |-> FALSE, idx |-> 0, grp |-> FALSE]
NoPrefetch == [slot |-> 0, grp |-> 0, left |-> 0]
NoBuff == [wr |-> FALSE, addr |-> 0, dout |-> NoWord]

Init ==
    /\ win = [s \in Slots |-> NoWindow]
    /\ store = [s \in Slots |-> [i \in Sectors |-> [w \in Words |-> NoWord]]]
    /\ wr_q = NoWrite /\ q_a = NoWord
    /\ c = NoTransaction /\ p_ack_d = {}
    /\ est = "E_IDLE" /\ r = NoRequest /\ dem = NoDemand
    /\ pf = NoPrefetch /\ fl = [slot |-> 0, idx |-> 0]
    /\ idle_ctr = 0 /\ e_ack = {} /\ e_buff = NoBuff

-----------------------------------------------------------------------------
(* Wires.                                                                  *)

R == win[r.slot]
RInWin == R.ok /\ r.lba >= R.base /\ r.lba < R.base + SECT
RIdx == (r.lba - R.base) % SECT
RHit == RInWin /\ RIdx \in R.valid
RPt(in) == in.bypass

\* The sectors of the window the transaction covers.
Covered == IF c.grp THEN InGroup(c.idx) ELSE {c.idx}

\* Mutant: the sector being flushed right now may be written.
ChBusyMeFetchOnly == c.st # "C_IDLE" /\ ~c.pt /\ ~c.wr /\ c.slot = r.slot /\ RIdx \in Covered

ChBusyMe == c.st # "C_IDLE" /\ ~c.pt /\ c.slot = r.slot /\ RIdx \in Covered
ChFetchingMe == ChBusyMe /\ ~c.wr

EWriting(in) ==
    \/ est = "E_DECIDE" /\ r.wr /\ RInWin /\ ~RPt(in)
    \/ est \in {"E_WR_A", "E_WR_B", "E_WR_C"}

\* Mutant: the transaction is live from the clock after the acknowledgement.
CLiveLate(in) == c.st = "C_XFER"

\* The transaction is live from the clock its acknowledgement rises.
CLive(in) == c.st = "C_XFER" \/ (c.st = "C_REQ" /\ c.slot \in in.ack)

WeB(in) == CLive(in) /\ ~c.pt /\ ~c.wr /\ in.strobe
AckFall(in) == p_ack_d \ in.ack

Present(s) == win[s].valid \cup win[s].dirty

\* Mutant: a group fetched whole though part of it is here.
DemGrpAlways == RIdx \div GROUP < R.lim

DemGrp == InGroup(RIdx) \cap Present(r.slot) = {} /\ RIdx \div GROUP < R.lim

PfGroup == {i \in Sectors : i \div GROUP = pf.grp}
PfOk(in) ==
    /\ win[pf.slot].ok /\ win[pf.slot].mounted
    /\ PfGroup \cap Present(pf.slot) = {}
    /\ pf.grp < win[pf.slot].lim
    /\ ~(EWriting(in) /\ pf.slot = r.slot)

EngQuiet == idle_ctr = FLUSH_IDLE - 1 \/ est = "E_FLUSHALL"
FlDirt == win[fl.slot].dirty
FlGrp(in) ==
    /\ InGroup(fl.idx) \subseteq FlDirt
    /\ ~(EWriting(in) /\ fl.slot = r.slot /\ RIdx \in InGroup(fl.idx))

\* Mutant: a sector flushed while the engine writes it.
FlOneUnchecked(in) == fl.idx \in FlDirt /\ EngQuiet

FlOne(in) ==
    /\ fl.idx \in FlDirt /\ EngQuiet
    /\ ~(EWriting(in) /\ fl.slot = r.slot /\ fl.idx = RIdx)
ScanOn(i) == (i + 1) % SECT
AnyDirt == \E s \in Slots : win[s].dirty # {}

\* Groups between the new base and the end of the image, at most a window's.
NewLim ==
    LET room == IF R.size < r.lba THEN 0 ELSE (R.size - r.lba) \div GROUP
    IN  IF room < Groups THEN room ELSE Groups

-----------------------------------------------------------------------------
(* The platform channel.                                                   *)

Transaction(s, wr, idx, grp) ==
    [st |-> "C_REQ", wr |-> wr, pt |-> FALSE, slot |-> s, idx |-> idx, grp |-> grp,
     base |-> win[s].base, lba |-> win[s].base + idx]
GroupBase(i) == (i \div GROUP) * GROUP

TakesDemand == c.st = "C_IDLE" /\ dem.req
Demanded ==
    LET idx == IF dem.grp THEN GroupBase(dem.idx) ELSE dem.idx
        t == Transaction(r.slot, dem.wr, idx, dem.grp)
    IN  IF dem.pt THEN [t EXCEPT !.pt = TRUE, !.lba = r.lba] ELSE t

\* Prefetch goes on only with nothing to flush anywhere.
Prefetches == c.st = "C_IDLE" /\ ~dem.req /\ ~AnyDirt /\ pf.left # 0
StartsPrefetch(in) == Prefetches /\ ~in.bypass /\ PfOk(in)

ChannelFinish(in) == c.st = "C_XFER" /\ c.slot \in AckFall(in)

Channel(in) ==
    LET flushes == c.st = "C_IDLE" /\ ~dem.req /\ FlDirt # {} IN
    /\ c' = IF TakesDemand THEN Demanded
            ELSE IF flushes /\ FlGrp(in)
                 THEN Transaction(fl.slot, TRUE, GroupBase(fl.idx), TRUE)
            ELSE IF flushes /\ FlOne(in) THEN Transaction(fl.slot, TRUE, fl.idx, FALSE)
            ELSE IF StartsPrefetch(in)
                 THEN Transaction(pf.slot, FALSE, pf.grp * GROUP, TRUE)
            ELSE IF c.st = "C_REQ" /\ c.slot \in in.ack THEN [c EXCEPT !.st = "C_XFER"]
            ELSE IF ChannelFinish(in) THEN NoTransaction
            ELSE c
    \* The scan passes over what cannot go yet, and goes to the next slot
    \* only when this one is clean.
    /\ fl' = IF flushes /\ ~FlGrp(in) /\ ~FlOne(in)
             THEN [fl EXCEPT !.idx = ScanOn(@)]
             ELSE IF c.st = "C_IDLE" /\ ~dem.req /\ FlDirt = {} /\ AnyDirt
             THEN [slot |-> (fl.slot + 1) % NS, idx |-> 0]
             ELSE fl

\* What the channel leaves of the prefetcher's work.
PfAfterChannel(in) ==
    IF ~Prefetches THEN pf
    ELSE IF \/ in.bypass
            \/ ~PfOk(in) /\ ~(/\ win[pf.slot].ok /\ win[pf.slot].mounted
                              /\ ~(EWriting(in) /\ pf.slot = r.slot))
         THEN NoPrefetch
         ELSE IF pf.left = 1 THEN NoPrefetch
         ELSE [pf EXCEPT !.grp = (@ + 1) % Groups, !.left = @ - 1]

\* A sector becomes valid when its last word lands, if the window still is
\* the one it was fetched for.
Landed(in, s) ==
    IF /\ c.st = "C_XFER" /\ c.slot = s /\ WeB(in) /\ in.word = WORDS - 1
       /\ win[s].ok /\ c.base = win[s].base
    THEN {c.idx + in.block} ELSE {}

Flushed(in, s) ==
    IF ChannelFinish(in) /\ c.slot = s /\ c.wr /\ ~c.pt THEN Covered ELSE {}

-----------------------------------------------------------------------------
(* The engine.                                                             *)

Deciding == est = "E_DECIDE"
\* Mutant: the window moved before what is dirty has been flushed.
SettledClean == est = "E_FLUSHALL" /\ c.st = "C_IDLE" /\ ~dem.req

\* A bypassed request settles what is dirty first.
SettlesFirst(in) == Deciding /\ (IF RPt(in) THEN R.dirty # {} ELSE ~RInWin)
PassesThrough(in) == Deciding /\ RPt(in) /\ R.dirty = {} /\ ~dem.req
Accepts(in) == Deciding /\ ~RPt(in) /\ RInWin /\ r.wr /\ ~ChBusyMe
Serves(in) == Deciding /\ ~RPt(in) /\ ~r.wr /\ RHit
Misses(in) ==
    Deciding /\ ~RPt(in) /\ RInWin /\ ~r.wr /\ ~RHit /\ ~ChFetchingMe /\ ~dem.req
Settled == est = "E_FLUSHALL" /\ R.dirty = {} /\ c.st = "C_IDLE" /\ ~dem.req
Written == est = "E_WR_C" /\ r.word = WORDS - 1
PtDone(in) == est = "E_PT" /\ CLive(in) /\ c.pt /\ r.slot \in AckFall(in)

Asking(in) == in.rd \cup in.wr
First(in) == CHOOSE s \in Asking(in) : \A t \in Asking(in) : s <= t

NextEst(in) ==
    CASE est = "E_IDLE" /\ Asking(in) # {} -> "E_DECIDE"
      [] SettlesFirst(in)  -> "E_FLUSHALL"
      [] PassesThrough(in) -> "E_PT"
      [] Accepts(in)       -> "E_WR_A"
      [] Serves(in)        -> "E_RD_A"
      [] Misses(in)        -> "E_FETCH"
      [] Settled           -> "E_REBASE"
      [] est = "E_REBASE"  -> "E_DECIDE"
      [] est = "E_FETCH" /\ (RHit \/ (~R.ok /\ c.st = "C_IDLE" /\ ~dem.req)) -> "E_DECIDE"
      [] est = "E_RD_A"    -> "E_RD_B"
      [] est = "E_RD_B"    -> "E_RD_C"
      [] est = "E_RD_C"    -> IF r.word = WORDS - 1 THEN "E_DONE" ELSE "E_RD_A"
      [] est = "E_WR_A"    -> "E_WR_B"
      [] est = "E_WR_B"    -> "E_WR_C"
      [] est = "E_WR_C"    -> IF Written THEN "E_DONE" ELSE "E_WR_A"
      [] est = "E_DONE" \/ PtDone(in) -> "E_IDLE"
      [] OTHER -> est

NextRequest(in) ==
    CASE est = "E_IDLE" ->
            IF Asking(in) = {} THEN r
            ELSE [slot |-> First(in), lba |-> in.lba[First(in)],
                  wr |-> First(in) \in in.wr, word |-> 0]
      [] est \in {"E_RD_C", "E_WR_C"} ->
            [r EXCEPT !.word = IF @ = WORDS - 1 THEN @ ELSE @ + 1]
      [] (est = "E_DONE" \/ PtDone(in)) /\ in.nreset -> [NoRequest EXCEPT !.slot = r.slot]
      [] OTHER -> r

\* Mutant: the demand stays up when the channel takes it.
DemandHeld == dem

\* The channel's acceptance drops the demand.
DemandLeft == IF TakesDemand THEN NoDemand ELSE dem

NextDemand(in) ==
    CASE PassesThrough(in) ->
            [req |-> TRUE, wr |-> r.wr, pt |-> TRUE, idx |-> 0, grp |-> FALSE]
      [] Misses(in) ->
            [req |-> TRUE, wr |-> FALSE, pt |-> FALSE, idx |-> RIdx, grp |-> DemGrp]
      [] OTHER -> DemandLeft

\* A reset ends what the engine does, and nothing else: the demand it raised,
\* the windows and the channel go on.
Engine(in) ==
    /\ est' = IF in.nreset THEN NextEst(in) ELSE "E_IDLE"
    /\ r' = NextRequest(in)
    /\ dem' = NextDemand(in)
    /\ e_ack' = IF ~in.nreset \/ est \in {"E_IDLE", "E_DONE"} \/ PtDone(in) THEN {}
                ELSE IF Accepts(in) \/ Serves(in) THEN {r.slot}
                ELSE IF est = "E_PT" /\ CLive(in) /\ c.pt THEN {r.slot} \cap in.ack
                ELSE e_ack
    /\ e_buff' = IF est = "E_RD_C" THEN [wr |-> TRUE, addr |-> r.word, dout |-> q_a]
                 ELSE IF est = "E_PT" /\ CLive(in) /\ c.pt
                 THEN [wr |-> in.strobe, addr |-> in.word, dout |-> in.dout]
                 ELSE [e_buff EXCEPT !.wr = FALSE, !.dout = NoWord]
    /\ pf' = IF ~in.nreset \/ SettlesFirst(in) THEN NoPrefetch
             ELSE IF est = "E_DONE" /\ ~r.wr
             THEN [slot |-> r.slot, grp |-> RIdx \div GROUP, left |-> PREFETCH]
             ELSE PfAfterChannel(in)
    /\ idle_ctr' = IF est \in {"E_WR_A", "E_WR_B", "E_WR_C"} THEN 0
                   ELSE IF idle_ctr < FLUSH_IDLE - 1 THEN idle_ctr + 1 ELSE idle_ctr

-----------------------------------------------------------------------------
(* The windows and the store.                                              *)

OtherImage(in, s) == s \in in.mount /\ in.blocks # win[s].size

\* Another image: forget everything.  The same size: keep what is dirty.
Mounted(in, s) ==
    IF OtherImage(in, s)
    THEN [win[s] EXCEPT !.valid = {}, !.dirty = {}, !.ok = FALSE,
                        !.size = in.blocks, !.mounted = (in.blocks # 0)]
    ELSE IF s \in in.mount THEN [win[s] EXCEPT !.valid = win[s].dirty]
    ELSE win[s]

DropsWindow(in, s) == PassesThrough(in) /\ r.slot = s

\* Mounts first, then the channel, then the engine: the later assignment of
\* a clock wins.
Window(in, s) ==
    LET w == Mounted(in, s)
        own == IF Written /\ r.slot = s THEN {RIdx} ELSE {}
    IN  IF est = "E_REBASE" /\ r.slot = s
        THEN [w EXCEPT !.base = r.lba, !.lim = NewLim, !.ok = TRUE,
                       !.valid = {}, !.dirty = {}]
        ELSE [w EXCEPT
                !.ok = @ /\ ~DropsWindow(in, s),
                !.valid = IF DropsWindow(in, s) THEN {} ELSE @ \cup Landed(in, s) \cup own,
                !.dirty = (@ \ Flushed(in, s)) \cup own]

\* The engine's write reaches the store a clock after it is decided.
Store(in) ==
    /\ store' = [s \in Slots |-> [i \in Sectors |-> [w \in Words |->
                   IF WeB(in) /\ c.slot = s /\ i = c.idx + in.block /\ w = in.word
                   THEN in.dout
                   ELSE IF wr_q.on /\ wr_q.slot = s /\ wr_q.idx = i /\ wr_q.word = w
                   THEN wr_q.data ELSE store[s][i][w]]]]
    /\ wr_q' = IF est = "E_WR_C"
               THEN [on |-> TRUE, slot |-> r.slot, idx |-> RIdx, word |-> r.word,
                     data |-> in.din[r.word]]
               ELSE NoWrite
    /\ q_a' = IF est = "E_RD_B" THEN store[r.slot][RIdx][r.word] ELSE NoWord

Clock(in) ==
    /\ Channel(in)
    /\ Engine(in)
    /\ win' = [s \in Slots |-> Window(in, s)]
    /\ Store(in)
    /\ p_ack_d' = in.ack

=============================================================================
