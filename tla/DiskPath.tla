------------------------------ MODULE DiskPath ------------------------------
(***************************************************************************)
(* The disk path of rtl/scsi/sgi_scsi.sv: the targets' block ports, the    *)
(* block cache and hps_io with the images behind it.                       *)
(*                                                                         *)
(* A sector's data is followed for one sector only, Watch of slot 0: its   *)
(* words hold the version the guest wrote last, and every other sector of  *)
(* slot s holds Other(s), which its writes write again.  The cache treats  *)
(* all sectors alike, so Watch stands for any.                             *)
(*                                                                         *)
(* hps_io serves one transaction at a time, at any pace, and announces     *)
(* mounts between transactions.  The SCSI bus has one target at a time at  *)
(* work.                                                                   *)
(***************************************************************************)
EXTENDS Integers, FiniteSets

CONSTANTS
    NS, SECT, GROUP, WORDS, PREFETCH, FLUSH_IDLE, NoWord,
    Watch,       \* the sector whose data is followed
    Size,        \* sectors of the images
    NewSize,     \* and of the image a swap puts in slot 0
    Guests       \* what the guest and the host do, see GuestAssumption

AllEvents == {"bypass", "swap", "reset", "quietreset", "busreset", "quietbusreset"}

\* Word 0 of a sector may come in the clock of the acknowledgement.
ASSUME GeometryAssumption ==
    /\ NS \in Nat \ {0} /\ SECT \in Nat \ {0} /\ GROUP \in Nat \ {0}
    /\ WORDS \in Nat \ {0, 1} /\ PREFETCH \in Nat /\ FLUSH_IDLE \in Nat \ {0}
    /\ SECT % GROUP = 0

\* The slots in use, those the guest writes to, the sectors it asks for; what
\* else happens, and how often at most; whether the guest asks whatever the
\* prefetcher is about to do.
ASSUME GuestAssumption ==
    /\ Watch \in Nat /\ Size \in Nat /\ NewSize \in Nat
    /\ \A g \in Guests : /\ g.writers \subseteq g.slots /\ g.slots \subseteq 0..(NS - 1)
                         /\ g.lbas \subseteq 0..(Size - 1)
                         /\ g.events \subseteq AllEvents /\ g.times \in Nat
                         /\ g.hasty \in BOOLEAN

VARIABLES
    win, store, wr_q, q_a, c, p_ack_d, est, r, dem, pf, fl, idle_ctr,
    e_ack, e_buff,
    io, busy, lba, writing, old_io_ack, sd_buff,
    hps,         \* hps_io's transaction
    disk,        \* the words of Watch in the image
    cur,         \* and the version the guest wrote last
    bypass, left,\* the OSD switch; events to come
    guest        \* the guest of this behaviour

Cache == INSTANCE ScsiCache
Port  == INSTANCE BlockPort

vars == <<Cache!cacheVars, Port!portVars, hps, disk, cur, bypass, left, guest>>

Slots == 0..(NS - 1)
Words == 0..(WORDS - 1)
Other(s) == 10 + s
\* The versions of one image are 2k+1 and 2k+2.
Newer(v) == IF v % 2 = 1 THEN v + 1 ELSE v - 1
SwappedVersion == IF cur <= 2 THEN 3 ELSE 1

Sector(d) == [w \in Words |-> d]
Watched(s, l) == s = 0 /\ l = Watch
DiskWord(s, l, w) == IF Watched(s, l) THEN disk[w] ELSE Other(s)

NoSession == [on |-> FALSE, slot |-> 0, wr |-> FALSE, lba |-> 0, n |-> 0, k |-> 0,
              strobe |-> FALSE]

Init ==
    /\ Cache!Init
    /\ io = [s \in Slots |-> "none"] /\ busy = [s \in Slots |-> FALSE]
    /\ lba = [s \in Slots |-> 0] /\ writing = [s \in Slots |-> FALSE]
    /\ old_io_ack = {} /\ sd_buff = [s \in Slots |-> Sector(NoWord)]
    /\ hps = NoSession /\ disk = Sector(1) /\ cur = 1
    /\ guest \in Guests /\ bypass = FALSE /\ left = guest.times

-----------------------------------------------------------------------------
(* hps_io.                                                                 *)

Block(k) == k \div WORDS
WordAt(k) == k % WORDS
Total == hps.n * WORDS

\* What p_buff_din carries for word k of the transaction: the store's word,
\* or in a passthrough the target's, at the address the cache forwards.
AckSel == IF e_ack = {} THEN NS - 1 ELSE CHOOSE s \in e_ack : \A t \in e_ack : s <= t
PBuffDin(k) ==
    IF c.pt THEN sd_buff[AckSel][IF est = "E_PT" THEN WordAt(k) ELSE e_buff.addr]
    ELSE store[c.slot][c.idx + Block(k)][WordAt(k)]

HpsStarts ==
    /\ ~hps.on /\ c.st = "C_REQ"
    /\ \E now \in IF c.wr THEN {FALSE} ELSE BOOLEAN :
          hps' = [on |-> TRUE, slot |-> c.slot, wr |-> c.wr, lba |-> c.lba,
                  n |-> IF c.grp THEN GROUP ELSE 1,
                  k |-> IF now THEN 1 ELSE 0, strobe |-> now]
    /\ UNCHANGED disk

HpsDelivers ==
    /\ hps.on /\ ~hps.wr /\ hps.k < Total
    /\ hps' = [hps EXCEPT !.k = @ + 1, !.strobe = TRUE]
    /\ UNCHANGED disk

HpsSamples ==
    /\ hps.on /\ hps.wr /\ hps.k < Total /\ c.st = "C_XFER"
    /\ hps' = [hps EXCEPT !.k = @ + 1]
    /\ disk' = IF Watched(hps.slot, hps.lba + Block(hps.k))
               THEN [disk EXCEPT ![WordAt(hps.k)] = PBuffDin(hps.k)] ELSE disk

HpsEnds ==
    /\ hps.on /\ hps.k = Total
    /\ hps' = NoSession
    /\ UNCHANGED disk

HpsWaits ==
    /\ hps' = [hps EXCEPT !.strobe = FALSE]
    /\ UNCHANGED disk

HpsClock == HpsStarts \/ HpsDelivers \/ HpsSamples \/ HpsEnds \/ HpsWaits

-----------------------------------------------------------------------------
(* The clock.                                                              *)

Idle == \A s \in Slots : ~busy[s] /\ io[s] = "none"

\* The guest's write is the sector's latest version once it is answered.
Latest ==
    IF busy[0] /\ writing[0] /\ lba[0] = Watch /\ Port!Ends(0, e_ack)
    THEN Newer(cur) ELSE cur
Track == cur' = Latest

\* What the targets may ask for: one of them, when none is at work, the
\* sector that is answered in this clock excepted.
Free == \A s \in Slots : io[s] = "none" /\ (~busy[s] \/ Port!Ends(s, e_ack))
Nothing == [io |-> "none", lba |-> 0, data |-> Sector(NoWord)]
Asks(s) ==
    [io : {"rd"}, lba : guest.lbas, data : {Sector(NoWord)}]
    \cup IF s \in guest.writers
         THEN {[io |-> "wr", lba |-> l,
                data |-> Sector(IF Watched(s, l) THEN Newer(Latest) ELSE Other(s))] : l \in guest.lbas}
         ELSE {}
Wishes ==
    {[s \in Slots |-> Nothing]}
    \cup IF Free /\ (\A s \in guest.slots : win[s].mounted) /\ (guest.hasty \/ pf.left = 0)
         THEN UNION {{[[t \in Slots |-> Nothing] EXCEPT ![s] = a] : a \in Asks(s)} : s \in guest.slots}
         ELSE {}

Inputs(mount, blocks, nreset) ==
    LET at == IF hps.k = 0 THEN 0 ELSE hps.k - 1 IN
    [rd |-> {s \in Slots : io[s] = "rd"}, wr |-> {s \in Slots : io[s] = "wr"},
     lba |-> lba, din |-> sd_buff[AckSel],
     ack |-> IF hps.on THEN {hps.slot} ELSE {}, strobe |-> hps.strobe,
     block |-> Block(at), word |-> WordAt(at),
     dout |-> IF hps.strobe THEN DiskWord(hps.slot, hps.lba + Block(at), WordAt(at))
              ELSE NoWord,
     mount |-> mount, blocks |-> blocks, bypass |-> bypass, nreset |-> nreset]

\* One clock, with what else happens in it.
ClockWith(mount, blocks, nreset, rst) ==
    /\ Cache!Clock(Inputs(mount, blocks, nreset))
    /\ \E asks \in Wishes : Port!Clock(Slots, e_ack, e_buff, rst, asks)

Tick == ClockWith({}, 0, TRUE, FALSE) /\ HpsClock /\ Track /\ UNCHANGED <<bypass, left, guest>>

Mount ==
    \E s \in guest.slots :
        /\ ~win[s].mounted /\ ~hps.on
        /\ ClockWith({s}, Size, TRUE, FALSE)
        /\ UNCHANGED <<hps, disk, cur, bypass, left, guest>>

Event(e) ==
    /\ e \in guest.events /\ left > 0 /\ left' = left - 1
    /\ UNCHANGED guest

\* The OSD's cache switch.
SwitchBypass ==
    /\ Event("bypass")
    /\ ClockWith({}, 0, TRUE, FALSE) /\ HpsClock /\ Track
    /\ bypass' = ~bypass

\* Another image is put into slot 0, no transaction being served.  If the
\* size is the same the guest only reads it: a disc, and another one.
Swap ==
    /\ Event("swap") /\ win[0].mounted /\ ~hps.on /\ ~busy[0]
    /\ ClockWith({0}, NewSize, TRUE, FALSE) /\ \A s \in Slots : io'[s] = io[s]
    /\ disk' = Sector(SwappedVersion) /\ cur' = SwappedVersion
    /\ UNCHANGED <<hps, bypass>>

\* A machine reset, whenever it comes or only while no target is at work.
Reset ==
    /\ Event("reset") \/ (Event("quietreset") /\ Idle)
    /\ ClockWith({}, 0, FALSE, FALSE) /\ HpsClock /\ Track
    /\ UNCHANGED bypass

\* A SCSI bus reset: the targets' alone.
BusReset ==
    /\ Event("busreset") \/ (Event("quietbusreset") /\ Idle)
    /\ ClockWith({}, 0, TRUE, TRUE) /\ HpsClock
    /\ UNCHANGED <<cur, bypass>>

Next == Tick \/ Mount \/ SwitchBypass \/ Swap \/ Reset \/ BusReset

\* hps_io goes on with what it is asked for, and the disks are mounted.
HpsWorks == hps'.on # hps.on \/ hps'.k # hps.k
HpsBusy == hps.on \/ c.st = "C_REQ"
Fairness ==
    /\ []<>~HpsBusy \/ []<><<HpsWorks>>_vars
    /\ \A s \in Slots : <>[](s \in guest.slots => win[s].mounted)

Spec == Init /\ [][Next]_vars

-----------------------------------------------------------------------------

\* The window index of Watch, where its window is.
WatchIdx == Watch - win[0].base
WatchInWindow == win[0].ok /\ WatchIdx \in 0..(SECT - 1)
WatchDirty == WatchInWindow /\ WatchIdx \in win[0].dirty
WatchValid == WatchInWindow /\ WatchIdx \in win[0].valid
\* The store with the engine's write that is on its way into it.
WatchStored(w) ==
    IF wr_q.on /\ wr_q.slot = 0 /\ wr_q.idx = WatchIdx /\ wr_q.word = w THEN wr_q.data
    ELSE store[0][WatchIdx][w]
WritingWatch == busy[0] /\ writing[0] /\ lba[0] = Watch

(* A read gives the guest what it wrote last, and of the sector it asked   *)
(* for, whether it comes from the store, from a fetch or past the cache.   *)
ReadsLatest ==
    \A s \in Slots : Port!Ends(s, e_ack) /\ ~writing[s] =>
        \A w \in Words :
            sd_buff[s][w] = IF Watched(s, lba[s]) THEN cur ELSE Other(s)

(* Write-behind loses nothing: what the guest wrote last is in the store   *)
(* under a dirty bit, or else it is in the image.                          *)
NothingLost ==
    ~WritingWatch =>
        \A w \in Words : IF WatchDirty THEN WatchStored(w) = cur ELSE disk[w] = cur

(* A sector that is valid and not dirty is the image's.                    *)
CleanMatchesImage ==
    WatchValid /\ ~WatchDirty /\ ~(est \in {"E_WR_A", "E_WR_B", "E_WR_C"} /\ WritingWatch) =>
        \A w \in Words : WatchStored(w) = disk[w]

(* The two sides of the store keep out of each other's way: no fetch lands *)
(* on a dirty sector, and no transaction touches the sector the engine is  *)
(* writing.                                                                *)
SidesApart ==
    c.st # "C_IDLE" /\ ~c.pt =>
        /\ ~c.wr /\ win[c.slot].ok => Cache!Covered \cap win[c.slot].dirty = {}
        /\ est \in {"E_WR_A", "E_WR_B", "E_WR_C"} /\ r.slot = c.slot =>
              Cache!RIdx \notin Cache!Covered

(* Every word the platform is about to write to an image is that sector's, *)
(* as its guest wrote it last - no other sector's, no older one's and no   *)
(* other image's; and the cache asks for sectors of the image only, a      *)
(* short group at its end included.                                        *)
WritesBelong ==
  /\ c.st # "C_IDLE" /\ win[c.slot].ok =>
        c.lba + (IF c.grp THEN GROUP ELSE 1) <= win[c.slot].size
  /\ hps.on /\ hps.wr /\ c.st = "C_XFER" =>
        \A k \in hps.k..(Total - 1) :
            PBuffDin(k) = IF ~Watched(hps.slot, hps.lba + Block(k)) THEN Other(hps.slot)
                          ELSE IF c.pt THEN Newer(cur) ELSE cur

(* Nothing waits for ever: every sector a target asks for is answered, and *)
(* with the guest quiet, whatever is dirty reaches the image.              *)
DiskServes ==
    /\ \A s \in Slots : []<>(busy[s] => Port!Ends(s, e_ack))
    /\ []<>~Idle \/ <>[](\A s \in Slots : win[s].dirty = {})

=============================================================================
