----------------------------- MODULE DiskProofs -----------------------------
(***************************************************************************)
(* Theorems about DiskPath, for every choice of its constants: any number  *)
(* of slots, window, group, sector and image, any guests, any pace of      *)
(* hps_io.                                                                 *)
(*                                                                         *)
(* The invariant is in two parts.  CInv says who works for whom: which     *)
(* target the engine serves, what a demand stands for, which transaction   *)
(* hps_io's session is, and that a fetch and a flush keep away from the    *)
(* sectors the engine writes.  DInv says where the data are: each word of  *)
(* a sector in a target's buffer, on its way into the store, in the store, *)
(* on its way to or from the image, and in the image.                      *)
(*                                                                         *)
(* One race of the code breaks it, DemandRace, and the theorems are about  *)
(* the behaviours that do not meet it; PatientTheorem names guests that    *)
(* never do.                                                               *)
(***************************************************************************)
EXTENDS DiskPath, TLAPS

-----------------------------------------------------------------------------
(* The race, and what the theorems assume.                                 *)

\* What the engine and the channel see in a clock without an announcement.
Now == Inputs({}, 0, TRUE)

\* A miss raises its demand in the clock in which a prefetch of the same group
\* starts.
DemandRace ==
    /\ Cache!Misses(Now) /\ Cache!StartsPrefetch(Now)
    /\ pf.slot = r.slot /\ pf.grp = Cache!RIdx \div GROUP

\* Resets find no target at work.
Calm == guest.events \cap {"reset", "busreset"} = {}

-----------------------------------------------------------------------------
(* The inductive invariant: who works for whom.                            *)

EngStates == {"E_IDLE", "E_DECIDE", "E_FLUSHALL", "E_REBASE", "E_PT", "E_FETCH",
              "E_RD_A", "E_RD_B", "E_RD_C", "E_WR_A", "E_WR_B", "E_WR_C", "E_DONE"}
Readings == {"E_RD_A", "E_RD_B", "E_RD_C"}
Writings == {"E_WR_A", "E_WR_B", "E_WR_C"}
Answerings == Readings \cup Writings \cup {"E_DONE"}

Windows == [base : Nat, ok : BOOLEAN, lim : Nat, valid : SUBSET Cache!Sectors,
            dirty : SUBSET Cache!Sectors, size : Nat, mounted : BOOLEAN]

TransactionKind ==
    [st : {"C_IDLE", "C_REQ", "C_XFER"}, wr : BOOLEAN, pt : BOOLEAN, slot : Slots,
     idx : Cache!Sectors, grp : BOOLEAN, base : Nat, lba : Nat]

\* What kind of thing the control's variables hold.
KindInv ==
    /\ guest \in Guests /\ Calm /\ bypass \in BOOLEAN
    /\ win \in [Slots -> Windows]
    /\ est \in EngStates
    /\ r \in [slot : Slots, lba : Nat, wr : BOOLEAN, word : Nat]
    /\ c \in TransactionKind
    /\ dem \in [req : BOOLEAN, wr : BOOLEAN, pt : BOOLEAN, idx : Cache!Sectors, grp : BOOLEAN]
    /\ pf \in [slot : Slots, grp : 0..(Cache!Groups - 1), left : Nat]
    /\ fl \in [slot : Slots, idx : Cache!Sectors]
    /\ io \in [Slots -> {"none", "rd", "wr"}] /\ busy \in [Slots -> BOOLEAN]
    /\ lba \in [Slots -> Nat] /\ writing \in [Slots -> BOOLEAN]
    /\ e_ack \subseteq Slots /\ old_io_ack \subseteq Slots
    /\ hps \in [on : BOOLEAN, slot : Slots, wr : BOOLEAN, lba : Nat, n : Nat, k : Nat,
                strobe : BOOLEAN]

\* One target at a time asks and is answered.
PortInv ==
    /\ \A s \in Slots : busy[s] => /\ s \in guest.slots /\ win[s].mounted
                                   /\ lba[s] \in guest.lbas
                                   /\ \A t \in guest.slots \ {0} : win[t].mounted
    /\ \A s, t \in Slots : busy[s] /\ busy[t] => s = t
    /\ \A s \in Slots : io[s] # "none" => busy[s] /\ s \notin old_io_ack
    /\ \A s \in Slots : busy[s] /\ writing[s] => s \in guest.writers
    /\ \A s \in Slots : io[s] # "none" => (writing[s] <=> io[s] = "wr")

\* The engine works for the target that asks, whose line falls with the answer.
EngineInv ==
    /\ est = "E_IDLE" => e_ack = {}
    /\ est # "E_IDLE" =>
          /\ busy[r.slot] /\ lba[r.slot] = r.lba /\ (writing[r.slot] <=> r.wr)
          /\ old_io_ack \subseteq e_ack /\ e_ack \subseteq {r.slot}
    /\ est \in Answerings => e_ack = {r.slot} /\ Cache!RInWin /\ r.word \in Words
    /\ est \in Writings => r.wr
    /\ est \in Readings \cup {"E_FETCH"} => ~r.wr
    /\ est \notin Answerings \cup {"E_PT"} => e_ack = {}
    /\ est \notin Answerings \cup {"E_IDLE"} => r.word = 0
    /\ est \in {"E_FLUSHALL", "E_REBASE"} => pf.left = 0
    /\ est = "E_REBASE" => Cache!R.dirty = {} /\ (c.st # "C_IDLE" => c.slot # r.slot)

\* A demand is what the engine waits for, and so is a sector that passes the
\* cache.
DemandInv ==
    /\ dem.req /\ dem.pt => est = "E_PT" /\ (dem.wr <=> r.wr)
    /\ dem.req /\ ~dem.pt =>
          /\ est = "E_FETCH" /\ ~dem.wr /\ dem.idx = Cache!RIdx /\ Cache!RIdx \notin Cache!R.valid
          /\ dem.grp => Cache!InGroup(Cache!RIdx) \cap Cache!R.dirty = {}
          /\ c.st # "C_IDLE" /\ ~c.pt /\ ~c.wr /\ c.slot = r.slot => Cache!RIdx \notin Cache!Covered
    /\ c.st # "C_IDLE" /\ c.pt => est = "E_PT" /\ c.slot = r.slot /\ (c.wr <=> r.wr) /\ ~dem.req
    /\ est = "E_PT" => (dem.req /\ dem.pt) \/ (c.st # "C_IDLE" /\ c.pt)

\* hps_io's session is the channel's transaction.
Length(t) == IF t.grp THEN GROUP ELSE 1
HpsInv ==
    /\ ~hps.on => hps = NoSession
    /\ hps.on => /\ c.st # "C_IDLE"
                 /\ hps.slot = c.slot /\ hps.wr = c.wr /\ hps.lba = c.lba /\ hps.n = Length(c)
                 /\ hps.k \in 0..(hps.n * WORDS)
                 /\ hps.strobe => hps.k > 0 /\ ~hps.wr
                 /\ c.st = "C_REQ" => hps.k <= 1 /\ (hps.wr => hps.k = 0)
    /\ p_ack_d = IF c.st = "C_XFER" THEN {c.slot} ELSE {}
    /\ c.st # "C_IDLE" /\ c.grp => c.idx % GROUP = 0

\* What is dirty is valid, in a window, of an image.
WindowInv ==
    \A s \in Slots :
        /\ win[s].dirty \subseteq win[s].valid
        /\ win[s].dirty # {} => win[s].ok
        /\ win[s].ok => win[s].mounted

\* No fetch goes where something is dirty, and no transaction where the engine
\* writes or has just written.
FetchInv ==
    c.st # "C_IDLE" /\ ~c.pt /\ ~c.wr /\ win[c.slot].ok =>
        Cache!Covered \cap win[c.slot].dirty = {}
WriteInv ==
    /\ c.st # "C_IDLE" /\ ~c.pt /\ r.slot = c.slot
    /\ est \in Writings \/ (est = "E_DONE" /\ r.wr)
    => Cache!RIdx \notin Cache!Covered

CInv == KindInv /\ PortInv /\ EngineInv /\ DemandInv /\ HpsInv /\ WindowInv /\ FetchInv /\ WriteInv

-----------------------------------------------------------------------------
(* Sectors and groups.                                                     *)

LEMMA Division ==
    ASSUME NEW a \in Nat, NEW b \in Nat \ {0}
    PROVE  a \div b \in Nat /\ (a % b) \in 0..(b - 1) /\ a = b * (a \div b) + (a % b)
OBVIOUS

LEMMA Quotient ==
    ASSUME NEW q \in Nat, NEW m \in Nat, NEW b \in Nat \ {0}, m < b
    PROVE  (b * q + m) \div b = q /\ (b * q + m) % b = m
OBVIOUS

LEMMA Below ==
    ASSUME NEW q \in Nat, NEW m \in Nat, NEW b \in Nat \ {0}, q < m
    PROVE  b * q + b <= b * m
OBVIOUS

LEMMA Geometry ==
    /\ GROUP \in Nat \ {0} /\ SECT \in Nat \ {0} /\ WORDS \in Nat \ {0, 1} /\ NS \in Nat \ {0}
    /\ Cache!Groups \in Nat \ {0} /\ SECT = GROUP * Cache!Groups
    /\ Cache!Sectors = 0..(SECT - 1) /\ 0 \in Cache!Sectors
    /\ 0 \in Slots /\ Slots \subseteq Nat
<1>1. /\ GROUP \in Nat \ {0} /\ SECT \in Nat \ {0} /\ WORDS \in Nat \ {0, 1} /\ NS \in Nat \ {0}
      /\ SECT % GROUP = 0
  BY GeometryAssumption
<1>2. SECT \div GROUP \in Nat /\ SECT = GROUP * (SECT \div GROUP) + (SECT % GROUP)
  BY <1>1, Division
<1>3. GROUP * (SECT \div GROUP) \in Nat
  BY <1>1, <1>2
<1>4. SECT = GROUP * (SECT \div GROUP)
  BY <1>1, <1>2, <1>3
<1>5. SECT \div GROUP # 0
  BY <1>1, <1>4
<1> QED
  BY <1>1, <1>2, <1>4, <1>5 DEF Cache!Groups, Cache!Sectors, Slots

\* The sectors of a group lie behind its first one.
LEMMA GroupIs ==
    ASSUME NEW g \in 0..(Cache!Groups - 1)
    PROVE  /\ g * GROUP \in Cache!Sectors /\ (g * GROUP) % GROUP = 0
           /\ (g * GROUP) \div GROUP = g
           /\ \A b \in 0..(GROUP - 1) : /\ g * GROUP + b \in Cache!Sectors
                                        /\ (g * GROUP + b) \div GROUP = g
<1>1. /\ GROUP \in Nat \ {0} /\ SECT \in Nat \ {0} /\ Cache!Groups \in Nat \ {0}
      /\ SECT = GROUP * Cache!Groups /\ Cache!Sectors = 0..(SECT - 1)
  BY Geometry
<1>2. g \in Nat /\ g < Cache!Groups
  BY <1>1
<1>3. GROUP * g + GROUP <= SECT /\ GROUP * g \in Nat /\ g * GROUP = GROUP * g
  BY <1>1, <1>2, Below
<1>4. \A b \in 0..(GROUP - 1) : /\ g * GROUP + b \in Cache!Sectors
                                /\ (g * GROUP + b) \div GROUP = g /\ (g * GROUP + b) % GROUP = b
  <2>1. SUFFICES ASSUME NEW b \in 0..(GROUP - 1)
                 PROVE  /\ g * GROUP + b \in Cache!Sectors
                        /\ (g * GROUP + b) \div GROUP = g /\ (g * GROUP + b) % GROUP = b
    OBVIOUS
  <2>2. b \in Nat /\ b < GROUP
    BY <1>1
  <2>3. (GROUP * g + b) \div GROUP = g /\ (GROUP * g + b) % GROUP = b
    BY <1>1, <1>2, <2>2, Quotient
  <2> QED
    BY <1>1, <1>3, <2>2, <2>3
<1>5. 0 \in 0..(GROUP - 1) /\ g * GROUP + 0 = g * GROUP
  BY <1>1, <1>3
<1> QED
  BY <1>4, <1>5

\* A sector's group and the group's first sector.
LEMMA SectorIs ==
    ASSUME NEW i \in Cache!Sectors
    PROVE  /\ i \in Nat /\ i < SECT
           /\ i \div GROUP \in 0..(Cache!Groups - 1) /\ i \in Cache!InGroup(i)
           /\ Cache!GroupBase(i) \in Cache!Sectors /\ Cache!GroupBase(i) % GROUP = 0
           /\ Cache!GroupBase(i) \div GROUP = i \div GROUP
           /\ Cache!InGroup(Cache!GroupBase(i)) = Cache!InGroup(i)
<1>1. /\ GROUP \in Nat \ {0} /\ SECT \in Nat \ {0} /\ Cache!Groups \in Nat \ {0}
      /\ SECT = GROUP * Cache!Groups /\ Cache!Sectors = 0..(SECT - 1)
  BY Geometry
<1>2. i \in Nat /\ i < SECT
  BY <1>1
<1>3. i \div GROUP \in Nat /\ (i % GROUP) \in 0..(GROUP - 1) /\ i = GROUP * (i \div GROUP) + (i % GROUP)
  BY <1>1, <1>2, Division
<1>4. ~(i \div GROUP >= Cache!Groups)
  <2>1. SUFFICES ASSUME i \div GROUP >= Cache!Groups PROVE FALSE
    OBVIOUS
  <2>2. GROUP * (i \div GROUP) >= GROUP * Cache!Groups
    BY <1>1, <1>3, <2>1
  <2> QED
    BY <1>1, <1>2, <1>3, <2>2
<1>5. i \div GROUP \in 0..(Cache!Groups - 1)
  BY <1>1, <1>3, <1>4
<1>6. /\ Cache!GroupBase(i) \in Cache!Sectors /\ Cache!GroupBase(i) % GROUP = 0
      /\ Cache!GroupBase(i) \div GROUP = i \div GROUP
  BY <1>5, GroupIs DEF Cache!GroupBase
<1> QED
  BY <1>2, <1>5, <1>6 DEF Cache!InGroup

\* What a transaction that begins at a group's start covers.
LEMMA InsideGroup ==
    ASSUME NEW i \in Cache!Sectors, i % GROUP = 0, NEW b \in 0..(GROUP - 1)
    PROVE  i + b \in Cache!InGroup(i) /\ i + GROUP <= SECT
<1>1. /\ GROUP \in Nat \ {0} /\ Cache!Groups \in Nat \ {0}
      /\ SECT = GROUP * Cache!Groups /\ Cache!Sectors = 0..(SECT - 1)
  BY Geometry
<1>2. /\ i \div GROUP \in 0..(Cache!Groups - 1) /\ i \in Nat
  BY SectorIs
<1>3. i = GROUP * (i \div GROUP) + (i % GROUP)
  BY <1>1, <1>2, Division
<1>4. i = (i \div GROUP) * GROUP
  BY <1>1, <1>2, <1>3
<1>5. i + b \in Cache!Sectors /\ (i + b) \div GROUP = i \div GROUP
  BY <1>2, <1>4, GroupIs
<1>6. GROUP * (i \div GROUP) + GROUP <= SECT
  BY <1>1, <1>2, Below
<1> QED
  BY <1>1, <1>2, <1>4, <1>5, <1>6 DEF Cache!InGroup

\* The engine's sector is one of the window's.
LEMMA IdxIs ==
    ASSUME KindInv
    PROVE  /\ Cache!RIdx \in Cache!Sectors
           /\ Cache!RInWin => Cache!R.base + Cache!RIdx = r.lba
<1>1. SECT \in Nat \ {0} /\ Cache!Sectors = 0..(SECT - 1)
  BY Geometry
<1>2. r.lba \in Nat /\ Cache!R.base \in Nat
  BY DEF KindInv, Windows, Cache!R
<1>3. \A d \in Int : (d % SECT) \in 0..(SECT - 1)
  BY <1>1
<1>4. \A d \in Nat : d < SECT => d % SECT = d
  BY <1>1
<1>5. r.lba - Cache!R.base \in Int
  BY <1>2
<1>6. Cache!RIdx \in Cache!Sectors
  BY <1>1, <1>3, <1>5 DEF Cache!RIdx
<1>7. ASSUME Cache!RInWin
      PROVE  Cache!R.base + Cache!RIdx = r.lba
  <2>1. r.lba - Cache!R.base \in Nat /\ r.lba - Cache!R.base < SECT
    BY <1>1, <1>2, <1>7 DEF Cache!RInWin
  <2>2. Cache!RIdx = r.lba - Cache!R.base
    BY <1>4, <2>1 DEF Cache!RIdx
  <2> QED
    BY <1>2, <2>2
<1> QED
  BY <1>6, <1>7

-----------------------------------------------------------------------------
(* One clock.                                                              *)

\* hps_io moves, whatever becomes of the image.
HpsGoes ==
    \/ /\ ~hps.on /\ c.st = "C_REQ"
       /\ \E now \in BOOLEAN :
             /\ now => ~c.wr
             /\ hps' = [on |-> TRUE, slot |-> c.slot, wr |-> c.wr, lba |-> c.lba,
                        n |-> Length(c), k |-> IF now THEN 1 ELSE 0, strobe |-> now]
    \/ hps.on /\ ~hps.wr /\ hps.k < Total /\ hps' = [hps EXCEPT !.k = @ + 1, !.strobe = TRUE]
    \/ hps.on /\ hps.wr /\ hps.k < Total /\ c.st = "C_XFER" /\ hps' = [hps EXCEPT !.k = @ + 1]
    \/ hps.on /\ hps.k = Total /\ hps' = NoSession
    \/ hps' = [hps EXCEPT !.strobe = FALSE]

\* A clock with an announcement of images of `blocks` sectors in the slots of
\* `mount`, with a reset of the machine or of the bus.
Steps(mount, blocks, nreset, rst) ==
    /\ ClockWith(mount, blocks, nreset, rst)
    /\ ~nreset \/ rst => Idle
    /\ \A s \in mount :
          /\ ~busy[s] /\ ~hps.on
          /\ \/ ~win[s].mounted /\ blocks = Size
             \/ /\ s = 0 /\ "swap" \in guest.events /\ blocks = NewSize
                /\ \A t \in Slots : io'[t] = io[t]
    /\ HpsGoes
    /\ bypass' \in BOOLEAN /\ guest' = guest

\* What a clock makes of the image: another one, or the same one, with a word
\* more when hps_io takes one.
Swaps(mount) ==
    /\ mount = {0} /\ "swap" \in guest.events /\ ~hps.on /\ ~busy[0]
    /\ \A t \in Slots : io'[t] = io[t]
    /\ hps' = hps /\ cur' = SwappedVersion /\ disk' = Sector(cur')
Samples ==
    /\ hps.on /\ hps.wr /\ hps.k < Total /\ c.st = "C_XFER" /\ hps' = [hps EXCEPT !.k = @ + 1]
    /\ disk' = IF Watched(hps.slot, hps.lba + Block(hps.k))
               THEN [disk EXCEPT ![WordAt(hps.k)] = PBuffDin(hps.k)] ELSE disk
Keeps == disk' = disk /\ (hps.on /\ hps.wr /\ hps'.on => hps'.k = hps.k)
ImageGoes(mount) ==
    \/ Swaps(mount)
    \/ (\A s \in mount : ~win[s].mounted) /\ cur' = Latest /\ (Samples \/ Keeps)

\* The guest's slots are slots.
LEMMA GuestIs ==
    ASSUME KindInv
    PROVE  /\ guest.slots \subseteq Slots /\ guest.writers \subseteq guest.slots
           /\ guest.lbas \subseteq 0..(Size - 1) /\ guest.lbas \subseteq Nat /\ Size \in Nat
           /\ NewSize \in Nat
<1>1. guest \in Guests
  BY DEF KindInv, TransactionKind
<1>2. /\ guest.writers \subseteq guest.slots /\ guest.slots \subseteq 0..(NS - 1)
      /\ guest.lbas \subseteq 0..(Size - 1) /\ Size \in Nat /\ NewSize \in Nat
  BY <1>1, GuestAssumption
<1> QED
  BY <1>2 DEF Slots

LEMMA WaitingGoes ==
    ASSUME KindInv, HpsInv, ~hps.on, hps' = hps
    PROVE  HpsGoes
BY DEF HpsGoes, KindInv, TransactionKind, HpsInv, NoSession

LEMMA ClockGoes ==
    ASSUME KindInv, HpsClock
    PROVE  HpsGoes /\ (Samples \/ Keeps)
<1>1. HpsGoes
  BY DEF HpsClock, HpsStarts, HpsDelivers, HpsSamples, HpsEnds, HpsWaits, HpsGoes, Length, KindInv, TransactionKind
<1>2. Samples \/ Keeps
  <2>1. CASE HpsStarts
    BY <2>1 DEF HpsStarts, Keeps
  <2>2. CASE HpsDelivers
    BY <2>2 DEF HpsDelivers, Keeps
  <2>3. CASE HpsSamples
    BY <2>3 DEF HpsSamples, Samples
  <2>4. CASE HpsEnds
    BY <2>4 DEF HpsEnds, Keeps, NoSession
  <2>5. CASE HpsWaits
    <3>1. hps' = [hps EXCEPT !.strobe = FALSE] /\ disk' = disk
      BY <2>5 DEF HpsWaits
    <3>2. hps'.k = hps.k
      BY <3>1 DEF KindInv
    <3> QED
      BY <3>1, <3>2 DEF Keeps
  <2> QED
    BY <2>1, <2>2, <2>3, <2>4, <2>5 DEF HpsClock
<1> QED
  BY <1>1, <1>2

\* Every action is a clock.
LEMMA NextSteps ==
    ASSUME KindInv, PortInv, HpsInv, Next
    PROVE  \E mount \in SUBSET Slots, blocks \in Nat, nreset \in BOOLEAN, rst \in BOOLEAN :
              Steps(mount, blocks, nreset, rst) /\ ImageGoes(mount)
<1>1. CASE Tick
  <2>1. Steps({}, 0, TRUE, FALSE) /\ ImageGoes({})
    BY <1>1, ClockGoes DEF Tick, Steps, ImageGoes, Track, KindInv, TransactionKind
  <2> QED
    BY <2>1
<1>2. CASE Mount
  <2>1. PICK s \in guest.slots : /\ ~win[s].mounted /\ ~hps.on /\ ClockWith({s}, Size, TRUE, FALSE)
                                 /\ UNCHANGED <<hps, disk, cur, bypass, left, guest>>
    BY <1>2 DEF Mount
  <2>2. /\ s \in Slots /\ ~busy[s]
    BY GuestIs, <2>1 DEF PortInv
  <2>3. Steps({s}, Size, TRUE, FALSE)
    BY <2>1, <2>2, WaitingGoes DEF Steps, KindInv, TransactionKind
  <2>4. ~busy[0]
    BY <2>1, <2>2, GuestIs, Geometry DEF PortInv
  <2>5. ImageGoes({s})
    BY <2>1, <2>4 DEF ImageGoes, Keeps, Latest
  <2> QED
    BY <2>2, <2>3, <2>5, GuestIs
<1>3. CASE SwitchBypass
  <2>1. Steps({}, 0, TRUE, FALSE) /\ ImageGoes({})
    BY <1>3, ClockGoes DEF SwitchBypass, Event, Steps, ImageGoes, Track, KindInv, TransactionKind
  <2> QED
    BY <2>1
<1>4. CASE Swap
  <2>1. Steps({0}, NewSize, TRUE, FALSE)
    BY <1>4, WaitingGoes DEF Swap, Event, Steps, KindInv, TransactionKind
  <2>2. 0 \in Slots
    BY Geometry
  <2>3. ImageGoes({0})
    BY <1>4 DEF Swap, Event, ImageGoes, Swaps
  <2> QED
    BY <2>1, <2>2, <2>3, GuestIs
<1>5. CASE Reset
  <2>1. Steps({}, 0, FALSE, FALSE) /\ ImageGoes({})
    BY <1>5, ClockGoes DEF Reset, Event, Steps, ImageGoes, Track, KindInv, TransactionKind, Calm
  <2> QED
    BY <2>1
<1>6. CASE BusReset
  <2>1. Steps({}, 0, TRUE, TRUE)
    BY <1>6, ClockGoes DEF BusReset, Event, Steps, KindInv, TransactionKind, Calm
  <2>2. ~busy[0]
    BY <1>6, Geometry DEF BusReset, Event, Idle, KindInv, Calm
  <2>3. ImageGoes({})
    BY <1>6, <2>2, ClockGoes DEF BusReset, ImageGoes, Latest
  <2> QED
    BY <2>1, <2>3
<1> QED
  BY <1>1, <1>2, <1>3, <1>4, <1>5, <1>6 DEF Next

-----------------------------------------------------------------------------
(* The wires.                                                              *)

LEMMA InputsAre ==
    ASSUME NEW mount, NEW blocks, NEW nreset, NEW in, in = Inputs(mount, blocks, nreset)
    PROVE  /\ in.rd = {s \in Slots : io[s] = "rd"} /\ in.wr = {s \in Slots : io[s] = "wr"}
           /\ in.lba = lba /\ in.din = sd_buff[AckSel]
           /\ in.ack = (IF hps.on THEN {hps.slot} ELSE {}) /\ in.strobe = hps.strobe
           /\ in.mount = mount /\ in.blocks = blocks /\ in.bypass = bypass /\ in.nreset = nreset
BY DEF Inputs

\* The transaction hps_io serves is the channel's.
LEMMA AckIs ==
    ASSUME KindInv, HpsInv, NEW mount, NEW blocks, NEW nreset, NEW in,
           in = Inputs(mount, blocks, nreset)
    PROVE  /\ Cache!CLive(in) <=> c.st = "C_XFER" \/ (c.st = "C_REQ" /\ hps.on)
           /\ c.st # "C_IDLE" => (c.slot \in in.ack <=> hps.on)
           /\ Cache!ChannelFinish(in) <=> c.st = "C_XFER" /\ ~hps.on
           /\ in.ack \subseteq Slots
           /\ p_ack_d \ in.ack = IF c.st = "C_XFER" /\ ~hps.on THEN {c.slot} ELSE {}
<1>1. in.ack = IF hps.on THEN {hps.slot} ELSE {}
  BY InputsAre
<1>2. hps.on => hps.slot = c.slot /\ c.st # "C_IDLE"
  BY DEF HpsInv
<1>3. p_ack_d = IF c.st = "C_XFER" THEN {c.slot} ELSE {}
  BY DEF HpsInv
<1>4. hps.slot \in Slots
  BY DEF KindInv, TransactionKind
<1> QED
  BY <1>1, <1>2, <1>3, <1>4 DEF Cache!CLive, Cache!ChannelFinish, Cache!AckFall

LEMMA PassedIs ==
    ASSUME KindInv, HpsInv, DemandInv, NEW mount, NEW blocks, NEW nreset, NEW in,
           in = Inputs(mount, blocks, nreset)
    PROVE  Cache!PtDone(in) <=> est = "E_PT" /\ c.st = "C_XFER" /\ c.pt /\ ~hps.on
<1>1. c.st # "C_IDLE" /\ c.pt => c.slot = r.slot
  BY DEF DemandInv
<1> QED
  BY <1>1, AckIs DEF Cache!PtDone, Cache!CLive, Cache!AckFall

\* The target that asks, if one does.
LEMMA AskingIs ==
    ASSUME KindInv, PortInv, NEW mount, NEW blocks, NEW nreset, NEW in,
           in = Inputs(mount, blocks, nreset)
    PROVE  /\ (\A s \in Slots : io[s] = "none") => Cache!Asking(in) = {}
           /\ \A s \in Slots : io[s] # "none" => /\ Cache!Asking(in) = {s} /\ Cache!First(in) = s
                                                 /\ (s \in in.wr <=> writing[s])
<1>1. Cache!Asking(in) = {s \in Slots : io[s] # "none"}
  <2>1. \A s \in Slots : io[s] \in {"none", "rd", "wr"}
    BY DEF KindInv, TransactionKind
  <2> QED
    BY <2>1, InputsAre DEF Cache!Asking
<1>2. ASSUME NEW s \in Slots, io[s] # "none"
      PROVE  /\ Cache!Asking(in) = {s} /\ Cache!First(in) = s /\ (s \in in.wr <=> writing[s])
  <2>1. \A t \in Slots : io[t] # "none" => t = s
    BY <1>2 DEF PortInv
  <2>2. Cache!Asking(in) = {s}
    BY <1>1, <1>2, <2>1
  <2>3. s <= s
    BY DEF Slots
  <2>4. Cache!First(in) = s
    BY <2>2, <2>3 DEF Cache!First
  <2>5. s \in in.wr <=> writing[s]
    BY <1>2, InputsAre DEF PortInv
  <2> QED
    BY <2>2, <2>4, <2>5
<1> QED
  BY <1>1, <1>2

\* A reset finds the engine at rest.
LEMMA ResetAtRest ==
    ASSUME KindInv, PortInv, EngineInv, Idle
    PROVE  est = "E_IDLE" /\ \A s \in Slots : io[s] = "none" /\ ~busy[s]
BY DEF Idle, EngineInv, KindInv, TransactionKind

-----------------------------------------------------------------------------
(* The engine, state by state.                                             *)

LEMMA EngineClock ==
    ASSUME KindInv, PortInv, EngineInv,
           NEW mount, NEW blocks, NEW nreset, NEW rst, Steps(mount, blocks, nreset, rst),
           NEW in, in = Inputs(mount, blocks, nreset)
    PROVE  /\ est' = Cache!NextEst(in) /\ r' = Cache!NextRequest(in)
           /\ dem' = Cache!NextDemand(in)
           /\ e_ack' = IF est \in {"E_IDLE", "E_DONE"} \/ Cache!PtDone(in) THEN {}
                       ELSE IF Cache!Accepts(in) \/ Cache!Serves(in) THEN {r.slot}
                       ELSE IF est = "E_PT" /\ Cache!CLive(in) /\ c.pt THEN {r.slot} \cap in.ack
                       ELSE e_ack
           /\ \/ pf' = Cache!NoPrefetch
              \/ est = "E_DONE" /\ pf' = [slot |-> r.slot, grp |-> Cache!RIdx \div GROUP, left |-> PREFETCH]
              \/ est # "E_DONE" /\ ~Cache!SettlesFirst(in) /\ pf' = Cache!PfAfterChannel(in)
              \/ est = "E_DONE" /\ r.wr /\ ~Cache!SettlesFirst(in) /\ pf' = Cache!PfAfterChannel(in)
<1>1. Cache!Engine(in)
  BY DEF Steps, ClockWith, Cache!Clock
<1>2. in.nreset = nreset
  BY InputsAre
<1>3. ~nreset => est = "E_IDLE" /\ Cache!Asking(in) = {}
  BY ResetAtRest, AskingIs DEF Steps
<1>4. ~nreset => Cache!NextEst(in) = "E_IDLE"
  BY <1>3 DEF Cache!NextEst, Cache!SettlesFirst, Cache!PassesThrough, Cache!Accepts, Cache!Serves,
              Cache!Misses, Cache!Deciding, Cache!Settled, Cache!PtDone
<1> QED
  BY <1>1, <1>2, <1>3, <1>4 DEF Cache!Engine

\* Where each of the engine's states leads.
LEMMA FromIdle ==
    ASSUME KindInv, PortInv, EngineInv, est = "E_IDLE",
           NEW mount, NEW blocks, NEW nreset, NEW rst, Steps(mount, blocks, nreset, rst)
    PROVE  /\ e_ack' = {} /\ dem' = Cache!DemandLeft
           /\ (\A s \in Slots : io[s] = "none") => est' = "E_IDLE" /\ r' = r
           /\ \A s \in Slots : io[s] # "none" =>
                 /\ est' = "E_DECIDE" /\ r'.slot = s /\ r'.lba = lba[s] /\ (r'.wr <=> writing[s])
                 /\ r'.word = 0 /\ r' \in [slot : Slots, lba : Nat, wr : BOOLEAN, word : Nat]
<1> DEFINE in == Inputs(mount, blocks, nreset)
<1>1. /\ est' = Cache!NextEst(in) /\ r' = Cache!NextRequest(in) /\ dem' = Cache!NextDemand(in)
      /\ e_ack' = {}
  BY EngineClock
<1>2. dem' = Cache!DemandLeft
  BY <1>1 DEF Cache!NextDemand, Cache!PassesThrough, Cache!Misses, Cache!Deciding
<1>3. CASE \A s \in Slots : io[s] = "none"
  <2>1. Cache!Asking(in) = {}
    BY <1>3, AskingIs
  <2>2. est' = "E_IDLE"
    BY <1>1, <2>1 DEF Cache!NextEst, Cache!SettlesFirst, Cache!PassesThrough, Cache!Accepts, Cache!Serves,
              Cache!Misses, Cache!Deciding, Cache!Settled, Cache!PtDone
  <2>3. r' = r
    BY <1>1, <2>1 DEF Cache!NextRequest, Cache!PtDone
  <2> QED
    BY <1>1, <1>2, <1>3, <2>2, <2>3
<1>4. ASSUME NEW s \in Slots, io[s] # "none"
      PROVE  /\ est' = "E_DECIDE" /\ r'.slot = s /\ r'.lba = lba[s] /\ (r'.wr <=> writing[s])
             /\ r'.word = 0 /\ r' \in [slot : Slots, lba : Nat, wr : BOOLEAN, word : Nat]
  <2>1. Cache!Asking(in) = {s} /\ Cache!First(in) = s /\ (s \in in.wr <=> writing[s])
    BY <1>4, AskingIs
  <2>2. in.lba = lba
    BY InputsAre
  <2>3. est' = "E_DECIDE"
    BY <1>1, <2>1 DEF Cache!NextEst, Cache!SettlesFirst, Cache!PassesThrough, Cache!Accepts, Cache!Serves,
              Cache!Misses, Cache!Deciding, Cache!Settled, Cache!PtDone
  <2>4. r' = [slot |-> s, lba |-> lba[s], wr |-> s \in in.wr, word |-> 0]
    BY <1>1, <2>1, <2>2 DEF Cache!NextRequest, Cache!PtDone
  <2>5. lba[s] \in Nat /\ (s \in in.wr) \in BOOLEAN
    BY DEF KindInv, TransactionKind
  <2> QED
    BY <2>1, <2>3, <2>4, <2>5
<1> QED
  BY <1>1, <1>2, <1>3, <1>4

LEMMA FromDecide ==
    ASSUME KindInv, PortInv, EngineInv, est = "E_DECIDE",
           NEW mount, NEW blocks, NEW nreset, NEW rst, Steps(mount, blocks, nreset, rst)
    PROVE  /\ r' = r
           /\ \/ /\ est' = "E_FLUSHALL" /\ pf' = Cache!NoPrefetch
                 /\ e_ack' = e_ack /\ dem' = Cache!DemandLeft
              \/ /\ est' = "E_PT" /\ Cache!R.dirty = {} /\ ~dem.req /\ e_ack' = e_ack
                 /\ Cache!PassesThrough(Inputs(mount, blocks, nreset))
                 /\ dem' = [req |-> TRUE, wr |-> r.wr, pt |-> TRUE, idx |-> 0, grp |-> FALSE]
              \/ /\ est' = "E_WR_A" /\ ~bypass /\ Cache!RInWin /\ r.wr /\ ~Cache!ChBusyMe
                 /\ e_ack' = {r.slot} /\ dem' = Cache!DemandLeft
              \/ /\ est' = "E_RD_A" /\ ~bypass /\ ~r.wr /\ Cache!RHit
                 /\ e_ack' = {r.slot} /\ dem' = Cache!DemandLeft
              \/ /\ est' = "E_FETCH" /\ Cache!Misses(Inputs(mount, blocks, nreset)) /\ e_ack' = e_ack
                 /\ dem' = [req |-> TRUE, wr |-> FALSE, pt |-> FALSE, idx |-> Cache!RIdx,
                            grp |-> Cache!DemGrp]
              \/ est' = "E_DECIDE" /\ e_ack' = e_ack /\ dem' = Cache!DemandLeft
           /\ ~Cache!PassesThrough(Inputs(mount, blocks, nreset)) \/ est' = "E_PT"
<1> DEFINE in == Inputs(mount, blocks, nreset)
<1>1. /\ est' = Cache!NextEst(in) /\ r' = Cache!NextRequest(in) /\ dem' = Cache!NextDemand(in)
      /\ e_ack' = IF Cache!Accepts(in) \/ Cache!Serves(in) THEN {r.slot} ELSE e_ack
      /\ Cache!SettlesFirst(in) => pf' = Cache!NoPrefetch
  BY EngineClock DEF Cache!PtDone
<1>2. r' = r
  BY <1>1 DEF Cache!NextRequest, Cache!PtDone
<1>3. in.bypass = bypass
  BY InputsAre
<1> HIDE DEF in
<1>4. /\ Cache!SettlesFirst(in)  => est' = "E_FLUSHALL"
      /\ Cache!PassesThrough(in) => est' = "E_PT"
      /\ Cache!Accepts(in)       => est' = "E_WR_A"
      /\ Cache!Serves(in)        => est' = "E_RD_A"
      /\ Cache!Misses(in)        => est' = "E_FETCH"
      /\ \/ Cache!SettlesFirst(in) \/ Cache!PassesThrough(in) \/ Cache!Accepts(in)
         \/ Cache!Serves(in) \/ Cache!Misses(in) \/ est' = "E_DECIDE"
  BY <1>1 DEF Cache!NextEst, Cache!SettlesFirst, Cache!PassesThrough, Cache!Accepts, Cache!Serves,
              Cache!Misses, Cache!Deciding, Cache!Settled, Cache!PtDone, Cache!RPt, Cache!RHit
<1>5. /\ Cache!PassesThrough(in) =>
            /\ Cache!R.dirty = {} /\ ~dem.req
            /\ ~Cache!SettlesFirst(in) /\ ~Cache!Accepts(in) /\ ~Cache!Serves(in) /\ ~Cache!Misses(in)
      /\ Cache!Accepts(in) =>
            /\ ~bypass /\ Cache!RInWin /\ r.wr /\ ~Cache!ChBusyMe
            /\ ~Cache!PassesThrough(in) /\ ~Cache!Serves(in) /\ ~Cache!Misses(in)
      /\ Cache!Serves(in) =>
            /\ ~bypass /\ ~r.wr /\ Cache!RHit
            /\ ~Cache!PassesThrough(in) /\ ~Cache!Misses(in)
      /\ Cache!Misses(in) =>
            ~Cache!PassesThrough(in) /\ ~Cache!Accepts(in) /\ ~Cache!Serves(in)
      /\ Cache!SettlesFirst(in) =>
            /\ ~Cache!PassesThrough(in) /\ ~Cache!Accepts(in) /\ ~Cache!Serves(in) /\ ~Cache!Misses(in)
  BY <1>3 DEF Cache!SettlesFirst, Cache!PassesThrough, Cache!Accepts, Cache!Serves,
              Cache!Misses, Cache!Deciding, Cache!Settled, Cache!PtDone, Cache!RPt, Cache!RHit
<1>6. /\ Cache!PassesThrough(in) =>
            dem' = [req |-> TRUE, wr |-> r.wr, pt |-> TRUE, idx |-> 0, grp |-> FALSE]
      /\ Cache!Misses(in) =>
            dem' = [req |-> TRUE, wr |-> FALSE, pt |-> FALSE, idx |-> Cache!RIdx, grp |-> Cache!DemGrp]
      /\ ~Cache!PassesThrough(in) /\ ~Cache!Misses(in) => dem' = Cache!DemandLeft
  BY <1>1, <1>5 DEF Cache!NextDemand
<1>7. in = Inputs(mount, blocks, nreset)
  BY DEF in
<1> QED
  BY <1>1, <1>2, <1>4, <1>5, <1>6, <1>7

\* What is left of a request that was answered.
LEMMA EndedRequest ==
    ASSUME KindInv, r' = r \/ r' = [Cache!NoRequest EXCEPT !.slot = r.slot]
    PROVE  /\ r'.slot = r.slot
           /\ r' \in [slot : Slots, lba : Nat, wr : BOOLEAN, word : Nat]
<1>1. r \in [slot : Slots, lba : Nat, wr : BOOLEAN, word : Nat]
  BY DEF KindInv, TransactionKind
<1>2. Cache!NoRequest \in [slot : Nat, lba : Nat, wr : BOOLEAN, word : Nat]
  BY DEF Cache!NoRequest
<1> QED
  BY <1>1, <1>2

LEMMA FromSettling ==
    ASSUME KindInv, PortInv, EngineInv, DemandInv, HpsInv,
           est \in {"E_FLUSHALL", "E_REBASE", "E_FETCH", "E_PT"},
           NEW mount, NEW blocks, NEW nreset, NEW rst, Steps(mount, blocks, nreset, rst)
    PROVE  /\ dem' = Cache!DemandLeft
           /\ est # "E_PT" => r' = r /\ e_ack' = e_ack
           /\ est = "E_FLUSHALL" => \/ est' = "E_FLUSHALL"
                                    \/ est' = "E_REBASE" /\ Cache!R.dirty = {} /\ c.st = "C_IDLE"
           /\ est = "E_REBASE" => est' = "E_DECIDE"
           /\ est = "E_FETCH" => \/ est' = "E_FETCH"
                                 \/ est' = "E_DECIDE" /\ ~dem.req
           /\ est = "E_PT" =>
                 \/ /\ c.st = "C_XFER" /\ c.pt /\ ~hps.on
                    /\ est' = "E_IDLE" /\ e_ack' = {} /\ r'.slot = r.slot
                    /\ r' \in [slot : Slots, lba : Nat, wr : BOOLEAN, word : Nat]
                 \/ /\ ~(c.st = "C_XFER" /\ c.pt /\ ~hps.on)
                    /\ est' = "E_PT" /\ r' = r
                    /\ e_ack' = IF c.st # "C_IDLE" /\ c.pt /\ hps.on THEN {r.slot} ELSE e_ack
<1> DEFINE in == Inputs(mount, blocks, nreset)
<1>1. /\ est' = Cache!NextEst(in) /\ r' = Cache!NextRequest(in) /\ dem' = Cache!NextDemand(in)
      /\ e_ack' = IF Cache!PtDone(in) THEN {}
                  ELSE IF est = "E_PT" /\ Cache!CLive(in) /\ c.pt THEN {r.slot} \cap in.ack
                  ELSE e_ack
  BY EngineClock DEF Cache!Accepts, Cache!Serves, Cache!Deciding
<1>2. dem' = Cache!DemandLeft
  BY <1>1 DEF Cache!NextDemand, Cache!PassesThrough, Cache!Misses, Cache!Deciding
<1>3. Cache!PtDone(in) <=> est = "E_PT" /\ c.st = "C_XFER" /\ c.pt /\ ~hps.on
  BY PassedIs
<1>4. /\ Cache!CLive(in) <=> c.st = "C_XFER" \/ (c.st = "C_REQ" /\ hps.on)
      /\ c.st # "C_IDLE" => (c.slot \in in.ack <=> hps.on)
  BY AckIs
<1>5. Cache!RHit /\ dem.req /\ est = "E_FETCH" => FALSE
  BY DEF DemandInv, Cache!RHit
<1>6. c.st # "C_IDLE" /\ c.pt => c.slot = r.slot
  BY DEF DemandInv
<1>7. CASE est \in {"E_FLUSHALL", "E_REBASE", "E_FETCH"}
  <2>1. r' = r /\ e_ack' = e_ack
    BY <1>1, <1>3, <1>7 DEF Cache!NextRequest
  <2>2. est' = CASE Cache!Settled -> "E_REBASE"
                 [] est = "E_REBASE" -> "E_DECIDE"
                 [] est = "E_FETCH" /\ (Cache!RHit \/ (~Cache!R.ok /\ c.st = "C_IDLE" /\ ~dem.req)) -> "E_DECIDE"
                 [] OTHER -> est
    BY <1>1, <1>3, <1>7 DEF Cache!NextEst, Cache!SettlesFirst, Cache!PassesThrough, Cache!Accepts,
                            Cache!Serves, Cache!Misses, Cache!Deciding
  <2>3. Cache!Settled => est = "E_FLUSHALL" /\ Cache!R.dirty = {} /\ c.st = "C_IDLE"
    BY DEF Cache!Settled
  <2>4. Cache!Settled \/ ~Cache!Settled
    OBVIOUS
  <2>5. est = "E_FLUSHALL" => est' = "E_FLUSHALL" \/ (est' = "E_REBASE" /\ Cache!Settled)
    BY <2>2, <2>4
  <2>6. est = "E_REBASE" => est' = "E_DECIDE"
    BY <2>2, <2>3
  <2>7. est = "E_FETCH" => est' = "E_FETCH" \/ (est' = "E_DECIDE" /\ ~dem.req)
    BY <2>2, <2>3, <1>5
  <2> QED
    BY <1>2, <1>7, <2>1, <2>3, <2>5, <2>6, <2>7
<1>8. CASE est = "E_PT"
  <2>1. CASE Cache!PtDone(in)
    <3>1. est' = "E_IDLE"
      BY <1>1, <1>8, <2>1 DEF Cache!NextEst, Cache!SettlesFirst, Cache!PassesThrough, Cache!Accepts,
                              Cache!Serves, Cache!Misses, Cache!Deciding, Cache!Settled
    <3>2. r' = r \/ r' = [Cache!NoRequest EXCEPT !.slot = r.slot]
      BY <1>1, <1>8, <2>1 DEF Cache!NextRequest
    <3>3. /\ r'.slot = r.slot
          /\ r' \in [slot : Slots, lba : Nat, wr : BOOLEAN, word : Nat]
      BY <3>2, EndedRequest
    <3> QED
      BY <1>1, <1>2, <1>3, <1>8, <2>1, <3>1, <3>3
  <2>2. CASE ~Cache!PtDone(in)
    <3>1. est' = "E_PT"
      BY <1>1, <1>8, <2>2 DEF Cache!NextEst, Cache!SettlesFirst, Cache!PassesThrough, Cache!Accepts,
                              Cache!Serves, Cache!Misses, Cache!Deciding, Cache!Settled
    <3>2. r' = r
      BY <1>1, <1>8, <2>2 DEF Cache!NextRequest
    <3>3. e_ack' = IF c.st # "C_IDLE" /\ c.pt /\ hps.on THEN {r.slot} ELSE e_ack
      <4>1. c.st \in {"C_IDLE", "C_REQ", "C_XFER"}
        BY DEF KindInv, TransactionKind
      <4> QED
        BY <1>1, <1>3, <1>4, <1>6, <1>8, <2>2, <4>1
    <3> QED
      BY <1>2, <1>3, <1>8, <2>2, <3>1, <3>2, <3>3
  <2> QED
    BY <2>1, <2>2
<1> QED
  BY <1>7, <1>8

\* A word takes three clocks, the last one leads to the end.
LEMMA FromAnswering ==
    ASSUME KindInv, PortInv, EngineInv, est \in Answerings,
           NEW mount, NEW blocks, NEW nreset, NEW rst, Steps(mount, blocks, nreset, rst)
    PROVE  /\ dem' = Cache!DemandLeft
           /\ est # "E_DONE" => e_ack' = e_ack
           /\ est = "E_DONE" => /\ est' = "E_IDLE" /\ e_ack' = {} /\ r'.slot = r.slot
                                /\ r' \in [slot : Slots, lba : Nat, wr : BOOLEAN, word : Nat]
           /\ est \in {"E_RD_A", "E_RD_B", "E_WR_A", "E_WR_B"} => r' = r
           /\ est \in {"E_RD_C", "E_WR_C"} =>
                 /\ r'.slot = r.slot /\ r'.lba = r.lba /\ r'.wr = r.wr
                 /\ r' \in [slot : Slots, lba : Nat, wr : BOOLEAN, word : Nat]
                 /\ r'.word = IF r.word = WORDS - 1 THEN r.word ELSE r.word + 1
           /\ est = "E_RD_A" => est' = "E_RD_B"
           /\ est = "E_RD_B" => est' = "E_RD_C"
           /\ est = "E_RD_C" => est' = IF r.word = WORDS - 1 THEN "E_DONE" ELSE "E_RD_A"
           /\ est = "E_WR_A" => est' = "E_WR_B"
           /\ est = "E_WR_B" => est' = "E_WR_C"
           /\ est = "E_WR_C" => est' = IF r.word = WORDS - 1 THEN "E_DONE" ELSE "E_WR_A"
<1> DEFINE in == Inputs(mount, blocks, nreset)
<1>1. /\ est' = Cache!NextEst(in) /\ r' = Cache!NextRequest(in) /\ dem' = Cache!NextDemand(in)
      /\ e_ack' = IF est = "E_DONE" THEN {} ELSE e_ack
      /\ ~Cache!PtDone(in)
  BY EngineClock DEF Cache!Accepts, Cache!Serves, Cache!Deciding, Cache!PtDone, Answerings, Readings, Writings
<1>2. dem' = Cache!DemandLeft
  BY <1>1 DEF Cache!NextDemand, Cache!PassesThrough, Cache!Misses, Cache!Deciding, Answerings, Readings, Writings
<1>3. /\ est = "E_RD_A" => est' = "E_RD_B"
      /\ est = "E_RD_B" => est' = "E_RD_C"
      /\ est = "E_RD_C" => est' = IF r.word = WORDS - 1 THEN "E_DONE" ELSE "E_RD_A"
      /\ est = "E_WR_A" => est' = "E_WR_B"
      /\ est = "E_WR_B" => est' = "E_WR_C"
      /\ est = "E_WR_C" => est' = IF r.word = WORDS - 1 THEN "E_DONE" ELSE "E_WR_A"
      /\ est = "E_DONE" => est' = "E_IDLE"
  BY <1>1 DEF Cache!NextEst, Cache!SettlesFirst, Cache!PassesThrough, Cache!Accepts,
              Cache!Serves, Cache!Misses, Cache!Deciding, Cache!Settled, Cache!Written
<1>4. est \in {"E_RD_A", "E_RD_B", "E_WR_A", "E_WR_B"} => r' = r
  BY <1>1 DEF Cache!NextRequest
<1>5. est \in {"E_RD_C", "E_WR_C"} =>
         r' = [r EXCEPT !.word = IF r.word = WORDS - 1 THEN r.word ELSE r.word + 1]
  BY <1>1 DEF Cache!NextRequest
<1>6. est = "E_DONE" => r' = r \/ r' = [Cache!NoRequest EXCEPT !.slot = r.slot]
  BY <1>1 DEF Cache!NextRequest
<1>7. r \in [slot : Slots, lba : Nat, wr : BOOLEAN, word : Nat]
  BY DEF KindInv, TransactionKind
<1>8. est \in {"E_RD_C", "E_WR_C"} =>
         /\ r'.slot = r.slot /\ r'.lba = r.lba /\ r'.wr = r.wr
         /\ r' \in [slot : Slots, lba : Nat, wr : BOOLEAN, word : Nat]
         /\ r'.word = IF r.word = WORDS - 1 THEN r.word ELSE r.word + 1
  BY <1>5, <1>7
<1>9. est = "E_DONE" => r'.slot = r.slot /\ r' \in [slot : Slots, lba : Nat, wr : BOOLEAN, word : Nat]
  BY <1>6, EndedRequest
<1> QED
  BY <1>1, <1>2, <1>3, <1>4, <1>8, <1>9

-----------------------------------------------------------------------------
(* The targets.                                                            *)

\* A target goes on, or begins with another sector.
Stays(t) ==
    /\ io'[t] = IF t \in e_ack THEN "none" ELSE io[t]
    /\ busy'[t] <=> busy[t] /\ ~Port!Ends(t, e_ack)
    /\ lba'[t] = lba[t] /\ writing'[t] = writing[t]
    /\ sd_buff'[t] = IF e_buff.wr THEN [sd_buff[t] EXCEPT ![e_buff.addr] = e_buff.dout] ELSE sd_buff[t]
Begins(s) ==
    /\ Free /\ s \in guest.slots /\ s \notin e_ack /\ \A t \in guest.slots : win[t].mounted
    /\ guest.hasty \/ pf.left = 0
    /\ io'[s] \in {"rd", "wr"} /\ busy'[s] /\ lba'[s] \in guest.lbas
    /\ writing'[s] <=> io'[s] = "wr"
    /\ writing'[s] => /\ s \in guest.writers
                      /\ sd_buff'[s] = Sector(IF Watched(s, lba'[s]) THEN Newer(Latest) ELSE Other(s))
    /\ DOMAIN sd_buff'[s] = Words

\* Who may ask finds the engine at rest.
LEMMA FreeAtRest ==
    ASSUME KindInv, EngineInv, Free
    PROVE  est = "E_IDLE" /\ e_ack = {}
<1>1. SUFFICES ASSUME est # "E_IDLE" PROVE FALSE
  BY DEF EngineInv
<1>2. busy[r.slot] /\ old_io_ack \subseteq e_ack /\ r.slot \in Slots
  BY <1>1 DEF EngineInv, KindInv, TransactionKind
<1> QED
  BY <1>2 DEF Free, Port!Ends

LEMMA PortGoes ==
    ASSUME KindInv, PortInv,
           NEW mount, NEW blocks, NEW nreset, NEW rst, Steps(mount, blocks, nreset, rst)
    PROVE  /\ old_io_ack' = e_ack
           /\ \/ \A t \in Slots : Stays(t)
              \/ \E s \in guest.slots : Begins(s) /\ \A t \in Slots \ {s} : Stays(t)
           /\ io' \in [Slots -> {"none", "rd", "wr"}] /\ busy' \in [Slots -> BOOLEAN]
           /\ lba' \in [Slots -> Nat] /\ writing' \in [Slots -> BOOLEAN]
<1>1. PICK asks \in Wishes : Port!Clock(Slots, e_ack, e_buff, rst, asks)
  BY DEF Steps, ClockWith
<1> DEFINE starts(s) == /\ ~rst /\ s \notin e_ack /\ io[s] = "none" /\ asks[s].io # "none"
                        /\ ~busy[s] \/ (asks[s].io = "wr" /\ Port!Ends(s, e_ack))
<1>2. /\ io' = [s \in Slots |->
                  IF rst \/ s \in e_ack THEN "none" ELSE IF starts(s) THEN asks[s].io ELSE io[s]]
      /\ busy' = [s \in Slots |-> ~rst /\ (starts(s) \/ (busy[s] /\ ~Port!Ends(s, e_ack)))]
      /\ lba' = [s \in Slots |-> IF starts(s) THEN asks[s].lba ELSE lba[s]]
      /\ writing' = [s \in Slots |-> IF starts(s) THEN asks[s].io = "wr" ELSE writing[s]]
      /\ old_io_ack' = e_ack
      /\ sd_buff' = [s \in Slots |->
                       IF starts(s) THEN asks[s].data
                       ELSE IF e_buff.wr THEN [sd_buff[s] EXCEPT ![e_buff.addr] = e_buff.dout]
                       ELSE sd_buff[s]]
  BY <1>1 DEF Port!Clock, Port!Released
<1>3. rst => \A s \in Slots : io[s] = "none" /\ ~busy[s]
  BY DEF Steps, Idle
<1>4. \A s \in Slots : asks[s].io = "none" \/
         (/\ Free /\ s \in guest.slots /\ (\A t \in guest.slots : win[t].mounted)
          /\ guest.hasty \/ pf.left = 0
          /\ asks[s].io \in {"rd", "wr"} /\ asks[s].lba \in guest.lbas
          /\ asks[s].io = "wr" =>
                /\ s \in guest.writers
                /\ asks[s].data = Sector(IF Watched(s, asks[s].lba) THEN Newer(Latest) ELSE Other(s))
          /\ DOMAIN asks[s].data = Words
          /\ \A t \in Slots \ {s} : asks[t].io = "none")
  <2>1. CASE asks = [s \in Slots |-> Nothing]
    BY <2>1 DEF Nothing
  <2>2. CASE asks # [s \in Slots |-> Nothing]
    <3>1. PICK s \in guest.slots : \E a \in Asks(s) :
             asks = [[t \in Slots |-> Nothing] EXCEPT ![s] = a]
      BY <2>2 DEF Wishes
    <3>2. PICK a \in Asks(s) : asks = [[t \in Slots |-> Nothing] EXCEPT ![s] = a]
      BY <3>1
    <3>3. Free /\ (\A t \in guest.slots : win[t].mounted) /\ (guest.hasty \/ pf.left = 0)
      BY <2>2 DEF Wishes
    <3>4. s \in Slots
      BY GuestIs
    <3>5. asks[s] = a /\ \A t \in Slots \ {s} : asks[t].io = "none"
      BY <3>2, <3>4 DEF Nothing
    <3>6. /\ a.io \in {"rd", "wr"} /\ a.lba \in guest.lbas
          /\ a.io = "wr" =>
                /\ s \in guest.writers
                /\ a.data = Sector(IF Watched(s, a.lba) THEN Newer(Latest) ELSE Other(s))
          /\ DOMAIN a.data = Words
      BY <3>2 DEF Asks, Sector
    <3> QED
      BY <3>1, <3>3, <3>5, <3>6
  <2> QED
    BY <2>1, <2>2
<1>5. \A s \in Slots : starts(s) => Begins(s) /\ \A t \in Slots \ {s} : ~starts(t)
  <2>1. SUFFICES ASSUME NEW s \in Slots, starts(s)
                 PROVE  Begins(s) /\ \A t \in Slots \ {s} : ~starts(t)
    OBVIOUS
  <2>2. asks[s].io \in {"rd", "wr"} /\ ~rst /\ s \notin e_ack
    BY <2>1, <1>4
  <2>3. /\ io'[s] = asks[s].io /\ busy'[s] /\ lba'[s] = asks[s].lba /\ writing'[s] = (asks[s].io = "wr")
        /\ sd_buff'[s] = asks[s].data
    BY <2>1, <2>2, <1>2
  <2>4. Begins(s)
    BY <2>1, <2>2, <2>3, <1>4 DEF Begins
  <2> QED
    BY <2>1, <2>2, <2>4, <1>4
<1>6. \A t \in Slots : ~starts(t) => Stays(t)
  <2>1. SUFFICES ASSUME NEW t \in Slots, ~starts(t) PROVE Stays(t)
    OBVIOUS
  <2>2. io'[t] = IF rst \/ t \in e_ack THEN "none" ELSE io[t]
    BY <2>1, <1>2
  <2>3. busy'[t] <=> ~rst /\ busy[t] /\ ~Port!Ends(t, e_ack)
    BY <2>1, <1>2
  <2>4. /\ lba'[t] = lba[t] /\ writing'[t] = writing[t]
        /\ sd_buff'[t] = IF e_buff.wr THEN [sd_buff[t] EXCEPT ![e_buff.addr] = e_buff.dout] ELSE sd_buff[t]
    BY <2>1, <1>2
  <2> QED
    BY <2>2, <2>3, <2>4, <1>3 DEF Stays
<1>7. /\ io' \in [Slots -> {"none", "rd", "wr"}] /\ busy' \in [Slots -> BOOLEAN]
      /\ lba' \in [Slots -> Nat] /\ writing' \in [Slots -> BOOLEAN]
  <2>1. \A s \in Slots : starts(s) => asks[s].io \in {"rd", "wr"} /\ asks[s].lba \in Nat
    BY <1>4, GuestIs
  <2>2. /\ io \in [Slots -> {"none", "rd", "wr"}] /\ busy \in [Slots -> BOOLEAN]
        /\ lba \in [Slots -> Nat] /\ writing \in [Slots -> BOOLEAN]
    BY DEF KindInv, TransactionKind
  <2> HIDE DEF starts
  <2>3. io' \in [Slots -> {"none", "rd", "wr"}]
    BY <1>2, <2>1, <2>2
  <2>4. busy' \in [Slots -> BOOLEAN]
    BY <1>2, <2>2
  <2>5. lba' \in [Slots -> Nat]
    BY <1>2, <2>1, <2>2
  <2>6. writing' \in [Slots -> BOOLEAN]
    BY <1>2, <2>2
  <2> QED
    BY <2>3, <2>4, <2>5, <2>6
<1>8. guest.slots \subseteq Slots
  BY GuestIs
<1>9. \/ \A t \in Slots : ~starts(t)
      \/ \E s \in Slots : starts(s)
  OBVIOUS
<1> HIDE DEF starts
<1>10. ASSUME NEW s \in Slots, starts(s)
       PROVE  \E u \in guest.slots : Begins(u) /\ \A t \in Slots \ {u} : Stays(t)
  <2>1. s \in guest.slots /\ Begins(s) /\ \A t \in Slots \ {s} : Stays(t)
    BY <1>10, <1>5, <1>6 DEF Begins
  <2> QED
    BY <2>1
<1> QED
  BY <1>2, <1>6, <1>7, <1>9, <1>10

-----------------------------------------------------------------------------
(* The channel and hps_io.                                                 *)

LEMMA ChannelGoes ==
    ASSUME KindInv, HpsInv,
           NEW mount, NEW blocks, NEW nreset, NEW rst, Steps(mount, blocks, nreset, rst),
           NEW in, in = Inputs(mount, blocks, nreset)
    PROVE  /\ c.st = "C_REQ" => c' = IF hps.on THEN [c EXCEPT !.st = "C_XFER"] ELSE c
           /\ c.st = "C_XFER" => c' = IF hps.on THEN c ELSE Cache!NoTransaction
           /\ c.st = "C_IDLE" =>
                 \/ c' = c /\ ~dem.req
                 \/ dem.req /\ c' = Cache!Demanded
                 \/ /\ ~dem.req /\ Cache!FlGrp(in)
                    /\ c' = Cache!Transaction(fl.slot, TRUE, Cache!GroupBase(fl.idx), TRUE)
                 \/ /\ ~dem.req /\ Cache!FlOne(in)
                    /\ c' = Cache!Transaction(fl.slot, TRUE, fl.idx, FALSE)
                 \/ /\ ~dem.req /\ Cache!StartsPrefetch(in)
                    /\ c' = Cache!Transaction(pf.slot, FALSE, pf.grp * GROUP, TRUE)
           /\ p_ack_d' = IF hps.on THEN {c.slot} ELSE {}
<1>1. Cache!Channel(in) /\ p_ack_d' = in.ack
  BY DEF Steps, ClockWith, Cache!Clock
<1>2. /\ c.st # "C_IDLE" => (c.slot \in in.ack <=> hps.on)
      /\ Cache!ChannelFinish(in) <=> c.st = "C_XFER" /\ ~hps.on
  BY AckIs
<1>3. in.ack = IF hps.on THEN {c.slot} ELSE {}
  BY InputsAre DEF HpsInv
<1>4. c.st \in {"C_IDLE", "C_REQ", "C_XFER"}
  BY DEF KindInv, TransactionKind
<1>5. CASE c.st = "C_REQ"
  BY <1>1, <1>2, <1>3, <1>5 DEF Cache!Channel, Cache!TakesDemand, Cache!StartsPrefetch, Cache!Prefetches
<1>6. CASE c.st = "C_XFER"
  BY <1>1, <1>2, <1>3, <1>6 DEF Cache!Channel, Cache!TakesDemand, Cache!StartsPrefetch, Cache!Prefetches
<1>7. CASE c.st = "C_IDLE"
  BY <1>1, <1>2, <1>3, <1>7 DEF Cache!Channel, Cache!TakesDemand, Cache!StartsPrefetch, Cache!Prefetches
<1> QED
  BY <1>4, <1>5, <1>6, <1>7

\* A transaction's fields.
LEMMA TransactionIs ==
    ASSUME KindInv, NEW s \in Slots, NEW wr \in BOOLEAN, NEW i \in Cache!Sectors, NEW grp \in BOOLEAN,
           NEW t, t = Cache!Transaction(s, wr, i, grp)
    PROVE  /\ t.st = "C_REQ" /\ (t.wr <=> wr) /\ ~t.pt /\ t.slot = s /\ t.idx = i /\ (t.grp <=> grp)
           /\ t.base = win[s].base /\ t.lba = win[s].base + i
           /\ t \in TransactionKind
<1>1. win[s].base \in Nat /\ i \in Nat
  BY Geometry DEF KindInv, TransactionKind, Windows
<1>2. win[s].base + i \in Nat
  BY <1>1
<1> QED
  BY <1>1, <1>2 DEF Cache!Transaction, TransactionKind

LEMMA DemandedIs ==
    ASSUME KindInv, NEW t, t = Cache!Demanded
    PROVE  /\ t.st = "C_REQ" /\ (t.wr <=> dem.wr) /\ t.slot = r.slot /\ (t.grp <=> dem.grp)
           /\ t.idx = IF dem.grp THEN Cache!GroupBase(dem.idx) ELSE dem.idx
           /\ ~dem.pt => ~t.pt /\ t.base = win[r.slot].base /\ t.lba = win[r.slot].base + t.idx
           /\ dem.pt => t.pt /\ t.lba = r.lba
           /\ t \in TransactionKind
<1> DEFINE i == IF dem.grp THEN Cache!GroupBase(dem.idx) ELSE dem.idx
           u == Cache!Transaction(r.slot, dem.wr, i, dem.grp)
<1>1. /\ dem.wr \in BOOLEAN /\ dem.pt \in BOOLEAN /\ dem.grp \in BOOLEAN /\ dem.idx \in Cache!Sectors
      /\ r.slot \in Slots /\ r.lba \in Nat
  BY DEF KindInv, TransactionKind
<1>2. i \in Cache!Sectors
  BY <1>1, SectorIs
<1> HIDE DEF i
<1>3. /\ u.st = "C_REQ" /\ (u.wr <=> dem.wr) /\ ~u.pt /\ u.slot = r.slot /\ u.idx = i
      /\ (u.grp <=> dem.grp) /\ u.base = win[r.slot].base /\ u.lba = win[r.slot].base + i
      /\ u \in TransactionKind
  BY <1>1, <1>2, TransactionIs DEF u
<1>4. t = IF dem.pt THEN [u EXCEPT !.pt = TRUE, !.lba = r.lba] ELSE u
  BY DEF Cache!Demanded, i
<1> HIDE DEF u
<1>5. CASE dem.pt
  BY <1>1, <1>3, <1>4, <1>5 DEF i, TransactionKind
<1>6. CASE ~dem.pt
  BY <1>3, <1>4, <1>6 DEF i
<1> QED
  BY <1>5, <1>6

\* The fields of one that the channel begins by itself.
LEMMA Opened ==
    ASSUME KindInv, NEW s \in Slots, NEW i \in Cache!Sectors
    PROVE  /\ c' = Cache!Transaction(s, TRUE, i, TRUE) =>
                 /\ c'.st = "C_REQ" /\ c'.wr /\ ~c'.pt /\ c'.slot = s /\ c'.idx = i /\ c'.grp
                 /\ c'.base = win[s].base /\ c'.lba = win[s].base + i /\ c' \in TransactionKind
           /\ c' = Cache!Transaction(s, TRUE, i, FALSE) =>
                 /\ c'.st = "C_REQ" /\ c'.wr /\ ~c'.pt /\ c'.slot = s /\ c'.idx = i /\ ~c'.grp
                 /\ c'.base = win[s].base /\ c'.lba = win[s].base + i /\ c' \in TransactionKind
           /\ c' = Cache!Transaction(s, FALSE, i, TRUE) =>
                 /\ c'.st = "C_REQ" /\ ~c'.wr /\ ~c'.pt /\ c'.slot = s /\ c'.idx = i /\ c'.grp
                 /\ c'.base = win[s].base /\ c'.lba = win[s].base + i /\ c' \in TransactionKind
<1>1. win[s].base \in Nat /\ i \in Nat
  BY Geometry DEF KindInv, TransactionKind, Windows
<1>2. win[s].base + i \in Nat
  BY <1>1
<1>3. CASE c' = Cache!Transaction(s, TRUE, i, TRUE)
  BY <1>1, <1>2, <1>3 DEF Cache!Transaction, TransactionKind
<1>4. CASE c' = Cache!Transaction(s, TRUE, i, FALSE)
  BY <1>1, <1>2, <1>4 DEF Cache!Transaction, TransactionKind
<1>5. CASE c' = Cache!Transaction(s, FALSE, i, TRUE)
  BY <1>1, <1>2, <1>5 DEF Cache!Transaction, TransactionKind
<1> QED
  BY <1>3, <1>4, <1>5

\* What begins, when a transaction begins: a demand, a flush or a prefetch.
IsDemand == dem.req /\ c'.slot = r.slot /\ (c'.wr <=> dem.wr) /\ (c'.pt <=> dem.pt) /\ (c'.grp <=> dem.grp)
               /\ c'.idx = (IF dem.grp THEN Cache!GroupBase(dem.idx) ELSE dem.idx)
               /\ (dem.pt => c'.lba = r.lba)
IsFlush(in) ==
    /\ ~dem.req /\ c'.slot = fl.slot /\ c'.wr /\ ~c'.pt
    /\ \/ c'.grp /\ c'.idx = Cache!GroupBase(fl.idx) /\ Cache!FlGrp(in)
       \/ ~c'.grp /\ c'.idx = fl.idx /\ Cache!FlOne(in)
IsPrefetch(in) ==
    /\ ~dem.req /\ Cache!StartsPrefetch(in)
    /\ c'.slot = pf.slot /\ ~c'.wr /\ ~c'.pt /\ c'.grp /\ c'.idx = pf.grp * GROUP

LEMMA Begun ==
    ASSUME KindInv, HpsInv, c.st = "C_IDLE",
           NEW mount, NEW blocks, NEW nreset, NEW rst, Steps(mount, blocks, nreset, rst),
           NEW in, in = Inputs(mount, blocks, nreset)
    PROVE  /\ \/ c' = c /\ ~dem.req
              \/ /\ c'.st = "C_REQ"
                 /\ IsDemand \/ IsFlush(in) \/ IsPrefetch(in)
                 /\ ~c'.pt => c'.base = win[c'.slot].base /\ c'.lba = c'.base + c'.idx
                 /\ c'.grp => c'.idx % GROUP = 0
           /\ c' \in TransactionKind
<1>1. \/ c' = c /\ ~dem.req
      \/ dem.req /\ c' = Cache!Demanded
      \/ /\ ~dem.req /\ Cache!FlGrp(in)
         /\ c' = Cache!Transaction(fl.slot, TRUE, Cache!GroupBase(fl.idx), TRUE)
      \/ /\ ~dem.req /\ Cache!FlOne(in)
         /\ c' = Cache!Transaction(fl.slot, TRUE, fl.idx, FALSE)
      \/ /\ ~dem.req /\ Cache!StartsPrefetch(in)
         /\ c' = Cache!Transaction(pf.slot, FALSE, pf.grp * GROUP, TRUE)
  BY ChannelGoes
<1>2. /\ fl.slot \in Slots /\ fl.idx \in Cache!Sectors /\ pf.slot \in Slots
      /\ pf.grp \in 0..(Cache!Groups - 1) /\ dem.idx \in Cache!Sectors
      /\ TRUE \in BOOLEAN /\ FALSE \in BOOLEAN
  BY DEF KindInv, TransactionKind
<1>3. /\ Cache!GroupBase(fl.idx) \in Cache!Sectors /\ Cache!GroupBase(fl.idx) % GROUP = 0
      /\ Cache!GroupBase(dem.idx) \in Cache!Sectors /\ Cache!GroupBase(dem.idx) % GROUP = 0
      /\ pf.grp * GROUP \in Cache!Sectors /\ (pf.grp * GROUP) % GROUP = 0
  BY <1>2, SectorIs, GroupIs
<1> DEFINE Fields(s, i) == /\ c'.st = "C_REQ" /\ ~c'.pt /\ c'.slot = s /\ c'.idx = i
                           /\ c'.base = win[s].base /\ c'.lba = win[s].base + i /\ c' \in TransactionKind
<1> HIDE DEF Fields
<1>4. CASE c' = c /\ ~dem.req
  BY <1>4 DEF KindInv, TransactionKind
<1>5. CASE dem.req /\ c' = Cache!Demanded
  BY <1>3, <1>5, DemandedIs DEF IsDemand
<1>6. CASE /\ ~dem.req /\ Cache!FlGrp(in)
           /\ c' = Cache!Transaction(fl.slot, TRUE, Cache!GroupBase(fl.idx), TRUE)
  <2>1. Fields(fl.slot, Cache!GroupBase(fl.idx)) /\ c'.wr /\ c'.grp
    BY <1>2, <1>3, <1>6, Opened DEF Fields
  <2> QED
    BY <1>3, <1>6, <2>1 DEF IsFlush, Fields
<1>7. CASE /\ ~dem.req /\ Cache!FlOne(in)
           /\ c' = Cache!Transaction(fl.slot, TRUE, fl.idx, FALSE)
  <2>1. Fields(fl.slot, fl.idx) /\ c'.wr /\ ~c'.grp
    BY <1>2, <1>7, Opened DEF Fields
  <2> QED
    BY <1>7, <2>1 DEF IsFlush, Fields
<1>8. CASE /\ ~dem.req /\ Cache!StartsPrefetch(in)
           /\ c' = Cache!Transaction(pf.slot, FALSE, pf.grp * GROUP, TRUE)
  <2>1. Fields(pf.slot, pf.grp * GROUP) /\ ~c'.wr /\ c'.grp
    BY <1>2, <1>3, <1>8, Opened DEF Fields
  <2> QED
    BY <1>3, <1>8, <2>1 DEF IsPrefetch, Fields
<1> QED
  BY <1>1, <1>4, <1>5, <1>6, <1>7, <1>8

\* A transaction under way goes on or ends.
LEMMA GoneOn ==
    ASSUME KindInv, HpsInv, c.st # "C_IDLE",
           NEW mount, NEW blocks, NEW nreset, NEW rst, Steps(mount, blocks, nreset, rst)
    PROVE  /\ \/ /\ c'.st = (IF hps.on THEN "C_XFER" ELSE "C_REQ")
                 /\ c'.wr = c.wr /\ c'.pt = c.pt /\ c'.slot = c.slot /\ c'.idx = c.idx
                 /\ c'.grp = c.grp /\ c'.base = c.base /\ c'.lba = c.lba
                 /\ ~hps.on => c.st = "C_REQ"
              \/ c.st = "C_XFER" /\ ~hps.on /\ c'.st = "C_IDLE"
           /\ c' \in TransactionKind
<1>1. /\ c.st = "C_REQ" => c' = IF hps.on THEN [c EXCEPT !.st = "C_XFER"] ELSE c
      /\ c.st = "C_XFER" => c' = IF hps.on THEN c ELSE Cache!NoTransaction
  BY ChannelGoes
<1>2. c \in TransactionKind
  BY DEF KindInv, TransactionKind
<1>3. CASE c.st = "C_REQ"
  BY <1>1, <1>2, <1>3 DEF TransactionKind
<1>4. CASE c.st = "C_XFER" /\ hps.on
  BY <1>1, <1>2, <1>4 DEF TransactionKind
<1>5. CASE c.st = "C_XFER" /\ ~hps.on
  <2>1. c' = Cache!NoTransaction
    BY <1>1, <1>5
  <2>2. /\ Cache!NoTransaction \in TransactionKind
        /\ Cache!NoTransaction.st = "C_IDLE"
    BY Geometry DEF Cache!NoTransaction, TransactionKind
  <2> QED
    BY <1>5, <2>1, <2>2
<1> QED
  BY <1>2, <1>3, <1>4, <1>5 DEF TransactionKind

-----------------------------------------------------------------------------
(* The windows.                                                            *)

\* The sector the engine has just written, and whether it moves its window or
\* drops it.
Own(s) == IF Cache!Written /\ r.slot = s THEN {Cache!RIdx} ELSE {}
Rebased(s) == est = "E_REBASE" /\ r.slot = s

LEMMA LimitIs ==
    ASSUME KindInv
    PROVE  Cache!NewLim \in Nat
<1>1. GROUP \in Nat \ {0} /\ Cache!Groups \in Nat \ {0}
  BY Geometry
<1>2. Cache!R.size \in Nat /\ r.lba \in Nat
  BY DEF KindInv, Windows, Cache!R
<1>3. CASE Cache!R.size < r.lba
  BY <1>1, <1>3 DEF Cache!NewLim
<1>4. CASE ~(Cache!R.size < r.lba)
  <2>1. Cache!R.size - r.lba \in Nat
    BY <1>2, <1>4
  <2>2. (Cache!R.size - r.lba) \div GROUP \in Nat
    BY <2>1, <1>1, Division
  <2> QED
    BY <1>1, <1>4, <2>2 DEF Cache!NewLim
<1> QED
  BY <1>3, <1>4

\* What lands is covered by the transaction.
LEMMA LandedIs ==
    ASSUME KindInv, HpsInv, NEW mount, NEW blocks, NEW nreset,
           NEW in, in = Inputs(mount, blocks, nreset), NEW s \in Slots
    PROVE  /\ Cache!Landed(in, s) \subseteq Cache!Sectors
           /\ Cache!Landed(in, s) # {} =>
                 /\ c.st = "C_XFER" /\ ~c.pt /\ ~c.wr /\ c.slot = s /\ hps.on /\ hps.strobe
                 /\ win[s].ok /\ c.base = win[s].base
                 /\ Cache!Landed(in, s) \subseteq Cache!Covered
                 /\ WordAt(hps.k - 1) = WORDS - 1 /\ Cache!Landed(in, s) = {c.idx + Block(hps.k - 1)}
                 /\ Block(hps.k - 1) \in 0..(Length(c) - 1)
<1>1. SUFFICES ASSUME Cache!Landed(in, s) # {}
      PROVE  /\ Cache!Landed(in, s) \subseteq Cache!Sectors
             /\ c.st = "C_XFER" /\ ~c.pt /\ ~c.wr /\ c.slot = s /\ hps.on /\ hps.strobe
             /\ win[s].ok /\ c.base = win[s].base
             /\ Cache!Landed(in, s) \subseteq Cache!Covered
             /\ WordAt(hps.k - 1) = WORDS - 1 /\ Cache!Landed(in, s) = {c.idx + Block(hps.k - 1)}
             /\ Block(hps.k - 1) \in 0..(Length(c) - 1)
  OBVIOUS
<1>2. /\ c.st = "C_XFER" /\ c.slot = s /\ Cache!WeB(in) /\ in.word = WORDS - 1
      /\ win[s].ok /\ c.base = win[s].base /\ Cache!Landed(in, s) = {c.idx + in.block}
  BY <1>1 DEF Cache!Landed
<1>3. ~c.pt /\ ~c.wr /\ hps.strobe
  BY <1>2, InputsAre DEF Cache!WeB
<1>4. hps.on /\ hps.k > 0 /\ hps.n = Length(c) /\ hps.k \in 0..(hps.n * WORDS)
  BY <1>3 DEF HpsInv, NoSession
<1>5. in.block = Block(hps.k - 1) /\ in.word = WordAt(hps.k - 1)
  BY <1>4 DEF Inputs
<1>6. /\ Length(c) \in Nat \ {0} /\ GROUP \in Nat \ {0} /\ WORDS \in Nat \ {0, 1} /\ hps.k - 1 \in Nat
  BY <1>4, Geometry DEF Length, KindInv
<1>7. Block(hps.k - 1) \in 0..(Length(c) - 1)
  <2> DEFINE q == (hps.k - 1) \div WORDS
  <2>1. q \in Nat /\ ((hps.k - 1) % WORDS) \in 0..(WORDS - 1) /\ hps.k - 1 = WORDS * q + ((hps.k - 1) % WORDS)
    BY <1>6, Division
  <2>2. hps.k - 1 < WORDS * Length(c)
    BY <1>4, <1>6
  <2>3. ~(q >= Length(c))
    <3>1. SUFFICES ASSUME q >= Length(c) PROVE FALSE
      OBVIOUS
    <3>2. WORDS * q >= WORDS * Length(c)
      BY <1>6, <2>1, <3>1
    <3>3. WORDS * q \in Nat /\ WORDS * Length(c) \in Nat
      BY <1>6, <2>1
    <3> QED
      BY <1>6, <2>1, <2>2, <3>2, <3>3
  <2> QED
    BY <1>6, <2>1, <2>3 DEF Block
<1>8. c.idx \in Cache!Sectors /\ c.grp \in BOOLEAN
  BY DEF KindInv, TransactionKind
<1>9. CASE c.grp
  <2>1. c.idx % GROUP = 0 /\ Length(c) = GROUP
    BY <1>2, <1>9 DEF HpsInv, Length
  <2>2. c.idx + Block(hps.k - 1) \in Cache!InGroup(c.idx)
    BY <1>7, <1>8, <2>1, InsideGroup
  <2> QED
    BY <1>2, <1>3, <1>4, <1>5, <1>7, <1>9, <2>2 DEF Cache!Covered, Cache!InGroup
<1>10. CASE ~c.grp
  <2>1. Block(hps.k - 1) = 0 /\ c.idx \in Nat
    BY <1>7, <1>8, <1>10, Geometry DEF Length
  <2> QED
    BY <1>2, <1>3, <1>4, <1>5, <1>7, <1>8, <1>10, <2>1 DEF Cache!Covered
<1> QED
  BY <1>9, <1>10

\* A window whose image nobody touches.
LEMMA WindowGoes ==
    ASSUME KindInv, HpsInv, NEW s \in Slots,
           NEW mount, NEW blocks, NEW nreset, NEW rst, Steps(mount, blocks, nreset, rst), s \notin mount,
           NEW in, in = Inputs(mount, blocks, nreset)
    PROVE  /\ win'[s] \in Windows
           /\ win'[s].size = win[s].size /\ win'[s].mounted = win[s].mounted
           /\ Rebased(s) =>
                 /\ win'[s].base = r.lba /\ win'[s].ok /\ win'[s].lim = Cache!NewLim
                 /\ win'[s].valid = {} /\ win'[s].dirty = {}
           /\ ~Rebased(s) =>
                 /\ win'[s].base = win[s].base /\ win'[s].lim = win[s].lim
                 /\ win'[s].ok <=> win[s].ok /\ ~Cache!DropsWindow(in, s)
                 /\ win'[s].valid = IF Cache!DropsWindow(in, s) THEN {}
                                    ELSE win[s].valid \cup Cache!Landed(in, s) \cup Own(s)
                 /\ win'[s].dirty = (win[s].dirty \ Cache!Flushed(in, s)) \cup Own(s)
<1>1. win' = [t \in Slots |-> Cache!Window(in, t)]
  BY DEF Steps, ClockWith, Cache!Clock, Slots, Cache!Slots
<1>2. win'[s] = Cache!Window(in, s) /\ Cache!Mounted(in, s) = win[s]
  BY <1>1, InputsAre DEF Cache!Mounted, Cache!OtherImage
<1>3. win[s] \in Windows
  BY DEF KindInv
<1>4. CASE Rebased(s)
  <2>1. win'[s] = [win[s] EXCEPT !.base = r.lba, !.lim = Cache!NewLim, !.ok = TRUE,
                                 !.valid = {}, !.dirty = {}]
    BY <1>2, <1>4 DEF Cache!Window, Rebased
  <2>2. r.lba \in Nat /\ Cache!NewLim \in Nat
    BY LimitIs DEF KindInv
  <2> QED
    BY <1>3, <1>4, <2>1, <2>2 DEF Windows
<1>5. CASE ~Rebased(s)
  <2> DEFINE ok == win[s].ok /\ ~Cache!DropsWindow(in, s)
             valid == IF Cache!DropsWindow(in, s) THEN {}
                      ELSE win[s].valid \cup Cache!Landed(in, s) \cup Own(s)
             dirty == (win[s].dirty \ Cache!Flushed(in, s)) \cup Own(s)
  <2>1. win'[s] = [win[s] EXCEPT !.ok = ok, !.valid = valid, !.dirty = dirty]
    BY <1>2, <1>5 DEF Cache!Window, Rebased, Own
  <2>2. Own(s) \subseteq Cache!Sectors
    BY IdxIs DEF Own
  <2>3. valid \in SUBSET Cache!Sectors /\ dirty \in SUBSET Cache!Sectors /\ ok \in BOOLEAN
    BY <1>3, <2>2, LandedIs DEF Windows
  <2> HIDE DEF ok, valid, dirty
  <2>4. /\ win'[s] \in Windows
        /\ win'[s].size = win[s].size /\ win'[s].mounted = win[s].mounted
        /\ win'[s].base = win[s].base /\ win'[s].lim = win[s].lim
        /\ (win'[s].ok <=> ok) /\ win'[s].valid = valid /\ win'[s].dirty = dirty
    BY <1>3, <2>1, <2>3 DEF Windows
  <2> QED
    BY <1>5, <2>4 DEF ok, valid, dirty
<1> QED
  BY <1>4, <1>5

\* One whose image is announced.
LEMMA WindowMounted ==
    ASSUME KindInv, PortInv, EngineInv, HpsInv, NEW s \in Slots,
           NEW mount, NEW blocks \in Nat, NEW nreset, NEW rst, Steps(mount, blocks, nreset, rst), s \in mount
    PROVE  /\ win'[s] \in Windows /\ win'[s].base = win[s].base /\ win'[s].lim = win[s].lim
           /\ \/ blocks # win[s].size /\ ~win'[s].ok /\ win'[s].valid = {} /\ win'[s].dirty = {}
                 /\ win'[s].size = blocks /\ (win'[s].mounted <=> blocks # 0)
              \/ blocks = win[s].size /\ (win'[s].ok <=> win[s].ok) /\ win'[s].valid = win[s].dirty
                 /\ win'[s].dirty \subseteq win[s].dirty
                 /\ win'[s].size = win[s].size /\ (win'[s].mounted <=> win[s].mounted)
<1> DEFINE in == Inputs(mount, blocks, nreset)
<1>1. win' = [t \in Slots |-> Cache!Window(in, t)]
  BY DEF Steps, ClockWith, Cache!Clock, Slots, Cache!Slots
<1>2. win'[s] = Cache!Window(in, s) /\ in.mount = mount /\ in.blocks = blocks
  BY <1>1, InputsAre
<1>3. win[s] \in Windows
  BY DEF KindInv
<1>4. ~busy[s] /\ ~hps.on
  BY DEF Steps
<1>5. est # "E_IDLE" => r.slot # s
  BY <1>4 DEF EngineInv
<1>6. ~Rebased(s) /\ Own(s) = {} /\ ~Cache!DropsWindow(in, s)
  BY <1>5 DEF Rebased, Own, Cache!Written, Cache!DropsWindow, Cache!PassesThrough, Cache!Deciding
<1>7. Cache!Landed(in, s) = {}
  BY <1>4, LandedIs
<1> HIDE DEF in
<1> DEFINE w == Cache!Mounted(in, s)
<1>8. win'[s] = [w EXCEPT !.ok = w.ok /\ ~Cache!DropsWindow(in, s),
                          !.valid = IF Cache!DropsWindow(in, s) THEN {}
                                    ELSE w.valid \cup Cache!Landed(in, s) \cup Own(s),
                          !.dirty = (w.dirty \ Cache!Flushed(in, s)) \cup Own(s)]
  BY <1>2, <1>6 DEF Cache!Window, Rebased, Own
<1> HIDE DEF w
<1>11. ASSUME w \in Windows
       PROVE  /\ win'[s] \in Windows /\ win'[s].base = w.base /\ win'[s].lim = w.lim
              /\ (win'[s].ok <=> w.ok) /\ win'[s].valid = w.valid /\ win'[s].dirty \subseteq w.dirty
              /\ win'[s].size = w.size /\ win'[s].mounted = w.mounted
  <2> DEFINE ok == w.ok /\ ~Cache!DropsWindow(in, s)
             dirty == w.dirty \ Cache!Flushed(in, s)
  <2>1. win'[s] = [w EXCEPT !.ok = ok, !.valid = w.valid, !.dirty = dirty]
    BY <1>6, <1>7, <1>8, <1>11 DEF Windows
  <2>2. ok \in BOOLEAN /\ (ok <=> w.ok) /\ dirty \subseteq w.dirty
    BY <1>6, <1>11 DEF Windows
  <2> HIDE DEF ok, dirty
  <2> QED
    BY <1>11, <2>1, <2>2 DEF Windows
<1>9. CASE blocks # win[s].size
  <2>1. w = [win[s] EXCEPT !.valid = {}, !.dirty = {}, !.ok = FALSE,
                           !.size = blocks, !.mounted = (blocks # 0)]
    BY <1>2, <1>9 DEF w, Cache!Mounted, Cache!OtherImage
  <2>2. (blocks # 0) \in BOOLEAN
    OBVIOUS
  <2>3. /\ w \in Windows /\ ~w.ok /\ w.valid = {} /\ w.dirty = {} /\ w.size = blocks
        /\ (w.mounted <=> blocks # 0) /\ w.base = win[s].base /\ w.lim = win[s].lim
    BY <1>3, <2>1 DEF Windows
  <2> QED
    BY <1>9, <1>11, <2>3
<1>10. CASE blocks = win[s].size
  <2>1. w = [win[s] EXCEPT !.valid = win[s].dirty]
    BY <1>2, <1>10 DEF w, Cache!Mounted, Cache!OtherImage
  <2>2. /\ w \in Windows /\ (w.ok <=> win[s].ok) /\ w.valid = win[s].dirty /\ w.dirty = win[s].dirty
        /\ w.size = win[s].size
        /\ (w.mounted <=> win[s].mounted) /\ w.base = win[s].base /\ w.lim = win[s].lim
    BY <1>3, <2>1 DEF Windows
  <2> QED
    BY <1>10, <1>11, <2>2
<1> QED
  BY <1>9, <1>10

\* What becomes of the dirty sectors.
LEMMA DirtyGoes ==
    ASSUME KindInv, PortInv, EngineInv, HpsInv, NEW s \in Slots,
           NEW mount, NEW blocks \in Nat, NEW nreset, NEW rst, Steps(mount, blocks, nreset, rst)
    PROVE  /\ win'[s].dirty \subseteq win[s].dirty \cup Own(s)
           /\ s \notin mount /\ ~Rebased(s) => Own(s) \subseteq win'[s].dirty
<1> DEFINE in == Inputs(mount, blocks, nreset)
<1>0. in = Inputs(mount, blocks, nreset)
  OBVIOUS
<1> HIDE DEF in
<1>1. CASE s \in mount
  <2>1. win'[s].dirty \subseteq win[s].dirty
    BY <1>1, WindowMounted
  <2> QED
    BY <1>1, <2>1
<1>2. CASE s \notin mount
  <2>1. /\ Rebased(s) => win'[s].dirty = {}
        /\ ~Rebased(s) => win'[s].dirty = (win[s].dirty \ Cache!Flushed(in, s)) \cup Own(s)
    BY <1>0, <1>2, WindowGoes
  <2> QED
    BY <1>2, <2>1
<1> QED
  BY <1>1, <1>2

LEMMA ValidGoes ==
    ASSUME KindInv, PortInv, EngineInv, HpsInv, NEW s \in Slots,
           NEW mount, NEW blocks \in Nat, NEW nreset, NEW rst, Steps(mount, blocks, nreset, rst),
           NEW in, in = Inputs(mount, blocks, nreset), s \notin mount, ~Rebased(s)
    PROVE  /\ win'[s].valid \subseteq win[s].valid \cup Cache!Landed(in, s) \cup Own(s)
           /\ ~Cache!DropsWindow(in, s) => win[s].valid \cup Own(s) \subseteq win'[s].valid
<1>1. win'[s].valid = IF Cache!DropsWindow(in, s) THEN {}
                      ELSE win[s].valid \cup Cache!Landed(in, s) \cup Own(s)
  BY WindowGoes
<1> QED
  BY <1>1

-----------------------------------------------------------------------------
(* Every conjunct of the invariant holds after a clock.                    *)

DemandKind == [req : BOOLEAN, wr : BOOLEAN, pt : BOOLEAN, idx : Cache!Sectors, grp : BOOLEAN]
RequestKind == [slot : Slots, lba : Nat, wr : BOOLEAN, word : Nat]
SessionKind == [on : BOOLEAN, slot : Slots, wr : BOOLEAN, lba : Nat, n : Nat, k : Nat,
                strobe : BOOLEAN]

LEMMA DemandLeftIs ==
    ASSUME KindInv
    PROVE  /\ Cache!DemandLeft \in DemandKind
           /\ c.st = "C_IDLE" /\ dem.req => ~Cache!DemandLeft.req
           /\ ~(c.st = "C_IDLE" /\ dem.req) => Cache!DemandLeft = dem
<1>1. dem \in DemandKind
  BY DEF KindInv, DemandKind
<1>2. Cache!NoDemand \in DemandKind /\ ~Cache!NoDemand.req
  BY Geometry DEF Cache!NoDemand, DemandKind
<1> QED
  BY <1>1, <1>2 DEF Cache!DemandLeft, Cache!TakesDemand

LEMMA EngineKind ==
    ASSUME CInv, NEW mount, NEW blocks, NEW nreset, NEW rst, Steps(mount, blocks, nreset, rst)
    PROVE  est' \in EngStates /\ r' \in RequestKind /\ dem' \in DemandKind /\ e_ack' \subseteq Slots
<1>1. /\ est \in EngStates /\ r \in RequestKind /\ e_ack \subseteq Slots /\ r.slot \in Slots
      /\ r.wr \in BOOLEAN /\ \A s \in Slots : io[s] = "none" \/ io[s] # "none"
  BY DEF CInv, KindInv, RequestKind
<1>2. Cache!DemandLeft \in DemandKind
  BY DemandLeftIs DEF CInv
<1>3. CASE est = "E_IDLE"
  <2>1. /\ e_ack' = {} /\ dem' = Cache!DemandLeft
        /\ (\A s \in Slots : io[s] = "none") => est' = "E_IDLE" /\ r' = r
        /\ \A s \in Slots : io[s] # "none" =>
              est' = "E_DECIDE" /\ r' \in [slot : Slots, lba : Nat, wr : BOOLEAN, word : Nat]
    BY <1>3, FromIdle DEF CInv
  <2> QED
    BY <1>1, <1>2, <2>1 DEF EngStates, RequestKind
<1>4. CASE est = "E_DECIDE"
  <2>1. /\ r' = r /\ est' \in EngStates /\ e_ack' \subseteq Slots
        /\ \/ dem' = Cache!DemandLeft
           \/ dem' = [req |-> TRUE, wr |-> r.wr, pt |-> TRUE, idx |-> 0, grp |-> FALSE]
           \/ dem' = [req |-> TRUE, wr |-> FALSE, pt |-> FALSE, idx |-> Cache!RIdx, grp |-> Cache!DemGrp]
    <3>1. e_ack' \in {e_ack, {r.slot}}
      BY <1>4, FromDecide DEF CInv
    <3> QED
      BY <1>1, <1>4, <3>1, FromDecide DEF CInv, EngStates
  <2>2. 0 \in Cache!Sectors /\ Cache!RIdx \in Cache!Sectors
    BY Geometry, IdxIs DEF CInv
  <2>3. Cache!DemGrp \in BOOLEAN
    BY DEF Cache!DemGrp
  <2>4. dem' = [req |-> TRUE, wr |-> r.wr, pt |-> TRUE, idx |-> 0, grp |-> FALSE] => dem' \in DemandKind
    BY <1>1, <2>2 DEF DemandKind
  <2> HIDE DEF Cache!DemGrp
  <2>5. dem' = [req |-> TRUE, wr |-> FALSE, pt |-> FALSE, idx |-> Cache!RIdx, grp |-> Cache!DemGrp]
            => dem' \in DemandKind
    BY <2>2, <2>3 DEF DemandKind
  <2> QED
    BY <1>1, <1>2, <2>1, <2>4, <2>5
<1>5. CASE est \in {"E_FLUSHALL", "E_REBASE", "E_FETCH", "E_PT"}
  <2>1. dem' = Cache!DemandLeft /\ est' \in EngStates /\ e_ack' \in {e_ack, {}, {r.slot}}
        /\ r' \in RequestKind
    <3>1. CASE est # "E_PT"
      BY <1>1, <1>5, <3>1, FromSettling DEF CInv, EngStates
    <3>2. CASE est = "E_PT"
      BY <1>1, <3>2, FromSettling DEF CInv, EngStates, RequestKind
    <3> QED
      BY <3>1, <3>2
  <2> QED
    BY <1>1, <1>2, <2>1
<1>6. CASE est \in Answerings
  <2>1. /\ dem' = Cache!DemandLeft /\ est' \in EngStates /\ e_ack' \in {e_ack, {}}
    BY <1>6, FromAnswering DEF CInv, EngStates, Answerings, Readings, Writings
  <2>2. r' \in RequestKind
    BY <1>1, <1>6, FromAnswering DEF CInv, RequestKind, Answerings, Readings, Writings
  <2> QED
    BY <1>1, <1>2, <2>1, <2>2
<1> QED
  BY <1>1, <1>3, <1>4, <1>5, <1>6 DEF EngStates, Answerings, Readings, Writings

LEMMA PrefetchKind ==
    ASSUME CInv, NEW mount, NEW blocks, NEW nreset, NEW rst, Steps(mount, blocks, nreset, rst)
    PROVE  /\ pf' \in [slot : Slots, grp : 0..(Cache!Groups - 1), left : Nat]
           /\ fl' \in [slot : Slots, idx : Cache!Sectors]
<1> DEFINE in == Inputs(mount, blocks, nreset)
           kind == [slot : Slots, grp : 0..(Cache!Groups - 1), left : Nat]
<1>1. /\ GROUP \in Nat \ {0} /\ SECT \in Nat \ {0} /\ NS \in Nat \ {0} /\ Cache!Groups \in Nat \ {0}
      /\ Cache!Sectors = 0..(SECT - 1) /\ Slots = 0..(NS - 1) /\ PREFETCH \in Nat /\ 0 \in Slots
  BY Geometry, GeometryAssumption DEF Slots
<1>2. /\ pf \in kind /\ fl \in [slot : Slots, idx : Cache!Sectors] /\ r.slot \in Slots
  BY DEF CInv, KindInv
<1>3. Cache!NoPrefetch \in kind
  BY <1>1 DEF Cache!NoPrefetch
<1>4. Cache!RIdx \div GROUP \in 0..(Cache!Groups - 1)
  BY IdxIs, SectorIs DEF CInv
<1>5. Cache!PfAfterChannel(in) \in kind
  <2>1. CASE Cache!PfAfterChannel(in) \in {pf, Cache!NoPrefetch}
    BY <1>2, <1>3, <2>1
  <2>2. CASE Cache!PfAfterChannel(in) \notin {pf, Cache!NoPrefetch}
    <3>1. /\ Cache!Prefetches /\ pf.left # 1
          /\ Cache!PfAfterChannel(in) = [pf EXCEPT !.grp = (pf.grp + 1) % Cache!Groups, !.left = pf.left - 1]
      BY <2>2 DEF Cache!PfAfterChannel
    <3>2. pf.left # 0
      BY <3>1 DEF Cache!Prefetches
    <3>3. (pf.grp + 1) % Cache!Groups \in 0..(Cache!Groups - 1) /\ pf.left - 1 \in Nat
      BY <1>1, <1>2, <3>2
    <3> QED
      BY <1>2, <3>1, <3>3
  <2> QED
    BY <2>1, <2>2
<1>6. pf' \in {Cache!NoPrefetch, Cache!PfAfterChannel(in),
               [slot |-> r.slot, grp |-> Cache!RIdx \div GROUP, left |-> PREFETCH]}
  BY EngineClock DEF CInv
<1>7. [slot |-> r.slot, grp |-> Cache!RIdx \div GROUP, left |-> PREFETCH] \in kind
  BY <1>1, <1>2, <1>4
<1>8. pf' \in kind
  BY <1>3, <1>5, <1>6, <1>7
<1>9. fl' \in {fl, [fl EXCEPT !.idx = Cache!ScanOn(fl.idx)], [slot |-> (fl.slot + 1) % NS, idx |-> 0]}
  <2>1. Cache!Channel(in)
    BY DEF Steps, ClockWith, Cache!Clock
  <2> QED
    BY <2>1 DEF Cache!Channel
<1>10. /\ Cache!ScanOn(fl.idx) \in Cache!Sectors /\ (fl.slot + 1) % NS \in Slots /\ 0 \in Cache!Sectors
  BY <1>1, <1>2 DEF Cache!ScanOn
<1>11. fl' \in [slot : Slots, idx : Cache!Sectors]
  BY <1>2, <1>9, <1>10
<1> QED
  BY <1>8, <1>11

LEMMA SessionKindStep ==
    ASSUME CInv, HpsGoes
    PROVE  hps' \in SessionKind
<1>1. /\ hps \in SessionKind /\ c.slot \in Slots /\ c.wr \in BOOLEAN /\ c.lba \in Nat
      /\ GROUP \in Nat /\ WORDS \in Nat /\ Length(c) \in Nat /\ hps.k \in Nat /\ hps.n \in Nat
  BY Geometry DEF CInv, KindInv, TransactionKind, SessionKind, Length
<1>2. NoSession \in SessionKind
  BY Geometry DEF NoSession, SessionKind
<1>3. hps.k + 1 \in Nat
  BY <1>1
<1>4. CASE \E now \in BOOLEAN :
              hps' = [on |-> TRUE, slot |-> c.slot, wr |-> c.wr, lba |-> c.lba,
                      n |-> Length(c), k |-> IF now THEN 1 ELSE 0, strobe |-> now]
  BY <1>1, <1>4 DEF SessionKind
<1>5. CASE hps' \in {[hps EXCEPT !.k = @ + 1, !.strobe = TRUE], [hps EXCEPT !.k = @ + 1],
                     [hps EXCEPT !.strobe = FALSE]}
  BY <1>1, <1>3, <1>5 DEF SessionKind
<1> QED
  BY <1>2, <1>4, <1>5 DEF HpsGoes

LEMMA KindStep ==
    ASSUME CInv, NEW mount, NEW blocks \in Nat, NEW nreset, NEW rst, Steps(mount, blocks, nreset, rst)
    PROVE  KindInv'
<1>1. guest' = guest /\ bypass' \in BOOLEAN /\ HpsGoes
  BY DEF Steps
<1>2. win' \in [Slots -> Windows]
  <2>1. win' = [t \in Slots |-> Cache!Window(Inputs(mount, blocks, nreset), t)]
    BY DEF Steps, ClockWith, Cache!Clock, Slots, Cache!Slots
  <2>2. \A s \in Slots : win'[s] \in Windows
    BY WindowGoes, WindowMounted DEF CInv
  <2> QED
    BY <2>1, <2>2
<1>3. c' \in TransactionKind
  BY Begun, GoneOn DEF CInv
<1>4. /\ est' \in EngStates /\ r' \in RequestKind /\ dem' \in DemandKind /\ e_ack' \subseteq Slots
  BY EngineKind
<1>5. /\ pf' \in [slot : Slots, grp : 0..(Cache!Groups - 1), left : Nat]
      /\ fl' \in [slot : Slots, idx : Cache!Sectors]
  BY PrefetchKind
<1>6. /\ io' \in [Slots -> {"none", "rd", "wr"}] /\ busy' \in [Slots -> BOOLEAN]
      /\ lba' \in [Slots -> Nat] /\ writing' \in [Slots -> BOOLEAN] /\ old_io_ack' \subseteq Slots
  BY PortGoes DEF CInv, KindInv
<1>7. hps' \in SessionKind
  BY <1>1, SessionKindStep
<1>8. guest' \in Guests /\ Calm'
  BY <1>1 DEF CInv, KindInv, Calm
<1> QED
  BY <1>1, <1>2, <1>3, <1>4, <1>5, <1>6, <1>7, <1>8
     DEF KindInv, RequestKind, DemandKind, SessionKind, TransactionKind, Windows

\* The engine's sector stays where it is while the engine works on it.
LEMMA EngineStays ==
    ASSUME KindInv, PortInv, EngineInv, est # "E_IDLE",
           NEW mount, NEW blocks, NEW nreset, NEW rst, Steps(mount, blocks, nreset, rst)
    PROVE  /\ \A t \in Slots : Stays(t)
           /\ r.slot \in Slots /\ r.slot \notin mount
           /\ busy'[r.slot] /\ lba'[r.slot] = r.lba /\ (writing'[r.slot] <=> r.wr)
           /\ old_io_ack' = e_ack
<1>1. \A s : ~Begins(s)
  BY FreeAtRest DEF Begins
<1>2. (\A t \in Slots : Stays(t)) /\ old_io_ack' = e_ack
  BY <1>1, PortGoes
<1>3. /\ busy[r.slot] /\ lba[r.slot] = r.lba /\ (writing[r.slot] <=> r.wr)
      /\ old_io_ack \subseteq e_ack /\ r.slot \in Slots
  BY DEF EngineInv, KindInv
<1>4. r.slot \notin mount
  BY <1>3 DEF Steps
<1> QED
  BY <1>2, <1>3, <1>4 DEF Stays, Port!Ends

LEMMA PortStep ==
    ASSUME CInv, NEW mount, NEW blocks \in Nat, NEW nreset, NEW rst, Steps(mount, blocks, nreset, rst)
    PROVE  PortInv'
<1>1. guest' = guest /\ guest.slots \subseteq Slots
  BY GuestIs DEF Steps, CInv
<1>2. /\ old_io_ack' = e_ack
      /\ \/ \A t \in Slots : Stays(t)
         \/ \E s \in guest.slots : Begins(s) /\ \A t \in Slots \ {s} : Stays(t)
  BY PortGoes DEF CInv
<1>3. \A s \in Slots : s \notin mount => win'[s].mounted = win[s].mounted
  BY WindowGoes DEF CInv
<1>4. \A s \in mount : /\ ~busy[s]
                       /\ ~win[s].mounted \/ (s = 0 /\ \A t \in Slots : io'[t] = io[t])
  BY DEF Steps
<1>5. \A s \in Slots : busy[s] =>
         /\ s \in guest.slots /\ win[s].mounted /\ lba[s] \in guest.lbas
         /\ \A t \in guest.slots \ {0} : win[t].mounted
  BY DEF CInv, PortInv
<1>6. \A s : Begins(s) => io'[s] # "none" /\ \A t \in Slots : io[t] = "none"
  BY DEF Begins, Free
<1>7. \A s \in Slots : busy'[s] =>
         /\ s \in guest.slots /\ win'[s].mounted /\ lba'[s] \in guest.lbas
         /\ \A t \in guest.slots \ {0} : win'[t].mounted
  <2>1. SUFFICES ASSUME NEW s \in Slots, busy'[s]
                 PROVE  /\ s \in guest.slots /\ win'[s].mounted /\ lba'[s] \in guest.lbas
                        /\ \A t \in guest.slots \ {0} : win'[t].mounted
    OBVIOUS
  <2>2. CASE Stays(s)
    <3>1. busy[s] /\ lba'[s] = lba[s]
      BY <2>1, <2>2 DEF Stays
    <3>2. s \notin mount /\ \A t \in guest.slots \ {0} : t \notin mount
      BY <3>1, <1>4, <1>5
    <3> QED
      BY <3>1, <3>2, <1>1, <1>3, <1>5
  <2>3. CASE Begins(s)
    <3>1. s \in guest.slots /\ lba'[s] \in guest.lbas /\ \A t \in guest.slots : win[t].mounted
      BY <2>3 DEF Begins
    <3>2. \A t \in guest.slots : t \notin mount
      BY <3>1, <1>4, <1>6, <2>3
    <3> QED
      BY <3>1, <3>2, <1>1, <1>3
  <2> QED
    BY <1>2, <2>2, <2>3
<1>8. \A s, t \in Slots : busy'[s] /\ busy'[t] => s = t
  <2>1. CASE \A t \in Slots : Stays(t)
    BY <2>1 DEF Stays, CInv, PortInv
  <2>2. ASSUME NEW s \in guest.slots, Begins(s), \A t \in Slots \ {s} : Stays(t)
        PROVE  \A t \in Slots \ {s} : ~busy'[t]
    BY <2>2 DEF Begins, Free, Stays
  <2> QED
    BY <1>2, <2>1, <2>2
<1>9. \A s \in Slots :
         /\ io'[s] # "none" => busy'[s] /\ s \notin e_ack
         /\ busy'[s] /\ writing'[s] => s \in guest.writers
         /\ io'[s] # "none" => (writing'[s] <=> io'[s] = "wr")
  <2>1. \A s \in Slots : Stays(s) =>
         /\ io'[s] # "none" => busy'[s] /\ s \notin e_ack
         /\ busy'[s] /\ writing'[s] => s \in guest.writers
         /\ io'[s] # "none" => (writing'[s] <=> io'[s] = "wr")
    BY DEF Stays, Port!Ends, CInv, PortInv
  <2>2. \A s \in Slots : Begins(s) =>
         /\ io'[s] # "none" => busy'[s] /\ s \notin e_ack
         /\ busy'[s] /\ writing'[s] => s \in guest.writers
         /\ io'[s] # "none" => (writing'[s] <=> io'[s] = "wr")
    BY DEF Begins
  <2> QED
    BY <1>2, <2>1, <2>2
<1> QED
  BY <1>1, <1>2, <1>7, <1>8, <1>9 DEF PortInv

\* A flush that begins has something to flush.
LEMMA FlushIs ==
    ASSUME KindInv, NEW in, IsFlush(in)
    PROVE  /\ fl.slot \in Slots /\ c'.slot = fl.slot /\ c'.wr /\ ~c'.pt /\ ~dem.req
           /\ Cache!Covered' \subseteq win[c'.slot].dirty /\ win[c'.slot].dirty # {}
           /\ c'.idx \in Cache!Covered'
<1>1. fl.slot \in Slots /\ fl.idx \in Cache!Sectors
  BY DEF KindInv
<1>2. /\ fl.idx \in Cache!InGroup(fl.idx) /\ Cache!InGroup(Cache!GroupBase(fl.idx)) = Cache!InGroup(fl.idx)
      /\ Cache!GroupBase(fl.idx) \in Cache!Sectors
  BY <1>1, SectorIs
<1>3. CASE c'.grp
  <2>1. Cache!Covered' = Cache!InGroup(c'.idx)
    BY <1>3 DEF Cache!Covered, Cache!InGroup
  <2>2. c'.idx = Cache!GroupBase(fl.idx) /\ Cache!FlGrp(in) /\ c'.slot = fl.slot
    BY <1>3 DEF IsFlush
  <2>3. Cache!GroupBase(fl.idx) \in Cache!InGroup(Cache!GroupBase(fl.idx))
    BY <1>2, SectorIs
  <2> QED
    BY <1>1, <1>2, <2>1, <2>2, <2>3 DEF IsFlush, Cache!FlGrp, Cache!FlDirt
<1>4. CASE ~c'.grp
  <2>1. Cache!Covered' = {c'.idx} /\ c'.idx = fl.idx /\ Cache!FlOne(in) /\ c'.slot = fl.slot
    BY <1>4 DEF Cache!Covered, IsFlush
  <2> QED
    BY <1>1, <2>1 DEF IsFlush, Cache!FlOne, Cache!FlDirt
<1> QED
  BY <1>3, <1>4

\* A prefetch covers its group, where nothing is.
LEMMA PrefetchIs ==
    ASSUME KindInv, NEW in, IsPrefetch(in)
    PROVE  /\ pf.slot \in Slots /\ c'.slot = pf.slot /\ ~c'.wr /\ ~c'.pt /\ c'.grp /\ pf.left # 0 /\ ~dem.req
           /\ Cache!Covered' = Cache!PfGroup
           /\ Cache!Covered' \cap win[pf.slot].dirty = {} /\ Cache!Covered' \cap win[pf.slot].valid = {}
           /\ \A s \in Slots : win[s].dirty = {}
           /\ ~in.bypass /\ ~(Cache!EWriting(in) /\ pf.slot = r.slot)
           /\ pf.grp < win[pf.slot].lim
<1>1. pf.slot \in Slots /\ pf.grp \in 0..(Cache!Groups - 1)
  BY DEF KindInv
<1>2. /\ c'.slot = pf.slot /\ ~c'.wr /\ ~c'.pt /\ c'.grp /\ c'.idx = pf.grp * GROUP
      /\ Cache!StartsPrefetch(in) /\ ~dem.req
  BY DEF IsPrefetch
<1>3. Cache!Covered' = Cache!InGroup(pf.grp * GROUP)
  BY <1>2 DEF Cache!Covered, Cache!InGroup
<1>4. Cache!Covered' = Cache!PfGroup
  BY <1>1, <1>3, GroupIs DEF Cache!InGroup, Cache!PfGroup
<1>5. /\ Cache!Prefetches /\ ~in.bypass /\ Cache!PfOk(in)
  BY <1>2 DEF Cache!StartsPrefetch
<1>6. Cache!PfGroup \cap win[pf.slot].dirty = {} /\ Cache!PfGroup \cap win[pf.slot].valid = {}
  BY <1>5 DEF Cache!PfOk, Cache!Present
<1>7. pf.left # 0 /\ \A s \in Slots : win[s].dirty = {}
  BY <1>5 DEF Cache!Prefetches, Cache!AnyDirt, Slots, Cache!Slots
<1> QED
  BY <1>1, <1>2, <1>4, <1>5, <1>6, <1>7 DEF Cache!PfOk

LEMMA EngineFromIdle ==
    ASSUME CInv, est = "E_IDLE",
           NEW mount, NEW blocks \in Nat, NEW nreset, NEW rst, Steps(mount, blocks, nreset, rst)
    PROVE  EngineInv'
<1>1. e_ack = {} /\ e_ack' = {} /\ old_io_ack' = {}
  BY FromIdle, PortGoes DEF CInv, EngineInv
<1>2. CASE \A s \in Slots : io[s] = "none"
  <2>1. est' = "E_IDLE"
    BY <1>2, FromIdle DEF CInv
  <2> QED
    BY <1>1, <2>1 DEF EngineInv, Answerings, Readings, Writings
<1>3. ASSUME NEW s \in Slots, io[s] # "none"
      PROVE  EngineInv'
  <2>1. /\ est' = "E_DECIDE" /\ r'.slot = s /\ r'.lba = lba[s] /\ (r'.wr <=> writing[s]) /\ r'.word = 0
    BY <1>3, FromIdle DEF CInv
  <2>2. \A t \in Slots : Stays(t)
    BY <1>3, PortGoes DEF CInv, Begins, Free
  <2>3. busy[s] /\ s \notin old_io_ack
    BY <1>3 DEF CInv, PortInv
  <2>4. busy'[s] /\ lba'[s] = lba[s] /\ (writing'[s] <=> writing[s])
    BY <1>1, <2>2, <2>3 DEF Stays, Port!Ends
  <2> QED
    BY <1>1, <2>1, <2>4 DEF EngineInv, Answerings, Readings, Writings
<1> QED
  BY <1>2, <1>3

\* The window of the engine's request stays, unless the engine moves or drops
\* it.
LEMMA RequestStays ==
    ASSUME CInv, est # "E_IDLE", est # "E_REBASE", r'.slot = r.slot,
           NEW mount, NEW blocks \in Nat, NEW nreset, NEW rst, Steps(mount, blocks, nreset, rst),
           ~Cache!PassesThrough(Inputs(mount, blocks, nreset))
    PROVE  /\ win'[r.slot].base = win[r.slot].base /\ (win'[r.slot].ok <=> win[r.slot].ok)
           /\ r'.lba = r.lba => Cache!RIdx' = Cache!RIdx /\ (Cache!RInWin' <=> Cache!RInWin)
<1>1. r.slot \in Slots /\ r.slot \notin mount
  BY EngineStays DEF CInv
<1>2. ~Rebased(r.slot) /\ ~Cache!DropsWindow(Inputs(mount, blocks, nreset), r.slot)
  BY DEF Rebased, Cache!DropsWindow
<1>3. win'[r.slot].base = win[r.slot].base /\ (win'[r.slot].ok <=> win[r.slot].ok)
  BY <1>1, <1>2, WindowGoes DEF CInv
<1> QED
  BY <1>3 DEF Cache!RIdx, Cache!RInWin, Cache!R

LEMMA EngineFromDecide ==
    ASSUME CInv, est = "E_DECIDE",
           NEW mount, NEW blocks \in Nat, NEW nreset, NEW rst, Steps(mount, blocks, nreset, rst)
    PROVE  EngineInv'
<1>1. /\ r' = r /\ e_ack = {} /\ old_io_ack' = {} /\ r.word = 0 /\ 0 \in Words
      /\ busy'[r.slot] /\ lba'[r.slot] = r.lba /\ (writing'[r.slot] <=> r.wr)
  BY FromDecide, EngineStays, Geometry DEF CInv, EngineInv, Answerings, Readings, Writings, Words
<1>2. est' # "E_PT" => (Cache!RInWin' <=> Cache!RInWin)
  <2>1. est' # "E_PT" => ~Cache!PassesThrough(Inputs(mount, blocks, nreset))
    BY FromDecide DEF CInv
  <2> QED
    BY <1>1, <2>1, RequestStays
<1>3. \/ est' = "E_FLUSHALL" /\ pf' = Cache!NoPrefetch /\ e_ack' = {}
      \/ est' = "E_PT" /\ e_ack' = {}
      \/ est' = "E_WR_A" /\ Cache!RInWin /\ r.wr /\ e_ack' = {r.slot}
      \/ est' = "E_RD_A" /\ ~r.wr /\ Cache!RInWin /\ e_ack' = {r.slot}
      \/ est' = "E_FETCH" /\ ~r.wr /\ e_ack' = {}
      \/ est' = "E_DECIDE" /\ e_ack' = {}
  BY <1>1, FromDecide DEF CInv, Cache!RHit, Cache!Misses
<1> QED
  BY <1>1, <1>2, <1>3 DEF EngineInv, Answerings, Readings, Writings, Cache!NoPrefetch

\* Nothing takes the channel to a window that the engine is about to move.
LEMMA EngineFromSettling ==
    ASSUME CInv, est \in {"E_FLUSHALL", "E_REBASE", "E_FETCH", "E_PT"},
           NEW mount, NEW blocks \in Nat, NEW nreset, NEW rst, Steps(mount, blocks, nreset, rst)
    PROVE  EngineInv'
<1> DEFINE in == Inputs(mount, blocks, nreset)
<1>1. /\ old_io_ack' = e_ack /\ busy'[r.slot] /\ lba'[r.slot] = r.lba /\ (writing'[r.slot] <=> r.wr)
      /\ r.slot \in Slots /\ r.slot \notin mount /\ e_ack \subseteq {r.slot}
      /\ est # "E_PT" => e_ack = {}
      /\ r.word = 0
  BY EngineStays DEF CInv, EngineInv, Answerings, Readings, Writings
<1>2. CASE est = "E_PT"
  <2>1. \/ est' = "E_IDLE" /\ e_ack' = {}
        \/ est' = "E_PT" /\ r' = r /\ e_ack' \in {e_ack, {r.slot}}
    BY <1>2, FromSettling DEF CInv
  <2> QED
    BY <1>1, <2>1 DEF EngineInv, Answerings, Readings, Writings
<1>3. CASE est = "E_FETCH"
  <2>1. /\ r' = r /\ e_ack' = {} /\ est' \in {"E_FETCH", "E_DECIDE"} /\ ~r.wr
    BY <1>1, <1>3, FromSettling DEF CInv, EngineInv
  <2> QED
    BY <1>1, <1>3, <2>1 DEF EngineInv, Answerings, Readings, Writings
<1>4. CASE est = "E_REBASE"
  <2>1. r' = r /\ e_ack' = {} /\ est' = "E_DECIDE"
    BY <1>1, <1>4, FromSettling DEF CInv
  <2> QED
    BY <1>1, <1>4, <2>1 DEF EngineInv, Answerings, Readings, Writings
<1>5. CASE est = "E_FLUSHALL"
  <2>1. /\ r' = r /\ e_ack' = {}
        /\ \/ est' = "E_FLUSHALL"
           \/ est' = "E_REBASE" /\ Cache!R.dirty = {} /\ c.st = "C_IDLE"
    BY <1>1, <1>5, FromSettling DEF CInv
  <2>2. pf.left = 0
    BY <1>5 DEF CInv, EngineInv
  <2>3. pf'.left = 0
    <3>1. Cache!PfAfterChannel(in) = pf
      BY <2>2 DEF Cache!PfAfterChannel, Cache!Prefetches
    <3>2. pf' \in {Cache!NoPrefetch, Cache!PfAfterChannel(in)}
      BY <1>5, EngineClock DEF CInv
    <3> QED
      BY <2>2, <3>1, <3>2 DEF Cache!NoPrefetch
  <2>4. est' = "E_REBASE" => Cache!R'.dirty = {} /\ (c'.st # "C_IDLE" => c'.slot # r.slot)
    <3>1. SUFFICES ASSUME Cache!R.dirty = {}, c.st = "C_IDLE"
                   PROVE  Cache!R'.dirty = {} /\ (c'.st # "C_IDLE" => c'.slot # r.slot)
      BY <1>5, <2>1
    <3>2. win'[r.slot].dirty = {}
      <4>1. ~Rebased(r.slot) /\ Own(r.slot) = {}
        BY <1>5 DEF Rebased, Own, Cache!Written
      <4>2. win'[r.slot].dirty \subseteq win[r.slot].dirty \cup Own(r.slot)
        BY <1>1, DirtyGoes DEF CInv
      <4> QED
        BY <3>1, <4>1, <4>2 DEF Cache!R
    <3>3. ~dem.req
      BY <1>5 DEF CInv, DemandInv
    <3>4. c' = c \/ IsFlush(in) \/ IsPrefetch(in)
      BY <3>1, <3>3, Begun DEF CInv, IsDemand
    <3>5. IsFlush(in) => c'.slot # r.slot
      BY <3>1, FlushIs DEF CInv, Cache!R
    <3>6. ~IsPrefetch(in)
      BY <2>2, PrefetchIs DEF CInv
    <3> QED
      BY <2>1, <3>1, <3>2, <3>4, <3>5, <3>6 DEF Cache!R
  <2>5. est' \in {"E_FLUSHALL", "E_REBASE"}
    BY <2>1
  <2> QED
    BY <1>1, <1>5, <2>1, <2>3, <2>4, <2>5 DEF EngineInv, Answerings, Readings, Writings
<1> QED
  BY <1>2, <1>3, <1>4, <1>5

LEMMA EngineFromAnswering ==
    ASSUME CInv, est \in Answerings,
           NEW mount, NEW blocks \in Nat, NEW nreset, NEW rst, Steps(mount, blocks, nreset, rst)
    PROVE  EngineInv'
<1>1. /\ old_io_ack' = e_ack /\ busy'[r.slot] /\ lba'[r.slot] = r.lba /\ (writing'[r.slot] <=> r.wr)
      /\ r.slot \in Slots /\ e_ack = {r.slot} /\ Cache!RInWin /\ r.word \in Words
  BY EngineStays DEF CInv, EngineInv, Answerings, Readings, Writings
<1>2. CASE est = "E_DONE"
  <2>1. est' = "E_IDLE" /\ e_ack' = {}
    BY <1>2, FromAnswering DEF CInv
  <2> QED
    BY <2>1 DEF EngineInv, Answerings, Readings, Writings
<1>3. CASE est # "E_DONE"
  <2>1. /\ r'.slot = r.slot /\ r'.lba = r.lba /\ r'.wr = r.wr
        /\ e_ack' = {r.slot}
    BY <1>1, <1>3, FromAnswering DEF CInv, Answerings, Readings, Writings
  <2>2. r'.word \in Words
    <3>1. r'.word = r.word \/ (r.word # WORDS - 1 /\ r'.word = r.word + 1)
      BY <1>1, <1>3, FromAnswering DEF CInv, Answerings, Readings, Writings
    <3> QED
      BY <1>1, <3>1, Geometry DEF Words
  <2>3. Cache!RInWin'
    <3>1. ~Cache!PassesThrough(Inputs(mount, blocks, nreset)) /\ est # "E_IDLE" /\ est # "E_REBASE"
      BY DEF Cache!PassesThrough, Cache!Deciding, Answerings, Readings, Writings
    <3> QED
      BY <1>1, <2>1, <3>1, RequestStays
  <2>4. /\ est \in Readings => est' \in Readings \cup {"E_DONE"}
        /\ est \in Writings => est' \in Writings \cup {"E_DONE"}
    BY FromAnswering DEF CInv, Answerings, Readings, Writings
  <2>5. /\ est \in Writings => r.wr
        /\ est \in Readings => ~r.wr
    BY DEF CInv, EngineInv
  <2>6. est' \in Answerings /\ (est' \in Writings => r.wr) /\ (est' \in Readings => ~r.wr)
    BY <1>3, <2>4, <2>5 DEF Answerings, Readings, Writings
  <2> QED
    BY <1>1, <2>1, <2>2, <2>3, <2>6 DEF EngineInv, Answerings, Readings, Writings
<1> QED
  BY <1>2, <1>3

LEMMA EngineStep ==
    ASSUME CInv, NEW mount, NEW blocks \in Nat, NEW nreset, NEW rst, Steps(mount, blocks, nreset, rst)
    PROVE  EngineInv'
<1>1. est \in EngStates
  BY DEF CInv, KindInv
<1> QED
  BY <1>1, EngineFromIdle, EngineFromDecide, EngineFromSettling, EngineFromAnswering
     DEF EngStates, Answerings, Readings, Writings

\* Nothing passes the cache when the engine does not want it.
LEMMA NothingPasses ==
    ASSUME CInv, est # "E_PT",
           NEW mount, NEW blocks \in Nat, NEW nreset, NEW rst, Steps(mount, blocks, nreset, rst)
    PROVE  c'.st # "C_IDLE" => ~c'.pt
<1>1. (c.st # "C_IDLE" => ~c.pt) /\ (dem.req => ~dem.pt)
  BY DEF CInv, DemandInv
<1>2. CASE c.st = "C_IDLE"
  BY <1>1, <1>2, Begun DEF CInv, IsDemand, IsFlush, IsPrefetch
<1>3. CASE c.st # "C_IDLE"
  <2>1. c'.st # "C_IDLE" => c'.pt = c.pt
    BY <1>3, GoneOn DEF CInv
  <2> QED
    BY <1>1, <1>3, <2>1
<1> QED
  BY <1>2, <1>3

\* What the channel does on its own covers what it covered.
LEMMA CoveredStays ==
    ASSUME CInv, c.st # "C_IDLE",
           NEW mount, NEW blocks \in Nat, NEW nreset, NEW rst, Steps(mount, blocks, nreset, rst)
    PROVE  c'.st # "C_IDLE" => /\ Cache!Covered' = Cache!Covered
                               /\ c'.slot = c.slot /\ c'.wr = c.wr /\ c'.pt = c.pt
<1>1. c'.st # "C_IDLE" =>
         /\ c'.slot = c.slot /\ c'.wr = c.wr /\ c'.pt = c.pt /\ c'.idx = c.idx /\ c'.grp = c.grp
  BY GoneOn DEF CInv
<1> QED
  BY <1>1 DEF Cache!Covered, Cache!InGroup

\* A sector that is missing goes on missing while no fetch covers it.
LEMMA StillMissing ==
    ASSUME CInv, est \in {"E_DECIDE", "E_FETCH"}, r' = r, Cache!RIdx \notin Cache!R.valid,
           c.st # "C_IDLE" /\ ~c.pt /\ ~c.wr /\ c.slot = r.slot => Cache!RIdx \notin Cache!Covered,
           NEW mount, NEW blocks \in Nat, NEW nreset, NEW rst, Steps(mount, blocks, nreset, rst),
           ~Cache!PassesThrough(Inputs(mount, blocks, nreset))
    PROVE  /\ Cache!RIdx' = Cache!RIdx /\ Cache!RIdx \notin Cache!R'.valid
           /\ Cache!R'.dirty \subseteq Cache!R.dirty
<1> DEFINE in == Inputs(mount, blocks, nreset)
<1>0. in = Inputs(mount, blocks, nreset)
  OBVIOUS
<1> HIDE DEF in
<1>1. r.slot \in Slots /\ r.slot \notin mount
  BY EngineStays DEF CInv
<1>2. Cache!RIdx' = Cache!RIdx
  BY RequestStays
<1>3. Own(r.slot) = {} /\ ~Rebased(r.slot) /\ ~Cache!DropsWindow(in, r.slot)
  BY <1>0 DEF Own, Cache!Written, Rebased, Cache!DropsWindow
<1>4. win'[r.slot].valid \subseteq win[r.slot].valid \cup Cache!Landed(in, r.slot) \cup Own(r.slot)
  BY <1>0, <1>1, <1>3, ValidGoes DEF CInv
<1>5. win'[r.slot].dirty \subseteq win[r.slot].dirty \cup Own(r.slot)
  BY <1>1, DirtyGoes DEF CInv
<1>6. Cache!RIdx \notin Cache!Landed(in, r.slot)
  <2>1. CASE Cache!Landed(in, r.slot) = {}
    BY <2>1
  <2>2. CASE Cache!Landed(in, r.slot) # {}
    <3>1. /\ c.st = "C_XFER" /\ ~c.pt /\ ~c.wr /\ c.slot = r.slot
          /\ Cache!Landed(in, r.slot) \subseteq Cache!Covered
      BY <1>0, <1>1, <2>2, LandedIs DEF CInv
    <3> QED
      BY <3>1
  <2> QED
    BY <2>1, <2>2
<1> QED
  BY <1>2, <1>3, <1>4, <1>5, <1>6 DEF Cache!R

LEMMA QuietDemand ==
    ASSUME CInv, est \notin {"E_PT", "E_FETCH"}, est' # "E_PT", dem' = Cache!DemandLeft,
           NEW mount, NEW blocks \in Nat, NEW nreset, NEW rst, Steps(mount, blocks, nreset, rst)
    PROVE  DemandInv'
<1>1. ~dem.req
  BY DEF CInv, DemandInv
<1>2. ~dem'.req
  BY <1>1, DemandLeftIs DEF CInv
<1>3. c'.st # "C_IDLE" => ~c'.pt
  BY NothingPasses
<1> QED
  BY <1>2, <1>3 DEF DemandInv

\* What a miss wants is not on its way - but for the race.
LEMMA MissRaises ==
    ASSUME CInv, ~DemandRace, est = "E_DECIDE",
           NEW mount, NEW blocks \in Nat, NEW nreset, NEW rst, Steps(mount, blocks, nreset, rst),
           NEW in, in = Inputs(mount, blocks, nreset), Cache!Misses(in),
           c'.st # "C_IDLE", ~c'.pt, ~c'.wr, c'.slot = r.slot
    PROVE  Cache!RIdx \notin Cache!Covered'
<1>1. ~Cache!ChFetchingMe /\ ~dem.req
  BY DEF Cache!Misses
<1>2. CASE c.st # "C_IDLE"
  BY <1>1, <1>2, CoveredStays DEF Cache!ChFetchingMe, Cache!ChBusyMe
<1>3. CASE c.st = "C_IDLE"
  <2>1. IsPrefetch(in)
    <3>1. c' = c \/ IsFlush(in) \/ IsPrefetch(in)
      BY <1>1, <1>3, Begun DEF CInv, IsDemand
    <3> QED
      BY <1>3, <3>1 DEF IsFlush
  <2>2. Cache!Covered' = Cache!PfGroup /\ pf.slot = r.slot
    BY <2>1, PrefetchIs DEF CInv
  <2>3. in.bypass = bypass /\ Now.bypass = bypass
    <3>1. in.bypass = bypass
      BY InputsAre
    <3>2. Now.bypass = bypass
      BY DEF Now, Inputs
    <3> QED
      BY <3>1, <3>2
  <2>4. Cache!Misses(Now)
    BY <2>3 DEF Cache!Misses, Cache!RPt
  <2>5. Cache!StartsPrefetch(Now)
    BY <2>1, <2>3 DEF IsPrefetch, Cache!StartsPrefetch, Cache!PfOk, Cache!EWriting, Cache!RPt
  <2>6. pf.grp # Cache!RIdx \div GROUP
    BY <2>2, <2>4, <2>5 DEF DemandRace
  <2> QED
    BY <2>2, <2>6 DEF Cache!PfGroup
<1> QED
  BY <1>2, <1>3

LEMMA DemandFromDecide ==
    ASSUME CInv, ~DemandRace, est = "E_DECIDE",
           NEW mount, NEW blocks \in Nat, NEW nreset, NEW rst, Steps(mount, blocks, nreset, rst)
    PROVE  DemandInv'
<1> DEFINE in == Inputs(mount, blocks, nreset)
<1>0. in = Inputs(mount, blocks, nreset)
  OBVIOUS
<1> HIDE DEF in
<1>1. /\ r' = r
      /\ \/ est' = "E_PT" /\ dem' = [req |-> TRUE, wr |-> r.wr, pt |-> TRUE, idx |-> 0, grp |-> FALSE]
         \/ /\ est' = "E_FETCH" /\ Cache!Misses(in) /\ ~Cache!PassesThrough(in)
            /\ dem' = [req |-> TRUE, wr |-> FALSE, pt |-> FALSE, idx |-> Cache!RIdx, grp |-> Cache!DemGrp]
         \/ est' # "E_PT" /\ dem' = Cache!DemandLeft
  BY <1>0, FromDecide DEF CInv
<1>2. c'.st # "C_IDLE" => ~c'.pt
  BY NothingPasses
<1>3. CASE est' = "E_PT" /\ dem' = [req |-> TRUE, wr |-> r.wr, pt |-> TRUE, idx |-> 0, grp |-> FALSE]
  <2>1. dem'.req /\ dem'.pt /\ dem'.wr = r.wr
    BY <1>3
  <2> QED
    BY <1>1, <1>2, <1>3, <2>1 DEF DemandInv
<1>4. CASE est' # "E_PT" /\ dem' = Cache!DemandLeft
  BY <1>4, QuietDemand
<1>5. CASE /\ est' = "E_FETCH" /\ Cache!Misses(in) /\ ~Cache!PassesThrough(in)
           /\ dem' = [req |-> TRUE, wr |-> FALSE, pt |-> FALSE, idx |-> Cache!RIdx, grp |-> Cache!DemGrp]
  <2>1. /\ Cache!RIdx \notin Cache!R.valid
        /\ c.st # "C_IDLE" /\ ~c.pt /\ ~c.wr /\ c.slot = r.slot => Cache!RIdx \notin Cache!Covered
    BY <1>5 DEF Cache!Misses, Cache!RHit, Cache!ChFetchingMe, Cache!ChBusyMe
  <2>2. /\ Cache!RIdx' = Cache!RIdx /\ Cache!RIdx \notin Cache!R'.valid
        /\ Cache!R'.dirty \subseteq Cache!R.dirty
    BY <1>0, <1>1, <1>5, <2>1, StillMissing
  <2>3. Cache!DemGrp => Cache!InGroup(Cache!RIdx) \cap Cache!R.dirty = {}
    BY DEF Cache!DemGrp, Cache!Present, Cache!R
  <2>4. c'.st # "C_IDLE" /\ ~c'.pt /\ ~c'.wr /\ c'.slot = r.slot => Cache!RIdx \notin Cache!Covered'
    BY <1>0, <1>5, MissRaises
  <2> HIDE DEF Cache!DemGrp
  <2>5. /\ dem'.req /\ ~dem'.wr /\ ~dem'.pt /\ dem'.idx = Cache!RIdx
        /\ dem'.grp => Cache!DemGrp
    BY <1>5
  <2>6. Cache!InGroup(Cache!RIdx)' = Cache!InGroup(Cache!RIdx)
    BY <2>2 DEF Cache!InGroup
  <2> QED
    BY <1>1, <1>2, <1>5, <2>2, <2>3, <2>4, <2>5, <2>6 DEF DemandInv
<1> QED
  BY <1>1, <1>3, <1>4, <1>5

LEMMA DemandFromFetch ==
    ASSUME CInv, est = "E_FETCH",
           NEW mount, NEW blocks \in Nat, NEW nreset, NEW rst, Steps(mount, blocks, nreset, rst)
    PROVE  DemandInv'
<1>1. /\ r' = r /\ est' \in {"E_FETCH", "E_DECIDE"} /\ dem' = Cache!DemandLeft
      /\ dem.req => est' = "E_FETCH"
  BY FromSettling DEF CInv
<1>2. c'.st # "C_IDLE" => ~c'.pt
  BY NothingPasses
<1>3. CASE ~dem.req \/ c.st = "C_IDLE"
  <2>1. ~dem'.req
    BY <1>1, <1>3, DemandLeftIs DEF CInv
  <2> QED
    BY <1>1, <1>2, <2>1 DEF DemandInv
<1>4. CASE dem.req /\ c.st # "C_IDLE"
  <2>1. /\ ~dem.pt /\ ~dem.wr /\ dem.idx = Cache!RIdx /\ Cache!RIdx \notin Cache!R.valid
        /\ dem.grp => Cache!InGroup(Cache!RIdx) \cap Cache!R.dirty = {}
        /\ c.st # "C_IDLE" /\ ~c.pt /\ ~c.wr /\ c.slot = r.slot => Cache!RIdx \notin Cache!Covered
    BY <1>4 DEF CInv, DemandInv
  <2>2. dem' = dem
    BY <1>1, <1>4, DemandLeftIs DEF CInv
  <2>3. ~Cache!PassesThrough(Inputs(mount, blocks, nreset))
    BY DEF Cache!PassesThrough, Cache!Deciding
  <2>4. /\ Cache!RIdx' = Cache!RIdx /\ Cache!RIdx \notin Cache!R'.valid
        /\ Cache!R'.dirty \subseteq Cache!R.dirty
    BY <1>1, <2>1, <2>3, StillMissing
  <2>5. c'.st # "C_IDLE" /\ ~c'.pt /\ ~c'.wr /\ c'.slot = r.slot => Cache!RIdx \notin Cache!Covered'
    BY <1>4, <2>1, CoveredStays
  <2>6. Cache!InGroup(Cache!RIdx)' = Cache!InGroup(Cache!RIdx)
    BY <2>4 DEF Cache!InGroup
  <2> QED
    BY <1>1, <1>2, <1>4, <2>1, <2>2, <2>4, <2>5, <2>6 DEF DemandInv
<1> QED
  BY <1>3, <1>4

LEMMA DemandFromPassing ==
    ASSUME CInv, est = "E_PT",
           NEW mount, NEW blocks \in Nat, NEW nreset, NEW rst, Steps(mount, blocks, nreset, rst)
    PROVE  DemandInv'
<1>1. /\ dem' = Cache!DemandLeft
      /\ \/ c.st = "C_XFER" /\ c.pt /\ ~hps.on /\ est' = "E_IDLE"
         \/ ~(c.st = "C_XFER" /\ c.pt /\ ~hps.on) /\ est' = "E_PT" /\ r' = r
  BY FromSettling DEF CInv
<1>2. /\ dem.req => dem.pt /\ (dem.wr <=> r.wr)
      /\ c.st # "C_IDLE" /\ c.pt => c.slot = r.slot /\ (c.wr <=> r.wr) /\ ~dem.req
      /\ dem.req \/ (c.st # "C_IDLE" /\ c.pt)
  BY DEF CInv, DemandInv
<1>3. CASE dem.req /\ c.st # "C_IDLE"
  <2>1. ~c.pt
    BY <1>2, <1>3
  <2>2. c'.st # "C_IDLE" => ~c'.pt
    BY <1>3, <2>1, CoveredStays
  <2>3. dem' = dem
    BY <1>1, <1>3, DemandLeftIs DEF CInv
  <2> QED
    BY <1>1, <1>2, <1>3, <2>1, <2>2, <2>3 DEF DemandInv
<1>4. CASE dem.req /\ c.st = "C_IDLE"
  <2>1. c'.st = "C_REQ" /\ c'.slot = r.slot /\ (c'.wr <=> r.wr) /\ c'.pt
    BY <1>2, <1>4, Begun DEF CInv, IsDemand, IsFlush, IsPrefetch
  <2>2. ~dem'.req
    BY <1>1, <1>4, DemandLeftIs DEF CInv
  <2> QED
    BY <1>1, <1>4, <2>1, <2>2 DEF DemandInv
<1>5. CASE ~dem.req
  <2>1. ~dem'.req
    BY <1>1, <1>5, DemandLeftIs DEF CInv
  <2>2. c.st # "C_IDLE" /\ c.pt /\ c.slot = r.slot /\ (c.wr <=> r.wr)
    BY <1>2, <1>5
  <2>3. CASE c.st = "C_XFER" /\ ~hps.on
    <3>1. c'.st = "C_IDLE"
      BY <2>3, GoneOn DEF CInv
    <3> QED
      BY <1>1, <2>1, <2>2, <2>3, <3>1 DEF DemandInv
  <2>4. CASE ~(c.st = "C_XFER" /\ ~hps.on)
    <3>1. c'.st # "C_IDLE"
      BY <2>2, <2>4, GoneOn DEF CInv
    <3>2. c'.slot = c.slot /\ c'.wr = c.wr /\ c'.pt = c.pt
      BY <2>2, <3>1, CoveredStays
    <3> QED
      BY <1>1, <2>1, <2>2, <2>4, <3>1, <3>2 DEF DemandInv
  <2> QED
    BY <2>3, <2>4
<1> QED
  BY <1>3, <1>4, <1>5

LEMMA DemandStep ==
    ASSUME CInv, ~DemandRace,
           NEW mount, NEW blocks \in Nat, NEW nreset, NEW rst, Steps(mount, blocks, nreset, rst)
    PROVE  DemandInv'
<1>1. est \in EngStates
  BY DEF CInv, KindInv
<1>2. CASE est = "E_IDLE"
  <2>1. est' # "E_PT" /\ dem' = Cache!DemandLeft
    BY <1>2, FromIdle DEF CInv
  <2> QED
    BY <1>2, <2>1, QuietDemand
<1>3. CASE est \in {"E_FLUSHALL", "E_REBASE"}
  <2>1. est' # "E_PT" /\ dem' = Cache!DemandLeft
    BY <1>3, FromSettling DEF CInv
  <2> QED
    BY <1>3, <2>1, QuietDemand
<1>4. CASE est \in Answerings
  <2>1. est' # "E_PT" /\ dem' = Cache!DemandLeft
    BY <1>4, FromAnswering DEF CInv, Answerings, Readings, Writings
  <2> QED
    BY <1>4, <2>1, QuietDemand DEF Answerings, Readings, Writings
<1> QED
  BY <1>1, <1>2, <1>3, <1>4, DemandFromDecide, DemandFromFetch, DemandFromPassing
     DEF EngStates, Answerings, Readings, Writings

\* A session's words are counted.
LEMMA SessionCounts ==
    ASSUME CInv, HpsGoes, hps'.on
    PROVE  \/ /\ hps.on /\ hps'.slot = hps.slot /\ (hps'.wr <=> hps.wr) /\ hps'.lba = hps.lba
              /\ hps'.n = hps.n /\ hps'.k \in 0..(hps'.n * WORDS)
              /\ hps'.strobe => hps'.k > 0 /\ ~hps'.wr
           \/ /\ ~hps.on /\ c.st = "C_REQ"
              /\ hps'.slot = c.slot /\ (hps'.wr <=> c.wr) /\ hps'.lba = c.lba /\ hps'.n = Length(c)
              /\ hps'.k \in 0..(hps'.n * WORDS) /\ hps'.k <= 1 /\ (hps'.wr => hps'.k = 0)
              /\ hps'.strobe => hps'.k > 0 /\ ~hps'.wr
<1>1. hps \in SessionKind /\ c \in TransactionKind
  BY DEF CInv, KindInv, SessionKind
<1>2. /\ GROUP \in Nat \ {0} /\ WORDS \in Nat \ {0, 1}
  BY Geometry
<1>3. hps.on => hps.k \in 0..(hps.n * WORDS) /\ (hps.strobe => hps.k > 0 /\ ~hps.wr)
  BY DEF CInv, HpsInv
<1>4. hps.n * WORDS \in Nat /\ hps.k \in Nat
  BY <1>1, <1>2 DEF SessionKind
<1>5. CASE /\ ~hps.on /\ c.st = "C_REQ"
           /\ \E now \in BOOLEAN :
                 /\ now => ~c.wr
                 /\ hps' = [on |-> TRUE, slot |-> c.slot, wr |-> c.wr, lba |-> c.lba,
                            n |-> Length(c), k |-> IF now THEN 1 ELSE 0, strobe |-> now]
  <2>1. PICK now \in BOOLEAN :
           /\ now => ~c.wr
           /\ hps' = [on |-> TRUE, slot |-> c.slot, wr |-> c.wr, lba |-> c.lba,
                      n |-> Length(c), k |-> IF now THEN 1 ELSE 0, strobe |-> now]
    BY <1>5
  <2>2. Length(c) * WORDS \in Nat /\ Length(c) * WORDS >= 1
    <3>1. Length(c) \in Nat \ {0}
      BY <1>2 DEF Length
    <3> QED
      BY <1>2, <3>1
  <2>3. /\ hps'.slot = c.slot /\ hps'.wr = c.wr /\ hps'.lba = c.lba /\ hps'.n = Length(c)
        /\ hps'.k = (IF now THEN 1 ELSE 0) /\ hps'.strobe = now
    BY <2>1
  <2> QED
    BY <1>5, <2>1, <2>2, <2>3
<1>6. CASE hps.on /\ ~hps.wr /\ hps.k < Total /\ hps' = [hps EXCEPT !.k = @ + 1, !.strobe = TRUE]
  <2>1. /\ hps'.slot = hps.slot /\ hps'.wr = hps.wr /\ hps'.lba = hps.lba /\ hps'.n = hps.n
        /\ hps'.k = hps.k + 1
    BY <1>1, <1>6 DEF SessionKind
  <2> QED
    BY <1>4, <1>6, <2>1 DEF Total
<1>7. CASE hps.on /\ hps.wr /\ hps.k < Total /\ c.st = "C_XFER" /\ hps' = [hps EXCEPT !.k = @ + 1]
  <2>1. /\ hps'.slot = hps.slot /\ hps'.wr = hps.wr /\ hps'.lba = hps.lba /\ hps'.n = hps.n
        /\ hps'.k = hps.k + 1 /\ hps'.strobe = hps.strobe
    BY <1>1, <1>7 DEF SessionKind
  <2> QED
    BY <1>3, <1>4, <1>7, <2>1 DEF Total
<1>8. CASE hps' = NoSession
  BY <1>8 DEF NoSession
<1>9. CASE hps' = [hps EXCEPT !.strobe = FALSE]
  <2>1. /\ hps'.slot = hps.slot /\ hps'.wr = hps.wr /\ hps'.lba = hps.lba /\ hps'.n = hps.n
        /\ hps'.k = hps.k /\ (hps'.on <=> hps.on) /\ ~hps'.strobe
    BY <1>1, <1>9 DEF SessionKind
  <2> QED
    BY <1>3, <1>4, <2>1
<1> QED
  BY <1>5, <1>6, <1>7, <1>8, <1>9 DEF HpsGoes

LEMMA HpsStep ==
    ASSUME CInv, NEW mount, NEW blocks \in Nat, NEW nreset, NEW rst, Steps(mount, blocks, nreset, rst)
    PROVE  HpsInv'
<1>1. HpsGoes /\ hps \in SessionKind /\ c \in TransactionKind /\ c' \in TransactionKind
  BY KindStep DEF Steps, CInv, KindInv, SessionKind
<1>2. /\ ~hps.on => hps = NoSession
      /\ hps.on => /\ c.st # "C_IDLE"
                   /\ hps.slot = c.slot /\ (hps.wr <=> c.wr) /\ hps.lba = c.lba /\ hps.n = Length(c)
      /\ c.st # "C_IDLE" /\ c.grp => c.idx % GROUP = 0
  BY DEF CInv, HpsInv
<1>3. c.st # "C_IDLE" =>
         \/ /\ c'.st = (IF hps.on THEN "C_XFER" ELSE "C_REQ")
            /\ c'.wr = c.wr /\ c'.pt = c.pt /\ c'.slot = c.slot /\ c'.idx = c.idx
            /\ c'.grp = c.grp /\ c'.base = c.base /\ c'.lba = c.lba
            /\ ~hps.on => c.st = "C_REQ"
         \/ c.st = "C_XFER" /\ ~hps.on /\ c'.st = "C_IDLE"
  BY GoneOn DEF CInv
<1>4. c.st = "C_IDLE" => c' = c \/ (c'.st = "C_REQ" /\ (c'.grp => c'.idx % GROUP = 0))
  BY Begun DEF CInv
<1>5. ~hps'.on => hps' = NoSession
  <2>1. CASE hps' = [hps EXCEPT !.strobe = FALSE]
    <3>1. ~hps'.on => ~hps.on
      BY <1>1, <2>1 DEF SessionKind
    <3>2. ASSUME hps = NoSession
          PROVE  hps' = NoSession
      <4>1. NoSession.strobe = FALSE /\ NoSession = [NoSession EXCEPT !.strobe = NoSession.strobe]
        BY DEF NoSession
      <4> QED
        BY <2>1, <3>2, <4>1
    <3> QED
      BY <1>2, <2>1, <3>1, <3>2
  <2>2. CASE hps' # [hps EXCEPT !.strobe = FALSE]
    <3>1. ASSUME NEW now \in BOOLEAN,
                 hps' = [on |-> TRUE, slot |-> c.slot, wr |-> c.wr, lba |-> c.lba,
                         n |-> Length(c), k |-> IF now THEN 1 ELSE 0, strobe |-> now]
          PROVE  hps'.on
      BY <3>1
    <3>2. ASSUME hps.on, hps' = [hps EXCEPT !.k = @ + 1, !.strobe = TRUE]
          PROVE  hps'.on
      BY <1>1, <3>2 DEF SessionKind
    <3>3. ASSUME hps.on, hps' = [hps EXCEPT !.k = @ + 1]
          PROVE  hps'.on
      BY <1>1, <3>3 DEF SessionKind
    <3> QED
      BY <1>1, <2>2, <3>1, <3>2, <3>3 DEF HpsGoes
  <2> QED
    BY <2>1, <2>2
<1>6. hps'.on =>
         /\ c'.st # "C_IDLE"
         /\ hps'.slot = c'.slot /\ hps'.wr = c'.wr /\ hps'.lba = c'.lba /\ hps'.n = Length(c')
         /\ hps'.k \in 0..(hps'.n * WORDS)
         /\ hps'.strobe => hps'.k > 0 /\ ~hps'.wr
         /\ c'.st = "C_REQ" => hps'.k <= 1 /\ (hps'.wr => hps'.k = 0)
  <2>1. SUFFICES ASSUME hps'.on
                 PROVE  /\ c'.st # "C_IDLE"
                        /\ hps'.slot = c'.slot /\ hps'.wr = c'.wr /\ hps'.lba = c'.lba /\ hps'.n = Length(c')
                        /\ hps'.k \in 0..(hps'.n * WORDS)
                        /\ hps'.strobe => hps'.k > 0 /\ ~hps'.wr
                        /\ c'.st = "C_REQ" => hps'.k <= 1 /\ (hps'.wr => hps'.k = 0)
    OBVIOUS
  <2>2. CASE hps.on
    <3>1. /\ c'.st = "C_XFER" /\ c'.slot = c.slot /\ c'.wr = c.wr /\ c'.lba = c.lba /\ c'.grp = c.grp
      BY <1>2, <1>3, <2>2
    <3>2. /\ hps'.slot = hps.slot /\ (hps'.wr <=> hps.wr) /\ hps'.lba = hps.lba
          /\ hps'.n = hps.n /\ hps'.k \in 0..(hps'.n * WORDS)
          /\ hps'.strobe => hps'.k > 0 /\ ~hps'.wr
      BY <1>1, <2>1, <2>2, SessionCounts
    <3>3. Length(c') = Length(c)
      BY <3>1 DEF Length
    <3>4. hps'.wr \in BOOLEAN /\ c'.wr \in BOOLEAN
      BY <1>1, SessionKindStep DEF SessionKind, TransactionKind
    <3> QED
      BY <1>2, <2>2, <3>1, <3>2, <3>3, <3>4
  <2>3. CASE ~hps.on
    <3>1. /\ c.st = "C_REQ"
          /\ hps'.slot = c.slot /\ (hps'.wr <=> c.wr) /\ hps'.lba = c.lba /\ hps'.n = Length(c)
          /\ hps'.k \in 0..(hps'.n * WORDS) /\ hps'.k <= 1 /\ (hps'.wr => hps'.k = 0)
          /\ hps'.strobe => hps'.k > 0 /\ ~hps'.wr
      BY <1>1, <2>1, <2>3, SessionCounts
    <3>2. /\ c'.st = "C_REQ" /\ c'.slot = c.slot /\ c'.wr = c.wr /\ c'.lba = c.lba /\ c'.grp = c.grp
      BY <1>3, <2>3, <3>1
    <3>3. Length(c') = Length(c)
      BY <3>2 DEF Length
    <3>4. hps'.wr \in BOOLEAN /\ c'.wr \in BOOLEAN
      BY <1>1, SessionKindStep DEF SessionKind, TransactionKind
    <3> QED
      BY <3>1, <3>2, <3>3, <3>4
  <2> QED
    BY <2>2, <2>3
<1>7. p_ack_d' = IF c'.st = "C_XFER" THEN {c'.slot} ELSE {}
  <2>1. p_ack_d' = IF hps.on THEN {c.slot} ELSE {}
    BY ChannelGoes DEF CInv
  <2>2. c.st \in {"C_IDLE", "C_REQ", "C_XFER"}
    BY <1>1 DEF TransactionKind
  <2>3. hps.on => c'.st = "C_XFER" /\ c'.slot = c.slot
    BY <1>2, <1>3
  <2>4. ~hps.on => c'.st # "C_XFER"
    BY <1>3, <1>4, <2>2
  <2> QED
    BY <2>1, <2>3, <2>4
<1>8. c'.st # "C_IDLE" /\ c'.grp => c'.idx % GROUP = 0
  <2>1. CASE c.st = "C_IDLE"
    BY <1>4, <2>1
  <2>2. CASE c.st # "C_IDLE"
    <3>1. c'.st # "C_IDLE" => c'.idx = c.idx /\ c'.grp = c.grp
      BY <1>3, <2>2
    <3> QED
      BY <1>2, <2>2, <3>1
  <2> QED
    BY <2>1, <2>2
<1> QED
  BY <1>5, <1>6, <1>7, <1>8 DEF HpsInv, Length

LEMMA WindowStep ==
    ASSUME CInv, NEW mount, NEW blocks \in Nat, NEW nreset, NEW rst, Steps(mount, blocks, nreset, rst)
    PROVE  WindowInv'
<1> DEFINE in == Inputs(mount, blocks, nreset)
<1>0. in = Inputs(mount, blocks, nreset)
  OBVIOUS
<1> HIDE DEF in
<1>1. SUFFICES ASSUME NEW s \in Slots
               PROVE  /\ win'[s].dirty \subseteq win'[s].valid
                      /\ win'[s].dirty # {} => win'[s].ok
                      /\ win'[s].ok => win'[s].mounted
  BY DEF WindowInv
<1>2. /\ win[s].dirty \subseteq win[s].valid /\ (win[s].dirty # {} => win[s].ok)
      /\ win[s].ok => win[s].mounted
  BY DEF CInv, WindowInv
<1>3. CASE s \in mount
  BY <1>2, <1>3, WindowMounted DEF CInv
<1>4. CASE s \notin mount /\ Rebased(s)
  <2>1. win[s].mounted
    <3>1. busy[r.slot] /\ r.slot = s
      BY <1>4 DEF Rebased, CInv, EngineInv
    <3> QED
      BY <3>1 DEF CInv, PortInv
  <2> QED
    BY <1>0, <1>4, <2>1, WindowGoes DEF CInv
<1>5. CASE s \notin mount /\ ~Rebased(s)
  <2>1. /\ win'[s].mounted = win[s].mounted
        /\ win'[s].ok <=> win[s].ok /\ ~Cache!DropsWindow(in, s)
    BY <1>0, <1>5, WindowGoes DEF CInv
  <2>2. win'[s].dirty \subseteq win[s].dirty \cup Own(s)
    BY DirtyGoes DEF CInv
  <2>3. Own(s) # {} => win[s].ok
    <3>1. Own(s) # {} => est \in Answerings /\ r.slot = s
      BY DEF Own, Cache!Written, Answerings, Writings
    <3>2. est \in Answerings => win[r.slot].ok
      BY DEF CInv, EngineInv, Cache!RInWin, Cache!R
    <3> QED
      BY <3>1, <3>2
  <2>4. CASE Cache!DropsWindow(in, s)
    <3>1. win[s].dirty = {} /\ Own(s) = {}
      BY <2>4 DEF Cache!DropsWindow, Cache!PassesThrough, Cache!R, Own, Cache!Written, Cache!Deciding
    <3> QED
      BY <2>1, <2>2, <2>4, <3>1
  <2>5. CASE ~Cache!DropsWindow(in, s)
    <3>1. win[s].valid \cup Own(s) \subseteq win'[s].valid
      BY <1>0, <1>5, <2>5, ValidGoes DEF CInv
    <3> QED
      BY <1>2, <2>1, <2>2, <2>3, <2>5, <3>1
  <2> QED
    BY <2>4, <2>5
<1> QED
  BY <1>3, <1>4, <1>5

\* No transaction begins where the engine writes.
LEMMA WrittenIsLeftAlone ==
    ASSUME CInv, est \notin {"E_PT", "E_FETCH"}, c.st = "C_IDLE",
           NEW mount, NEW blocks \in Nat, NEW nreset, NEW rst, Steps(mount, blocks, nreset, rst),
           NEW in, in = Inputs(mount, blocks, nreset),
           Cache!EWriting(in), c'.st # "C_IDLE", c'.slot = r.slot
    PROVE  Cache!RIdx \notin Cache!Covered'
<1>1. ~dem.req
  BY DEF CInv, DemandInv
<1>2. IsFlush(in) \/ IsPrefetch(in)
  <2>1. c' = c \/ IsDemand \/ IsFlush(in) \/ IsPrefetch(in)
    BY Begun DEF CInv
  <2> QED
    BY <1>1, <2>1 DEF IsDemand
<1>3. ~IsPrefetch(in)
  BY PrefetchIs DEF CInv
<1>4. fl.slot = r.slot /\ fl.idx \in Cache!Sectors
  BY <1>2, <1>3 DEF IsFlush, CInv, KindInv
<1>5. CASE c'.grp
  <2>1. Cache!FlGrp(in) /\ c'.idx = Cache!GroupBase(fl.idx)
    BY <1>2, <1>3, <1>5 DEF IsFlush
  <2>2. Cache!Covered' = Cache!InGroup(fl.idx)
    <3>1. Cache!Covered' = Cache!InGroup(c'.idx)
      BY <1>5 DEF Cache!Covered, Cache!InGroup
    <3> QED
      BY <1>4, <2>1, <3>1, SectorIs
  <2> QED
    BY <1>4, <2>1, <2>2 DEF Cache!FlGrp
<1>6. CASE ~c'.grp
  <2>1. Cache!FlOne(in) /\ c'.idx = fl.idx
    BY <1>2, <1>3, <1>6 DEF IsFlush
  <2>2. Cache!Covered' = {fl.idx}
    BY <1>6, <2>1 DEF Cache!Covered
  <2> QED
    BY <1>4, <2>1, <2>2 DEF Cache!FlOne
<1> QED
  BY <1>5, <1>6

LEMMA WriteStep ==
    ASSUME CInv, NEW mount, NEW blocks \in Nat, NEW nreset, NEW rst, Steps(mount, blocks, nreset, rst)
    PROVE  WriteInv'
<1> DEFINE in == Inputs(mount, blocks, nreset)
<1>0. in = Inputs(mount, blocks, nreset)
  OBVIOUS
<1> HIDE DEF in
<1>1. SUFFICES ASSUME c'.st # "C_IDLE", ~c'.pt, r'.slot = c'.slot,
                      est' \in Writings \/ (est' = "E_DONE" /\ r'.wr)
               PROVE  Cache!RIdx' \notin Cache!Covered'
  BY DEF WriteInv
<1>2. /\ r'.slot = r.slot /\ r'.lba = r.lba /\ est # "E_IDLE" /\ est # "E_REBASE"
      /\ ~Cache!PassesThrough(in)
      /\ \/ est \in Writings
         \/ est = "E_DECIDE" /\ ~bypass /\ Cache!RInWin /\ r.wr /\ ~Cache!ChBusyMe
  <2>1. CASE est = "E_IDLE"
    BY <1>1, <2>1, FromIdle DEF CInv, Writings
  <2>2. CASE est = "E_DECIDE"
    <3>1. /\ r' = r
          /\ \/ est' \in {"E_FLUSHALL", "E_PT", "E_RD_A", "E_FETCH", "E_DECIDE"}
             \/ est' = "E_WR_A" /\ ~bypass /\ Cache!RInWin /\ r.wr /\ ~Cache!ChBusyMe
          /\ ~Cache!PassesThrough(in) \/ est' = "E_PT"
      BY <1>0, <2>2, FromDecide DEF CInv
    <3> QED
      BY <1>1, <2>2, <3>1 DEF Writings
  <2>3. CASE est \in {"E_FLUSHALL", "E_REBASE", "E_FETCH", "E_PT"}
    BY <1>1, <2>3, FromSettling DEF CInv, Writings
  <2>4. CASE est \in Answerings
    <3>1. /\ est \in Readings => est' \in Readings \cup {"E_DONE"} /\ r'.wr = r.wr /\ ~r.wr
          /\ est = "E_DONE" => est' = "E_IDLE"
      BY <2>4, FromAnswering DEF CInv, EngineInv, Answerings, Readings, Writings
    <3>2. est \in Writings => r'.slot = r.slot /\ r'.lba = r.lba
      BY <2>4, FromAnswering DEF CInv, Answerings, Readings, Writings
    <3>3. ~Cache!PassesThrough(in)
      BY <2>4 DEF Cache!PassesThrough, Cache!Deciding, Answerings, Readings, Writings
    <3> QED
      BY <1>1, <2>4, <3>1, <3>2, <3>3 DEF Answerings, Readings, Writings
  <2>5. est \in EngStates
    BY DEF CInv, KindInv
  <2> QED
    BY <2>1, <2>2, <2>3, <2>4, <2>5 DEF EngStates, Answerings, Readings, Writings
<1>3. Cache!RIdx' = Cache!RIdx
  BY <1>0, <1>2, RequestStays
<1>4. CASE c.st = "C_IDLE"
  <2>1. Cache!EWriting(in)
    BY <1>0, <1>2, InputsAre DEF Cache!EWriting, Cache!RPt, Writings
  <2>2. est \notin {"E_PT", "E_FETCH"}
    BY <1>2 DEF Writings
  <2> QED
    BY <1>0, <1>1, <1>2, <1>3, <1>4, <2>1, <2>2, WrittenIsLeftAlone
<1>5. CASE c.st # "C_IDLE"
  <2>1. Cache!Covered' = Cache!Covered /\ c'.slot = c.slot /\ c'.pt = c.pt
    BY <1>1, <1>5, CoveredStays
  <2>2. CASE est \in Writings
    BY <1>1, <1>2, <1>3, <1>5, <2>1, <2>2 DEF CInv, WriteInv
  <2>3. CASE ~Cache!ChBusyMe
    BY <1>1, <1>2, <1>3, <1>5, <2>1, <2>3 DEF Cache!ChBusyMe
  <2> QED
    BY <1>2, <2>2, <2>3
<1> QED
  BY <1>4, <1>5

\* What a demand fetches is neither valid nor dirty, its group included.
LEMMA DemandFetches ==
    ASSUME CInv, IsDemand, ~c'.pt
    PROVE  /\ est = "E_FETCH" /\ c'.slot = r.slot /\ ~c'.wr /\ r.slot \in Slots
           /\ Cache!Covered' \cap win[r.slot].dirty = {}
           /\ Cache!RIdx \in Cache!Covered' /\ (c'.grp <=> dem.grp)
           /\ dem.grp => Cache!Covered' = Cache!InGroup(Cache!RIdx)
           /\ ~dem.grp => Cache!Covered' = {Cache!RIdx}
<1>1. /\ dem.req /\ ~dem.pt /\ c'.slot = r.slot /\ (c'.wr <=> dem.wr) /\ (c'.grp <=> dem.grp)
      /\ c'.idx = IF dem.grp THEN Cache!GroupBase(dem.idx) ELSE dem.idx
  BY DEF IsDemand
<1>2. /\ est = "E_FETCH" /\ ~dem.wr /\ dem.idx = Cache!RIdx /\ Cache!RIdx \notin Cache!R.valid
      /\ dem.grp => Cache!InGroup(Cache!RIdx) \cap Cache!R.dirty = {}
  BY <1>1 DEF CInv, DemandInv
<1>3. Cache!RIdx \in Cache!Sectors /\ r.slot \in Slots
  BY IdxIs DEF CInv, KindInv
<1>4. Cache!RIdx \notin Cache!R.dirty
  BY <1>2, <1>3 DEF CInv, WindowInv, Cache!R
<1>5. CASE dem.grp
  <2>1. Cache!Covered' = Cache!InGroup(c'.idx)
    BY <1>1, <1>5 DEF Cache!Covered, Cache!InGroup
  <2>2. Cache!Covered' = Cache!InGroup(Cache!RIdx) /\ Cache!RIdx \in Cache!InGroup(Cache!RIdx)
    BY <1>1, <1>2, <1>3, <1>5, <2>1, SectorIs
  <2> QED
    BY <1>1, <1>2, <1>3, <1>5, <2>2 DEF Cache!R
<1>6. CASE ~dem.grp
  <2>1. Cache!Covered' = {Cache!RIdx}
    BY <1>1, <1>2, <1>6 DEF Cache!Covered
  <2> QED
    BY <1>1, <1>2, <1>3, <1>4, <1>6, <2>1 DEF Cache!R
<1> QED
  BY <1>5, <1>6

LEMMA FetchStep ==
    ASSUME CInv, NEW mount, NEW blocks \in Nat, NEW nreset, NEW rst, Steps(mount, blocks, nreset, rst)
    PROVE  FetchInv'
<1> DEFINE in == Inputs(mount, blocks, nreset)
<1>0. in = Inputs(mount, blocks, nreset)
  OBVIOUS
<1> HIDE DEF in
<1>1. SUFFICES ASSUME c'.st # "C_IDLE", ~c'.pt, ~c'.wr, win'[c'.slot].ok
               PROVE  Cache!Covered' \cap win'[c'.slot].dirty = {}
  BY DEF FetchInv
<1>2. CASE c.st # "C_IDLE"
  <2> DEFINE s == c.slot
  <2>1. /\ Cache!Covered' = Cache!Covered /\ c'.slot = s /\ ~c.wr /\ ~c.pt /\ s \in Slots
    BY <1>1, <1>2, CoveredStays DEF CInv, KindInv, TransactionKind
  <2> HIDE DEF s
  <2>2. win[s].ok => Cache!Covered \cap win[s].dirty = {}
    BY <1>2, <2>1 DEF CInv, FetchInv, s
  <2>3. CASE s \in mount
    BY <1>1, <2>1, <2>2, <2>3, WindowMounted DEF CInv
  <2>4. CASE s \notin mount /\ Rebased(s)
    <3>1. win'[s].dirty = {}
      BY <1>0, <2>1, <2>4, WindowGoes DEF CInv
    <3> QED
      BY <2>1, <3>1
  <2>5. CASE s \notin mount /\ ~Rebased(s)
    <3>1. win[s].ok
      BY <1>0, <1>1, <2>1, <2>5, WindowGoes DEF CInv
    <3>2. win'[s].dirty \subseteq win[s].dirty \cup Own(s)
      BY <2>1, DirtyGoes DEF CInv
    <3>3. Cache!Covered \cap Own(s) = {}
      BY <1>2, <2>1 DEF Own, Cache!Written, CInv, WriteInv, Writings, s
    <3> QED
      BY <2>1, <2>2, <3>1, <3>2, <3>3
  <2> QED
    BY <2>3, <2>4, <2>5
<1>3. CASE c.st = "C_IDLE"
  <2>1. IsDemand \/ IsPrefetch(in)
    <3>1. c' = c \/ IsDemand \/ IsFlush(in) \/ IsPrefetch(in)
      BY <1>0, <1>3, Begun DEF CInv
    <3> QED
      BY <1>1, <1>3, <3>1 DEF IsFlush
  <2>2. CASE IsDemand
    <3>1. /\ est = "E_FETCH" /\ c'.slot = r.slot /\ r.slot \in Slots
          /\ Cache!Covered' \cap win[r.slot].dirty = {}
      BY <1>1, <2>2, DemandFetches
    <3>2. Own(r.slot) = {}
      BY <3>1 DEF Own, Cache!Written
    <3>3. win'[r.slot].dirty \subseteq win[r.slot].dirty \cup Own(r.slot)
      BY <3>1, DirtyGoes DEF CInv
    <3> QED
      BY <3>1, <3>2, <3>3
  <2>3. CASE IsPrefetch(in)
    <3>1. /\ pf.slot \in Slots /\ c'.slot = pf.slot
          /\ Cache!Covered' \cap win[pf.slot].dirty = {}
          /\ ~(Cache!EWriting(in) /\ pf.slot = r.slot)
      BY <2>3, PrefetchIs DEF CInv
    <3>2. Own(pf.slot) = {}
      BY <3>1 DEF Own, Cache!Written, Cache!EWriting
    <3>3. win'[pf.slot].dirty \subseteq win[pf.slot].dirty \cup Own(pf.slot)
      BY <3>1, DirtyGoes DEF CInv
    <3> QED
      BY <3>1, <3>2, <3>3
  <2> QED
    BY <2>1, <2>2, <2>3
<1> QED
  BY <1>2, <1>3

-----------------------------------------------------------------------------
(* The theorems of the control.                                            *)

LEMMA CInit ==
    ASSUME Init, Calm
    PROVE  CInv
<1>1. /\ 0 \in Slots /\ 0 \in Cache!Sectors /\ Cache!Groups \in Nat \ {0} /\ Cache!Slots = Slots
  BY Geometry DEF Cache!Slots, Slots
<1>2. /\ win = [s \in Slots |-> Cache!NoWindow] /\ est = "E_IDLE" /\ e_ack = {} /\ p_ack_d = {}
      /\ c = Cache!NoTransaction /\ r = Cache!NoRequest /\ dem = Cache!NoDemand
      /\ pf = Cache!NoPrefetch /\ fl = [slot |-> 0, idx |-> 0]
      /\ io = [s \in Slots |-> "none"] /\ busy = [s \in Slots |-> FALSE]
      /\ lba = [s \in Slots |-> 0] /\ writing = [s \in Slots |-> FALSE] /\ old_io_ack = {}
      /\ hps = NoSession /\ guest \in Guests /\ bypass = FALSE
  BY <1>1 DEF Init, Cache!Init
<1>3. /\ Cache!NoWindow \in Windows /\ Cache!NoTransaction \in TransactionKind
      /\ Cache!NoRequest \in RequestKind /\ Cache!NoDemand \in DemandKind /\ NoSession \in SessionKind
      /\ Cache!NoPrefetch \in [slot : Slots, grp : 0..(Cache!Groups - 1), left : Nat]
      /\ fl \in [slot : Slots, idx : Cache!Sectors]
  BY <1>1, <1>2 DEF Cache!NoWindow, Windows, Cache!NoTransaction, TransactionKind, Cache!NoRequest,
       RequestKind, Cache!NoDemand, DemandKind, NoSession, SessionKind, Cache!NoPrefetch
<1>4. /\ ~Cache!NoWindow.ok /\ Cache!NoWindow.dirty = {} /\ Cache!NoTransaction.st = "C_IDLE"
      /\ ~Cache!NoDemand.req /\ ~NoSession.on
  BY DEF Cache!NoWindow, Cache!NoTransaction, Cache!NoDemand, NoSession
<1>5. KindInv
  BY <1>2, <1>3 DEF KindInv, EngStates, RequestKind, DemandKind, SessionKind
<1>6. PortInv
  BY <1>2 DEF PortInv
<1>7. EngineInv /\ DemandInv
  BY <1>2, <1>4 DEF EngineInv, DemandInv, Answerings, Readings, Writings
<1>8. HpsInv
  BY <1>2, <1>4 DEF HpsInv
<1>9. WindowInv
  <2>1. \A s \in Slots : win[s] = Cache!NoWindow
    BY <1>2
  <2> QED
    BY <1>4, <2>1 DEF WindowInv
<1>10. FetchInv /\ WriteInv
  BY <1>2, <1>4 DEF FetchInv, WriteInv
<1> QED
  BY <1>5, <1>6, <1>7, <1>8, <1>9, <1>10 DEF CInv

LEMMA CNext ==
    ASSUME CInv, ~DemandRace, [Next]_vars
    PROVE  CInv'
<1>1. CASE Next
  <2>1. PICK mount \in SUBSET Slots, blocks \in Nat, nreset \in BOOLEAN, rst \in BOOLEAN :
           Steps(mount, blocks, nreset, rst)
    BY <1>1, NextSteps DEF CInv
  <2> QED
    BY <2>1, KindStep, PortStep, EngineStep, DemandStep, HpsStep, WindowStep, FetchStep, WriteStep DEF CInv
<1>2. CASE UNCHANGED vars
  BY <1>2 DEF vars, Cache!cacheVars, Port!portVars, CInv, KindInv, Calm, PortInv, EngineInv, DemandInv,
     HpsInv, WindowInv, FetchInv, WriteInv, Cache!R, Cache!RIdx, Cache!RInWin, Cache!Covered,
     Cache!InGroup, Length
<1> QED
  BY <1>1, <1>2

(* While no demand meets a prefetch of its own group, the engine, the      *)
(* channel and hps_io agree on whom they work for.                         *)
THEOREM ControlInvariant == Spec /\ Calm /\ []~DemandRace => []CInv
<1>1. Init /\ Calm => CInv
  BY CInit
<1>2. CInv /\ ~DemandRace /\ [Next]_vars => CInv'
  BY CNext
<1> QED
  BY <1>1, <1>2, PTL DEF Spec

(* The engine's and the platform's side of sgi_scsi's store keep out of    *)
(* each other's way: no fetch lands on a dirty sector and no transaction   *)
(* touches the sector being written.                                       *)
THEOREM SidesApartTheorem == Spec /\ Calm /\ []~DemandRace => []SidesApart
<1>1. CInv => SidesApart
  BY DEF CInv, FetchInv, WriteInv, SidesApart, Writings
<1> QED
  BY <1>1, ControlInvariant, PTL

-----------------------------------------------------------------------------
(* The data.                                                               *)

\* Only discs are exchanged, for discs no smaller than what is asked for.
Discs == "swap" \in guest.events => guest.writers = {} /\ guest.lbas \subseteq 0..(NewSize - 1)

Ending(s) == Port!Ends(s, e_ack)

\* What is Watch's version in the cache or else in the image: a write's, once
\* it is done, even though the guest has not heard of it.
Pending == WritingWatch /\ (est = "E_DONE" \/ Ending(0))
Version == IF Pending THEN Newer(cur) ELSE cur
Content(s, l) == IF Watched(s, l) THEN Version ELSE Other(s)

\* What a target writes, and what one that reads is to get.
Offered(s) == IF Watched(s, lba[s]) THEN Newer(cur) ELSE Other(s)
Wanted(s) == IF Watched(s, lba[s]) THEN cur ELSE Other(s)

\* The store and a target's buffer with the words that are on their way.
Stored(s, i, w) ==
    IF wr_q.on /\ wr_q.slot = s /\ wr_q.idx = i /\ wr_q.word = w THEN wr_q.data
    ELSE store[s][i][w]
Held(s, w) == IF e_buff.wr /\ e_buff.addr = w THEN e_buff.dout ELSE sd_buff[s][w]
Got(w) == Held(r.slot, w) = Wanted(r.slot)

BeingWritten(s, i) == est \in Writings /\ r.slot = s /\ Cache!RIdx = i

\* The words of a fetch that are in the store.
Arrived == hps.k - (IF hps.strobe THEN 1 ELSE 0)

\* Dirty sectors and prefetched groups are the image's, and only who writes
\* has dirty sectors.
GuestInv ==
    /\ Discs
    /\ \A s \in Slots \ guest.writers : win[s].dirty = {}
    /\ \A s \in Slots : win[s].mounted =>
          win[s].size = Size \/ (s = 0 /\ "swap" \in guest.events /\ win[s].size = NewSize)
    /\ \A s \in Slots : win[s].ok =>
          /\ win[s].lim > 0 => win[s].base + win[s].lim * GROUP <= win[s].size
          /\ \A i \in win[s].dirty : win[s].base + i < win[s].size

\* A transaction is for the window it began in, while that is there; what it
\* flushes stays dirty, and a write that has just ended is flushed by a later
\* one or one that has not begun to.
ChannelInv ==
    /\ c.st # "C_IDLE" /\ ~c.pt => c.lba = c.base + c.idx
    /\ c.st # "C_IDLE" /\ ~c.pt /\ win[c.slot].ok =>
          c.base = win[c.slot].base /\ c.lba + Length(c) <= win[c.slot].size
    /\ c.st # "C_IDLE" /\ ~c.pt /\ c.wr =>
          /\ c.slot \in guest.writers /\ win[c.slot].ok /\ Cache!Covered \subseteq win[c.slot].dirty
          /\ Ending(c.slot) /\ writing[c.slot] /\ lba[c.slot] - win[c.slot].base \in Cache!Covered
                => c.st = "C_REQ"

\* A sector passes the cache when its window is gone; another one is fetched
\* into its window.
PassInv ==
    /\ est = "E_PT" => ~Cache!R.ok
    /\ est = "E_FETCH" => Cache!RInWin
    /\ dem.req /\ dem.pt => ~dem.grp /\ e_ack = {}
    /\ dem.req /\ dem.grp => Cache!RIdx \div GROUP < Cache!R.lim
    /\ c.st # "C_IDLE" /\ c.pt => /\ c.lba = r.lba /\ ~c.grp
                                  /\ e_ack = IF c.st = "C_XFER" THEN {r.slot} ELSE {}

\* A target's buffer holds what it writes until the write is answered, and the
\* engine puts it into the store word by word.
BufferInv ==
    /\ DOMAIN e_buff = {"wr", "addr", "dout"} /\ \A s \in Slots : DOMAIN sd_buff[s] = Words
    /\ \A s \in Slots : busy[s] /\ writing[s] => \A w \in Words : sd_buff[s][w] = Offered(s)
    /\ e_buff.wr => est \in {"E_RD_A", "E_DONE", "E_PT"} /\ ~r.wr
    /\ wr_q.on => /\ est \in {"E_WR_A", "E_DONE"} /\ r.wr
                  /\ wr_q.slot = r.slot /\ wr_q.idx = Cache!RIdx
    /\ est \in Writings => \A w \in 0..(r.word - 1) : Stored(r.slot, Cache!RIdx, w) = Offered(r.slot)

\* What is valid is what the guest wrote last, if dirty, or else the image's.
StoreInv ==
    \A s \in Slots : win[s].ok => \A i \in win[s].valid : ~BeingWritten(s, i) =>
        \A w \in Words :
            Stored(s, i, w) = IF i \in win[s].dirty THEN Content(s, win[s].base + i)
                              ELSE DiskWord(s, win[s].base + i, w)
ImageInv ==
    /\ DOMAIN disk = Words
    /\ ~WatchDirty /\ ~(est = "E_PT" /\ WritingWatch) => \A w \in Words : disk[w] = Version

\* The words of Watch that hps_io has taken are in the image, those of a fetch
\* are in the store.
TransferInv ==
    /\ c.st = "C_XFER" /\ c.wr =>
          \A k \in 0..((IF hps.on THEN hps.k ELSE Length(c) * WORDS) - 1) :
              Watched(c.slot, c.lba + Block(k)) =>
                  disk[WordAt(k)] = IF c.pt THEN Newer(cur) ELSE cur
    /\ hps.on /\ ~c.pt /\ ~c.wr /\ win[c.slot].ok =>
          \A k \in 0..(Arrived - 1) :
              store[c.slot][c.idx + Block(k)][WordAt(k)] = DiskWord(c.slot, c.lba + Block(k), WordAt(k))

\* A target that reads gets what it is to get, word by word.
ReadInv ==
    /\ est \in Readings => Cache!RIdx \in Cache!R.valid /\ \A w \in 0..(r.word - 1) : Got(w)
    /\ est = "E_RD_C" => q_a = Wanted(r.slot)
    /\ est = "E_DONE" /\ ~r.wr => \A w \in Words : Got(w)
    /\ est = "E_PT" /\ c.st # "C_IDLE" /\ c.pt /\ ~r.wr =>
          \A w \in 0..((IF hps.on THEN Arrived ELSE IF c.st = "C_XFER" THEN WORDS ELSE 0) - 1) : Got(w)
    /\ \A s \in Slots : Ending(s) /\ ~writing[s] => \A w \in Words : sd_buff[s][w] = Wanted(s)

DInv == GuestInv /\ ChannelInv /\ PassInv /\ BufferInv /\ StoreInv /\ ImageInv /\ TransferInv /\ ReadInv
IInv == CInv /\ DInv

-----------------------------------------------------------------------------
(* What a clock does to the data.                                          *)

\* No sector ends while the engine is at work, and only the answered one does.
LEMMA EndsAtRest ==
    ASSUME CInv, est # "E_IDLE"
    PROVE  /\ \A s \in Slots : ~Ending(s)
           /\ \A s \in Slots : busy[s] => s = r.slot
           /\ busy[r.slot] /\ lba[r.slot] = r.lba /\ (writing[r.slot] <=> r.wr) /\ r.slot \in Slots
<1>1. old_io_ack \subseteq e_ack /\ busy[r.slot] /\ r.slot \in Slots
      /\ lba[r.slot] = r.lba /\ (writing[r.slot] <=> r.wr)
  BY DEF CInv, EngineInv, KindInv
<1>2. \A s \in Slots : ~Ending(s)
  BY <1>1 DEF Ending, Port!Ends
<1>3. \A s \in Slots : busy[s] => s = r.slot
  BY <1>1 DEF CInv, PortInv
<1> QED
  BY <1>1, <1>2, <1>3

LEMMA EndingComes ==
    ASSUME CInv, NEW mount, NEW blocks \in Nat, NEW nreset, NEW rst, Steps(mount, blocks, nreset, rst),
           NEW s \in Slots, Port!Ends(s, e_ack)'
    PROVE  /\ s = r.slot /\ est' = "E_IDLE"
           /\ est = "E_DONE" \/ (est = "E_PT" /\ c.st = "C_XFER" /\ c.pt /\ ~hps.on)
<1>1. busy'[s] /\ s \in e_ack /\ s \notin e_ack'
  <2>1. old_io_ack' = e_ack
    BY PortGoes DEF CInv
  <2> QED
    BY <2>1 DEF Port!Ends
<1>2. est \in EngStates /\ est \in Answerings \cup {"E_PT"} /\ s = r.slot
  BY <1>1 DEF CInv, KindInv, EngineInv, EngStates, Answerings, Readings, Writings
<1>3. CASE est = "E_PT"
  BY <1>1, <1>2, <1>3, FromSettling DEF CInv
<1>4. CASE est \in Answerings
  <2>1. est = "E_DONE"
    BY <1>1, <1>4, FromAnswering DEF CInv
  <2> QED
    BY <1>2, <1>4, <2>1, FromAnswering DEF CInv
<1> QED
  BY <1>2, <1>3, <1>4

\* The acknowledged target's buffer is the one the cache takes.
LEMMA AckSelIs ==
    ASSUME KindInv, e_ack = {r.slot}
    PROVE  AckSel = r.slot
<1>1. r.slot \in Slots /\ r.slot <= r.slot
  BY DEF KindInv, Slots
<1> QED
  BY <1>1 DEF AckSel

\* The buffer takes the word that is on its way.
LEMMA BufferGoes ==
    ASSUME IInv, NEW s \in Slots, Stays(s)
    PROVE  DOMAIN sd_buff'[s] = Words /\ \A w \in Words : sd_buff'[s][w] = Held(s, w)
<1>1. DOMAIN sd_buff[s] = Words
  BY DEF IInv, DInv, BufferInv
<1>2. sd_buff'[s] = IF e_buff.wr THEN [sd_buff[s] EXCEPT ![e_buff.addr] = e_buff.dout] ELSE sd_buff[s]
  BY DEF Stays
<1> QED
  BY <1>1, <1>2 DEF Held

\* The word of a fetch that comes into the store.
Lands(s, i, w) ==
    /\ hps.on /\ hps.strobe /\ ~c.pt /\ c.slot = s
    /\ i = c.idx + Block(hps.k - 1) /\ w = WordAt(hps.k - 1)

LEMMA WordIs ==
    ASSUME CInv, hps.on, hps.strobe
    PROVE  /\ c.st # "C_IDLE" /\ ~c.wr /\ hps.k - 1 \in Nat
           /\ hps.slot = c.slot /\ hps.lba = c.lba /\ hps.n = Length(c)
           /\ Block(hps.k - 1) \in 0..(Length(c) - 1) /\ WordAt(hps.k - 1) \in Words
<1>1. /\ c.st # "C_IDLE" /\ ~c.wr /\ hps.k > 0 /\ hps.n = Length(c) /\ hps.k \in 0..(hps.n * WORDS)
      /\ hps.slot = c.slot /\ hps.lba = c.lba
  BY DEF CInv, HpsInv
<1>2. /\ Length(c) \in Nat \ {0} /\ WORDS \in Nat \ {0, 1} /\ hps.k - 1 \in Nat
  BY <1>1, Geometry DEF Length, CInv, KindInv
<1> DEFINE q == (hps.k - 1) \div WORDS
           m == (hps.k - 1) % WORDS
<1>3. q \in Nat /\ m \in 0..(WORDS - 1) /\ hps.k - 1 = WORDS * q + m
  BY <1>2, Division
<1>4. hps.k - 1 < WORDS * Length(c)
  BY <1>1, <1>2
<1>5. ~(q >= Length(c))
  <2> HIDE DEF q, m
  <2>1. SUFFICES ASSUME q >= Length(c) PROVE FALSE
    OBVIOUS
  <2>2. WORDS * q >= WORDS * Length(c)
    BY <1>2, <1>3, <2>1
  <2>3. WORDS * q \in Nat /\ WORDS * Length(c) \in Nat
    BY <1>2, <1>3
  <2> QED
    BY <1>2, <1>3, <1>4, <2>2, <2>3
<1> QED
  BY <1>1, <1>2, <1>3, <1>5 DEF Block, WordAt, Words, q, m

\* The sectors of a transaction.
LEMMA CoveredIs ==
    ASSUME CInv, c.st # "C_IDLE", NEW b \in 0..(Length(c) - 1)
    PROVE  c.idx + b \in Cache!Covered /\ c.idx + b \in Cache!Sectors /\ c.idx + b \in Nat
<1>1. c.idx \in Cache!Sectors /\ c.grp \in BOOLEAN /\ GROUP \in Nat \ {0} /\ Cache!Sectors \subseteq Nat
  BY Geometry DEF CInv, KindInv, TransactionKind
<1>2. CASE c.grp
  <2>1. c.idx % GROUP = 0 /\ Length(c) = GROUP
    BY <1>2 DEF CInv, HpsInv, Length
  <2>2. c.idx + b \in Cache!InGroup(c.idx)
    BY <1>1, <2>1, InsideGroup
  <2> QED
    BY <1>1, <1>2, <2>2 DEF Cache!Covered, Cache!InGroup
<1>3. CASE ~c.grp
  <2>1. Length(c) = 1
    BY <1>3 DEF Length
  <2>2. b = 0
    BY <2>1
  <2> QED
    <3>1. c.idx \in Nat
      BY <1>1, Zenon
    <3>2. c.idx + b = c.idx
      BY <2>2, <3>1
    <3>3. Cache!Covered = {c.idx}
      BY <1>3 DEF Cache!Covered
    <3> QED
      BY <1>1, <3>1, <3>2, <3>3
<1> QED
  BY <1>2, <1>3

\* A word of the store is another one after a clock only if the engine writes
\* it or it is fetched.
LEMMA StoreGoes ==
    ASSUME IInv, NEW mount, NEW blocks \in Nat, NEW nreset, NEW rst, Steps(mount, blocks, nreset, rst),
           NEW s \in Slots, NEW i \in Cache!Sectors, NEW w \in Words
    PROVE  /\ Lands(s, i, w) => store'[s][i][w] = DiskWord(s, c.lba + Block(hps.k - 1), w)
           /\ ~Lands(s, i, w) => store'[s][i][w] = Stored(s, i, w)
           /\ est = "E_WR_C" /\ r.slot = s /\ Cache!RIdx = i /\ r.word = w =>
                 wr_q'.on /\ wr_q'.slot = s /\ wr_q'.idx = i /\ wr_q'.word = w /\ wr_q'.data = sd_buff[s][w]
           /\ ~(est = "E_WR_C" /\ r.slot = s /\ Cache!RIdx = i /\ r.word = w) =>
                 ~(wr_q'.on /\ wr_q'.slot = s /\ wr_q'.idx = i /\ wr_q'.word = w)
<1> DEFINE in == Inputs(mount, blocks, nreset)
<1>0. in = Inputs(mount, blocks, nreset)
  OBVIOUS
<1>1. /\ Cache!Store(in)
      /\ hps.k > 0 => in.block = Block(hps.k - 1) /\ in.word = WordAt(hps.k - 1)
      /\ hps.strobe /\ hps.k > 0 =>
            in.dout = DiskWord(hps.slot, hps.lba + Block(hps.k - 1), WordAt(hps.k - 1))
  BY DEF Steps, ClockWith, Cache!Clock, Inputs, KindInv, IInv, CInv
<1>2. in.strobe = hps.strobe /\ in.din = sd_buff[AckSel]
  BY InputsAre
<1> HIDE DEF in
<1>3. Cache!CLive(in) <=> c.st = "C_XFER" \/ (c.st = "C_REQ" /\ hps.on)
  BY <1>0, AckIs DEF IInv, CInv
<1>4. hps.strobe => hps.on
  BY DEF IInv, CInv, HpsInv, NoSession
<1>5. hps.on /\ hps.strobe => /\ c.st # "C_IDLE" /\ ~c.wr /\ hps.k > 0
                              /\ hps.slot = c.slot /\ hps.lba = c.lba
  BY DEF IInv, CInv, HpsInv
<1>6. c.st \in {"C_IDLE", "C_REQ", "C_XFER"}
  BY DEF IInv, CInv, KindInv, TransactionKind
<1>7. Cache!WeB(in) /\ c.slot = s /\ i = c.idx + in.block /\ w = in.word <=> Lands(s, i, w)
  BY <1>1, <1>2, <1>3, <1>4, <1>5, <1>6 DEF Cache!WeB, Lands
<1>8. store'[s][i][w] = IF Cache!WeB(in) /\ c.slot = s /\ i = c.idx + in.block /\ w = in.word
                        THEN in.dout
                        ELSE IF wr_q.on /\ wr_q.slot = s /\ wr_q.idx = i /\ wr_q.word = w
                        THEN wr_q.data ELSE store[s][i][w]
  BY <1>1 DEF Cache!Store, Cache!Slots, Slots, Cache!Words, Words
<1>9. Lands(s, i, w) => in.dout = DiskWord(s, c.lba + Block(hps.k - 1), w)
  BY <1>1, <1>5 DEF Lands
<1>10. wr_q' = IF est = "E_WR_C"
               THEN [on |-> TRUE, slot |-> r.slot, idx |-> Cache!RIdx, word |-> r.word,
                     data |-> in.din[r.word]]
               ELSE Cache!NoWrite
  BY <1>1 DEF Cache!Store
<1>11. est = "E_WR_C" => in.din = sd_buff[r.slot]
  <2>1. est = "E_WR_C" => e_ack = {r.slot}
    BY DEF IInv, CInv, EngineInv, Answerings, Writings
  <2> QED
    BY <1>2, <2>1, AckSelIs DEF IInv, CInv
<1>12. ~Cache!NoWrite.on
  BY DEF Cache!NoWrite
<1>13. /\ est = "E_WR_C" /\ r.slot = s /\ Cache!RIdx = i /\ r.word = w =>
            wr_q'.on /\ wr_q'.slot = s /\ wr_q'.idx = i /\ wr_q'.word = w /\ wr_q'.data = sd_buff[s][w]
       /\ ~(est = "E_WR_C" /\ r.slot = s /\ Cache!RIdx = i /\ r.word = w) =>
            ~(wr_q'.on /\ wr_q'.slot = s /\ wr_q'.idx = i /\ wr_q'.word = w)
  <2>1. CASE est = "E_WR_C"
    <3>1. wr_q'.on /\ wr_q'.slot = r.slot /\ wr_q'.idx = Cache!RIdx /\ wr_q'.word = r.word
          /\ wr_q'.data = sd_buff[r.slot][r.word]
      BY <1>10, <1>11, <2>1
    <3> QED
      BY <2>1, <3>1
  <2>2. CASE est # "E_WR_C"
    BY <1>10, <1>12, <2>2
  <2> QED
    BY <2>1, <2>2
<1>14. store'[s][i][w] = IF Lands(s, i, w) THEN in.dout ELSE Stored(s, i, w)
  BY <1>7, <1>8 DEF Stored
<1> QED
  BY <1>9, <1>13, <1>14

\* The version of Watch stays, but where a write of it is done.
LEMMA VersionStays ==
    ASSUME IInv, NEW mount, NEW blocks \in Nat, NEW nreset, NEW rst, Steps(mount, blocks, nreset, rst),
           cur' = Latest,
           ~(Cache!Written /\ WritingWatch), ~(est = "E_PT" /\ est' = "E_IDLE" /\ WritingWatch)
    PROVE  Version' = Version
<1>1. 0 \in Slots /\ old_io_ack' = e_ack
  BY Geometry, PortGoes DEF IInv, CInv
<1>2. CASE est = "E_IDLE"
  <2>1. est' # "E_DONE"
    BY <1>2, FromIdle DEF IInv, CInv
  <2>2. ~Pending'
    BY <1>1, <1>2, <2>1, EndingComes DEF Pending, Ending, IInv
  <2>3. Version' = cur'
    BY <2>2 DEF Version
  <2> QED
    BY <1>2, <2>3 DEF Version, Pending, Latest, Ending, WritingWatch
<1>3. CASE est # "E_IDLE"
  <2>1. cur' = cur
    BY <1>1, <1>3, EndsAtRest DEF Latest, Ending, IInv
  <2>2. Stays(0) /\ ~Ending(0)
    BY <1>1, <1>3, EngineStays, EndsAtRest DEF IInv, CInv
  <2>3. WritingWatch' <=> WritingWatch
    BY <2>2 DEF WritingWatch, Stays, Ending, Port!Ends
  <2>4. WritingWatch => r.slot = 0 /\ r.wr
    BY <1>1, <1>3, EndsAtRest DEF WritingWatch, IInv
  <2>5. CASE est = "E_DONE"
    <3>1. e_ack' = {} /\ e_ack = {r.slot}
      BY <2>5, FromAnswering DEF IInv, CInv, EngineInv, Answerings
    <3>2. WritingWatch => Ending(0)'
      BY <1>1, <2>3, <2>4, <3>1 DEF Ending, Port!Ends, WritingWatch
    <3> QED
      BY <2>1, <2>3, <2>5, <3>2 DEF Version, Pending
  <2>6. CASE est # "E_DONE"
    <3>1. ~Pending
      BY <2>2, <2>6 DEF Pending
    <3>2. ~Pending'
      <4>1. SUFFICES ASSUME WritingWatch, est' = "E_DONE" \/ Ending(0)' PROVE FALSE
        BY <2>3 DEF Pending
      <4>2. CASE Ending(0)'
        BY <1>1, <2>6, <4>1, <4>2, EndingComes DEF Ending, IInv
      <4>3. CASE est' = "E_DONE"
        <5>1. est \in Answerings
          BY <1>3, <4>3, FromDecide, FromSettling DEF IInv, CInv, KindInv, EngStates, Answerings, Readings, Writings
        <5>2. est \in {"E_RD_C", "E_WR_C"} /\ r.word = WORDS - 1
          BY <2>6, <4>3, <5>1, FromAnswering DEF IInv, CInv, Answerings, Readings, Writings
        <5>3. ~(est = "E_RD_C" /\ r.wr)
          BY DEF IInv, CInv, EngineInv, Readings
        <5> QED
          BY <2>4, <4>1, <5>2, <5>3 DEF Cache!Written
      <4> QED
        BY <4>1, <4>2, <4>3
    <3> QED
      BY <2>1, <3>1, <3>2 DEF Version
  <2> QED
    BY <2>5, <2>6
<1> QED
  BY <1>2, <1>3

LEMMA VersionComes ==
    ASSUME IInv, NEW mount, NEW blocks \in Nat, NEW nreset, NEW rst, Steps(mount, blocks, nreset, rst),
           cur' = Latest, WritingWatch,
           Cache!Written \/ (est = "E_PT" /\ est' = "E_IDLE")
    PROVE  Version' = Newer(cur) /\ cur' = cur /\ Version = cur
<1>1. 0 \in Slots /\ old_io_ack' = e_ack
  BY Geometry, PortGoes DEF IInv, CInv
<1>2. est # "E_IDLE" /\ est # "E_DONE"
  BY DEF Cache!Written
<1>3. cur' = cur
  BY <1>1, <1>2, EndsAtRest DEF Latest, Ending, IInv
<1>4. Stays(0) /\ ~Ending(0)
  BY <1>1, <1>2, EngineStays, EndsAtRest DEF IInv, CInv
<1>5. WritingWatch'
  BY <1>4 DEF WritingWatch, Stays, Ending, Port!Ends
<1>6. r.slot = 0
  BY <1>1, <1>2, EndsAtRest DEF WritingWatch, IInv
<1>7. Pending'
  <2>1. CASE Cache!Written
    <3>1. est' = "E_DONE"
      BY <2>1, FromAnswering DEF Cache!Written, IInv, CInv, Answerings, Writings
    <3> QED
      BY <1>5, <3>1 DEF Pending
  <2>2. CASE est = "E_PT" /\ est' = "E_IDLE"
    <3>1. e_ack' = {} /\ c.st = "C_XFER" /\ c.pt
      BY <2>2, FromSettling DEF IInv, CInv
    <3>2. e_ack = {r.slot}
      BY <3>1 DEF IInv, DInv, PassInv
    <3> QED
      BY <1>1, <1>5, <1>6, <3>1, <3>2 DEF Pending, Ending, Port!Ends, WritingWatch
  <2> QED
    BY <2>1, <2>2
<1> QED
  BY <1>2, <1>3, <1>4, <1>7 DEF Version, Pending


\* The store's words, as the cache reads them a clock later.
LEMMA StoredGoes ==
    ASSUME IInv, NEW mount, NEW blocks \in Nat, NEW nreset, NEW rst, Steps(mount, blocks, nreset, rst),
           NEW s \in Slots, NEW i \in Cache!Sectors, NEW w \in Words
    PROVE  /\ est = "E_WR_C" /\ r.slot = s /\ Cache!RIdx = i /\ r.word = w => Stored(s, i, w)' = sd_buff[s][w]
           /\ ~(est = "E_WR_C" /\ r.slot = s /\ Cache!RIdx = i /\ r.word = w) =>
                 /\ Lands(s, i, w) => Stored(s, i, w)' = DiskWord(s, c.lba + Block(hps.k - 1), w)
                 /\ ~Lands(s, i, w) => Stored(s, i, w)' = Stored(s, i, w)
<1>1. Stored(s, i, w)' = IF wr_q'.on /\ wr_q'.slot = s /\ wr_q'.idx = i /\ wr_q'.word = w THEN wr_q'.data
                         ELSE store'[s][i][w]
  BY DEF Stored
<1>2. CASE est = "E_WR_C" /\ r.slot = s /\ Cache!RIdx = i /\ r.word = w
  BY <1>1, <1>2, StoreGoes
<1>3. CASE ~(est = "E_WR_C" /\ r.slot = s /\ Cache!RIdx = i /\ r.word = w)
  <2>1. Stored(s, i, w)' = store'[s][i][w]
    BY <1>1, <1>3, StoreGoes
  <2> QED
    BY <1>3, <2>1, StoreGoes
<1> QED
  BY <1>2, <1>3

\* Another disc comes when nothing is to be written.
LEMMA SwapIs ==
    ASSUME IInv, NEW mount, NEW blocks \in Nat, NEW nreset, NEW rst, Steps(mount, blocks, nreset, rst),
           Swaps(mount)
    PROVE  /\ mount = {0} /\ 0 \in Slots /\ guest.writers = {} /\ ~hps.on /\ ~busy[0]
           /\ \A s \in Slots : Stays(s) /\ win[s].dirty = {} /\ ~(busy[s] /\ writing[s])
           /\ ~WritingWatch /\ ~WritingWatch' /\ Version' = cur'
           /\ DOMAIN disk' = Words /\ \A w \in Words : disk'[w] = cur'
<1>1. /\ mount = {0} /\ 0 \in Slots /\ ~hps.on /\ ~busy[0] /\ guest.writers = {}
      /\ \A t \in Slots : io'[t] = io[t]
      /\ disk' = Sector(cur')
  BY Geometry DEF Swaps, IInv, DInv, GuestInv, Discs
<1>2. \A s : ~(s \in guest.slots /\ Begins(s))
  BY <1>1, GuestIs DEF Begins, Free, IInv, CInv
<1>3. \A s \in Slots : Stays(s)
  BY <1>2, PortGoes DEF IInv, CInv
<1>4. \A s \in Slots : win[s].dirty = {} /\ ~(busy[s] /\ writing[s])
  BY <1>1 DEF IInv, DInv, GuestInv, CInv, PortInv
<1>5. ~WritingWatch /\ ~WritingWatch'
  BY <1>1, <1>3 DEF WritingWatch, Stays
<1>6. Version' = cur'
  BY <1>5 DEF Version, Pending
<1> QED
  BY <1>1, <1>3, <1>4, <1>5, <1>6 DEF Sector

\* What a target writes and what it is to read stay what they are until it
\* is done.
LEMMA OfferedStays ==
    ASSUME IInv, NEW mount, NEW blocks \in Nat, NEW nreset, NEW rst, Steps(mount, blocks, nreset, rst),
           ImageGoes(mount), NEW s \in Slots, busy[s], ~Ending(s), Stays(s)
    PROVE  Offered(s)' = Offered(s) /\ Wanted(s)' = Wanted(s)
<1>1. lba'[s] = lba[s]
  BY DEF Stays
<1>2. s = 0 => cur' = cur
  <2>1. SUFFICES ASSUME s = 0 PROVE cur' = cur
    OBVIOUS
  <2>2. ~Swaps(mount)
    BY <2>1 DEF Swaps
  <2>3. cur' = Latest
    BY <2>2 DEF ImageGoes
  <2> QED
    BY <2>1, <2>3 DEF Latest, Ending
<1>3. (s = 0 => cur' = cur) => Offered(s)' = Offered(s) /\ Wanted(s)' = Wanted(s)
  BY <1>1 DEF Offered, Wanted, Watched
<1> QED
  BY <1>2, <1>3

\* At work, the engine's target is the one that stays.
LEMMA AtWork ==
    ASSUME IInv, est # "E_IDLE",
           NEW mount, NEW blocks \in Nat, NEW nreset, NEW rst, Steps(mount, blocks, nreset, rst), ImageGoes(mount)
    PROVE  /\ \A s \in Slots : s = r.slot =>
                 /\ Offered(s)' = Offered(s) /\ Wanted(s)' = Wanted(s)
                 /\ DOMAIN sd_buff'[s] = Words /\ \A w \in Words : sd_buff'[s][w] = Held(s, w)
           /\ r.slot = 0 => ~Swaps(mount)
           /\ r.wr => r.slot \in guest.writers /\ ~Swaps(mount)
<1>1. /\ busy[r.slot] /\ r.slot \in Slots /\ ~Ending(r.slot) /\ Stays(r.slot)
      /\ (writing[r.slot] <=> r.wr)
  BY EndsAtRest, EngineStays DEF IInv, CInv
<1>2. ASSUME NEW s \in Slots, s = r.slot
      PROVE  /\ Offered(s)' = Offered(s) /\ Wanted(s)' = Wanted(s)
             /\ DOMAIN sd_buff'[s] = Words /\ \A w \in Words : sd_buff'[s][w] = Held(s, w)
  <2>1. busy[s] /\ ~Ending(s) /\ Stays(s)
    BY <1>1, <1>2
  <2> QED
    BY <2>1, OfferedStays, BufferGoes
<1>3. r.slot = 0 => ~Swaps(mount)
  BY <1>1 DEF Swaps
<1>4. r.wr => r.slot \in guest.writers
  BY <1>1 DEF IInv, CInv, PortInv
<1>5. r.wr => ~Swaps(mount)
  BY <1>4, SwapIs
<1> QED
  BY <1>2, <1>3, <1>4, <1>5

\* What the engine puts into the buffer.
LEMMA EngineBuffer ==
    ASSUME IInv, NEW mount, NEW blocks \in Nat, NEW nreset, NEW rst, Steps(mount, blocks, nreset, rst)
    PROVE  /\ DOMAIN e_buff' = {"wr", "addr", "dout"}
           /\ est = "E_RD_C" => e_buff'.wr /\ e_buff'.addr = r.word /\ e_buff'.dout = q_a
           /\ est = "E_PT" /\ e_buff'.wr =>
                 /\ hps.on /\ hps.strobe /\ c.st # "C_IDLE" /\ c.pt
                 /\ e_buff'.addr = WordAt(hps.k - 1)
                 /\ e_buff'.dout = DiskWord(c.slot, c.lba + Block(hps.k - 1), WordAt(hps.k - 1))
           /\ est = "E_PT" /\ hps.on /\ hps.strobe /\ c.pt =>
                 /\ e_buff'.wr /\ e_buff'.addr = WordAt(hps.k - 1)
                 /\ e_buff'.dout = DiskWord(c.slot, c.lba + Block(hps.k - 1), WordAt(hps.k - 1))
           /\ est \notin {"E_RD_C", "E_PT"} => ~e_buff'.wr
<1> DEFINE in == Inputs(mount, blocks, nreset)
<1>0. in = Inputs(mount, blocks, nreset)
  OBVIOUS
<1>1. /\ Cache!Engine(in)
      /\ hps.k > 0 => in.block = Block(hps.k - 1) /\ in.word = WordAt(hps.k - 1)
      /\ hps.strobe /\ hps.k > 0 =>
            in.dout = DiskWord(hps.slot, hps.lba + Block(hps.k - 1), WordAt(hps.k - 1))
  BY DEF Steps, ClockWith, Cache!Clock, Inputs, KindInv, IInv, CInv
<1>2. in.strobe = hps.strobe
  BY InputsAre
<1> HIDE DEF in
<1>3. Cache!CLive(in) <=> c.st = "C_XFER" \/ (c.st = "C_REQ" /\ hps.on)
  BY <1>0, AckIs DEF IInv, CInv
<1>4. e_buff' = IF est = "E_RD_C" THEN [wr |-> TRUE, addr |-> r.word, dout |-> q_a]
                ELSE IF est = "E_PT" /\ Cache!CLive(in) /\ c.pt
                THEN [wr |-> in.strobe, addr |-> in.word, dout |-> in.dout]
                ELSE [e_buff EXCEPT !.wr = FALSE, !.dout = NoWord]
  BY <1>1 DEF Cache!Engine
<1>5. /\ hps.strobe => hps.on
      /\ hps.on => c.st # "C_IDLE" /\ hps.slot = c.slot /\ hps.lba = c.lba
      /\ hps.strobe => hps.k > 0
  BY DEF IInv, CInv, HpsInv, NoSession
<1>6. DOMAIN e_buff = {"wr", "addr", "dout"} /\ c.st \in {"C_IDLE", "C_REQ", "C_XFER"}
  BY DEF IInv, DInv, BufferInv, CInv, KindInv, TransactionKind
<1>7. CASE est = "E_RD_C"
  <2>1. e_buff' = [wr |-> TRUE, addr |-> r.word, dout |-> q_a]
    BY <1>4, <1>7
  <2> QED
    BY <1>7, <2>1
<1>8. CASE est = "E_PT" /\ Cache!CLive(in) /\ c.pt
  <2>1. e_buff' = [wr |-> in.strobe, addr |-> in.word, dout |-> in.dout]
    BY <1>4, <1>8
  <2>2. DOMAIN e_buff' = {"wr", "addr", "dout"} /\ (e_buff'.wr <=> hps.strobe) /\ e_buff'.addr = in.word
        /\ e_buff'.dout = in.dout
    BY <1>2, <2>1
  <2> QED
    BY <1>1, <1>5, <1>8, <2>2
<1>9. CASE est # "E_RD_C" /\ ~(est = "E_PT" /\ Cache!CLive(in) /\ c.pt)
  <2>1. e_buff' = [e_buff EXCEPT !.wr = FALSE, !.dout = NoWord]
    BY <1>4, <1>9
  <2>2. DOMAIN e_buff' = {"wr", "addr", "dout"} /\ ~e_buff'.wr
    BY <1>6, <2>1
  <2>3. ~(est = "E_PT" /\ hps.on /\ c.pt)
    BY <1>3, <1>5, <1>6, <1>9
  <2> QED
    BY <1>9, <2>2, <2>3
<1> QED
  BY <1>7, <1>8, <1>9

\* The engine's write on its way into the store.
LEMMA EngineWrites ==
    ASSUME NEW mount, NEW blocks \in Nat, NEW nreset, NEW rst, Steps(mount, blocks, nreset, rst)
    PROVE  /\ wr_q'.on => est = "E_WR_C" /\ wr_q'.slot = r.slot /\ wr_q'.idx = Cache!RIdx
           /\ q_a' = IF est = "E_RD_B" THEN store[r.slot][Cache!RIdx][r.word] ELSE NoWord
<1>1. Cache!Store(Inputs(mount, blocks, nreset))
  BY DEF Steps, ClockWith, Cache!Clock
<1>2. /\ est # "E_WR_C" => wr_q' = Cache!NoWrite
      /\ est = "E_WR_C" => wr_q'.slot = r.slot /\ wr_q'.idx = Cache!RIdx
      /\ q_a' = IF est = "E_RD_B" THEN store[r.slot][Cache!RIdx][r.word] ELSE NoWord
  BY <1>1 DEF Cache!Store
<1>3. ~Cache!NoWrite.on
  BY DEF Cache!NoWrite
<1> QED
  BY <1>2, <1>3


\* The engine moves a window to groups of its image.
LEMMA NewLimIs ==
    ASSUME KindInv, Cache!NewLim > 0
    PROVE  r.lba + Cache!NewLim * GROUP <= Cache!R.size
<1> DEFINE room == Cache!R.size - r.lba
<1>1. GROUP \in Nat \ {0} /\ Cache!Groups \in Nat \ {0} /\ Cache!R.size \in Nat /\ r.lba \in Nat
  BY Geometry DEF KindInv, Windows, Cache!R
<1>2. ~(Cache!R.size < r.lba)
  BY <1>1 DEF Cache!NewLim
<1>3. room \in Nat
  BY <1>1, <1>2
<1> DEFINE g == room \div GROUP
<1>4. g \in Nat /\ Cache!NewLim <= g /\ Cache!NewLim \in Nat
  <2>1. g \in Nat
    BY <1>1, <1>3, Division
  <2> QED
    BY <1>1, <1>2, <2>1 DEF Cache!NewLim
<1>5. GROUP * g <= room
  <2> DEFINE m == room % GROUP
  <2>1. g \in Nat /\ m \in 0..(GROUP - 1) /\ room = GROUP * g + m
    BY <1>1, <1>3, Division
  <2> HIDE DEF g, m, room
  <2> QED
    BY <1>1, <2>1
<1> HIDE DEF g
<1>6. Cache!NewLim * GROUP <= g * GROUP
  BY <1>1, <1>4
<1>7. g * GROUP = GROUP * g /\ GROUP * g \in Nat /\ Cache!NewLim * GROUP \in Nat
  BY <1>1, <1>4
<1> QED
  BY <1>1, <1>3, <1>5, <1>6, <1>7

\* A sector that is asked for is the image's.
LEMMA AskedIs ==
    ASSUME CInv, GuestInv, NEW s \in Slots, busy[s]
    PROVE  lba[s] < win[s].size
<1>1. s \in guest.slots /\ win[s].mounted /\ lba[s] \in guest.lbas
  BY DEF CInv, PortInv
<1>2. win[s].size = Size \/ (guest.lbas \subseteq 0..(NewSize - 1) /\ win[s].size = NewSize)
  BY <1>1 DEF GuestInv, Discs
<1>3. guest.lbas \subseteq 0..(Size - 1) /\ Size \in Nat /\ NewSize \in Nat
  BY GuestIs DEF CInv
<1> QED
  BY <1>1, <1>2, <1>3

\* The window of a slot whose image stays, or which is not moved.
LEMMA WindowStays ==
    ASSUME IInv, NEW mount, NEW blocks \in Nat, NEW nreset, NEW rst, Steps(mount, blocks, nreset, rst),
           NEW s \in Slots, ~Rebased(s), win'[s].ok
    PROVE  /\ win[s].ok /\ win'[s].base = win[s].base /\ win'[s].lim = win[s].lim
           /\ win'[s].size = win[s].size
           /\ s \in mount => win'[s].valid = {} /\ win'[s].dirty = {}
<1> DEFINE in == Inputs(mount, blocks, nreset)
<1>0. in = Inputs(mount, blocks, nreset)
  OBVIOUS
<1> HIDE DEF in
<1>1. CASE s \in mount
  <2>1. /\ (win'[s].ok <=> win[s].ok) /\ win'[s].size = win[s].size
        /\ win'[s].base = win[s].base /\ win'[s].lim = win[s].lim
        /\ win'[s].valid = win[s].dirty /\ win'[s].dirty \subseteq win[s].dirty
    BY <1>1, WindowMounted DEF IInv, CInv
  <2>2. win[s].mounted
    BY <2>1 DEF IInv, CInv, WindowInv
  <2>3. "swap" \in guest.events
    BY <1>1, <2>2 DEF Steps
  <2>4. win[s].dirty = {}
    BY <2>3 DEF IInv, DInv, GuestInv, Discs
  <2> QED
    BY <2>1, <2>4
<1>2. CASE s \notin mount
  <2>1. /\ win'[s].base = win[s].base /\ win'[s].lim = win[s].lim /\ win[s].ok
    BY <1>0, <1>2, WindowGoes DEF IInv, CInv
  <2>2. win'[s].size = win[s].size
    BY <1>0, <1>2, WindowGoes DEF IInv, CInv
  <2> QED
    BY <1>2, <2>1, <2>2
<1> QED
  BY <1>1, <1>2

\* The engine's sector, once written, is where it was asked for.
LEMMA OwnIs ==
    ASSUME IInv, NEW s \in Slots, Own(s) # {}
    PROVE  /\ s = r.slot /\ est = "E_WR_C" /\ r.word = WORDS - 1 /\ r.wr
           /\ Own(s) = {Cache!RIdx} /\ Cache!RIdx \in Cache!Sectors
           /\ win[s].ok /\ win[s].base + Cache!RIdx = r.lba
           /\ s \in guest.writers /\ busy[s] /\ writing[s] /\ lba[s] = r.lba
<1>1. Cache!Written /\ r.slot = s /\ Own(s) = {Cache!RIdx}
  BY DEF Own
<1>2. est = "E_WR_C" /\ r.word = WORDS - 1
  BY <1>1 DEF Cache!Written
<1>3. r.wr /\ Cache!RInWin /\ busy[s] /\ writing[s] /\ lba[s] = r.lba
  BY <1>1, <1>2 DEF IInv, CInv, EngineInv, Answerings, Writings
<1>4. Cache!RIdx \in Cache!Sectors /\ Cache!R.base + Cache!RIdx = r.lba
  BY <1>3, IdxIs DEF IInv, CInv
<1>5. s \in guest.writers
  BY <1>3 DEF IInv, CInv, PortInv
<1> QED
  BY <1>1, <1>2, <1>3, <1>4, <1>5 DEF Cache!R, Cache!RInWin

LEMMA GuestStep ==
    ASSUME IInv, NEW mount, NEW blocks \in Nat, NEW nreset, NEW rst, Steps(mount, blocks, nreset, rst)
    PROVE  GuestInv'
<1> DEFINE in == Inputs(mount, blocks, nreset)
<1>0. in = Inputs(mount, blocks, nreset)
  OBVIOUS
<1> HIDE DEF in
<1>1. guest' = guest
  BY DEF Steps
<1>2. Discs'
  BY <1>1 DEF Discs, IInv, DInv, GuestInv
<1>3. ASSUME NEW s \in Slots \ guest.writers PROVE win'[s].dirty = {}
  <2>1. win[s].dirty = {}
    BY <1>3 DEF IInv, DInv, GuestInv
  <2>2. Own(s) = {}
    BY <1>3, OwnIs
  <2>3. win'[s].dirty \subseteq win[s].dirty \cup Own(s)
    BY DirtyGoes DEF IInv, CInv
  <2> QED
    BY <2>1, <2>2, <2>3
<1>4. ASSUME NEW s \in Slots, win'[s].mounted
      PROVE  win'[s].size = Size \/ (s = 0 /\ "swap" \in guest.events /\ win'[s].size = NewSize)
  <2>1. CASE s \in mount
    <3>1. win'[s].size = blocks
      BY <2>1, WindowMounted DEF IInv, CInv
    <3> QED
      BY <2>1, <3>1 DEF Steps
  <2>2. CASE s \notin mount
    <3>1. win'[s].size = win[s].size /\ win'[s].mounted = win[s].mounted
      BY <1>0, <2>2, WindowGoes DEF IInv, CInv
    <3> QED
      BY <1>4, <3>1 DEF IInv, DInv, GuestInv
  <2> QED
    BY <2>1, <2>2
<1>5. ASSUME NEW s \in Slots, win'[s].ok
      PROVE  /\ win'[s].lim > 0 => win'[s].base + win'[s].lim * GROUP <= win'[s].size
             /\ \A i \in win'[s].dirty : win'[s].base + i < win'[s].size
  <2>1. CASE Rebased(s)
    <3>1. s \notin mount /\ r.slot = s
      BY <2>1, EngineStays DEF Rebased, IInv, CInv
    <3>2. /\ win'[s].base = r.lba /\ win'[s].lim = Cache!NewLim /\ win'[s].dirty = {}
      BY <1>0, <2>1, <3>1, WindowGoes DEF IInv, CInv
    <3>3. win'[s].size = win[s].size
      BY <1>0, <3>1, WindowGoes DEF IInv, CInv
    <3> QED
      BY <3>1, <3>2, <3>3, NewLimIs DEF IInv, CInv, Cache!R
  <2>2. CASE ~Rebased(s)
    <3>1. /\ win[s].ok /\ win'[s].base = win[s].base /\ win'[s].lim = win[s].lim
          /\ win'[s].size = win[s].size
      BY <1>5, <2>2, WindowStays
    <3>2. win'[s].dirty \subseteq win[s].dirty \cup Own(s)
      BY DirtyGoes DEF IInv, CInv
    <3>3. \A i \in Own(s) : win[s].base + i < win[s].size
      <4>1. CASE Own(s) = {}
        BY <4>1
      <4>2. CASE Own(s) # {}
        BY <4>2, OwnIs, AskedIs DEF IInv, DInv
      <4> QED
        BY <4>1, <4>2
    <3>4. /\ win[s].lim > 0 => win[s].base + win[s].lim * GROUP <= win[s].size
          /\ \A i \in win[s].dirty : win[s].base + i < win[s].size
      BY <3>1 DEF IInv, DInv, GuestInv
    <3> QED
      BY <3>1, <3>2, <3>3, <3>4
  <2> QED
    BY <2>1, <2>2
<1> QED
  BY <1>1, <1>2, <1>3, <1>4, <1>5 DEF GuestInv


\* No transaction begins in a window that the engine moves, or lets pass what
\* is dirty.
LEMMA NothingBegins ==
    ASSUME IInv, c.st = "C_IDLE", est = "E_REBASE",
           NEW mount, NEW blocks \in Nat, NEW nreset, NEW rst, Steps(mount, blocks, nreset, rst),
           c'.st # "C_IDLE"
    PROVE  c'.slot # r.slot
<1> DEFINE in == Inputs(mount, blocks, nreset)
<1>0. in = Inputs(mount, blocks, nreset)
  OBVIOUS
<1> HIDE DEF in
<1>1. Cache!R.dirty = {} /\ pf.left = 0 /\ ~dem.req
  BY DEF IInv, CInv, EngineInv, DemandInv
<1>2. IsFlush(in) \/ IsPrefetch(in)
  <2>1. c' = c \/ IsDemand \/ IsFlush(in) \/ IsPrefetch(in)
    BY <1>0, Begun DEF IInv, CInv
  <2> QED
    BY <1>1, <2>1 DEF IsDemand
<1>3. ~IsPrefetch(in)
  BY <1>1, PrefetchIs DEF IInv, CInv
<1> QED
  BY <1>1, <1>2, <1>3, FlushIs DEF IInv, CInv, Cache!R

\* The length of a demand's, a flush's and a prefetch's sectors is within the
\* image.
LEMMA GroupInside ==
    ASSUME IInv, NEW s \in Slots, win[s].ok, NEW g \in Nat, g < win[s].lim
    PROVE  win[s].base + g * GROUP + GROUP <= win[s].size
<1>1. GROUP \in Nat \ {0} /\ win[s].base \in Nat /\ win[s].lim \in Nat /\ win[s].size \in Nat
  BY Geometry DEF IInv, CInv, KindInv, Windows
<1>2. win[s].base + win[s].lim * GROUP <= win[s].size
  BY <1>1 DEF IInv, DInv, GuestInv
<1>3. GROUP * g + GROUP <= GROUP * win[s].lim
  BY <1>1, Below
<1>4. GROUP * g = g * GROUP /\ GROUP * win[s].lim = win[s].lim * GROUP
  BY <1>1
<1>5. g * GROUP \in Nat /\ win[s].lim * GROUP \in Nat
  BY <1>1
<1> QED
  BY <1>1, <1>2, <1>3, <1>4, <1>5

LEMMA BegunInside ==
    ASSUME IInv, c.st = "C_IDLE",
           NEW mount, NEW blocks \in Nat, NEW nreset, NEW rst, Steps(mount, blocks, nreset, rst),
           c'.st # "C_IDLE", ~c'.pt, NEW s \in Slots, c'.slot = s, win[s].ok
    PROVE  c'.base = win[s].base /\ c'.lba + Length(c)' <= win[s].size
<1> DEFINE in == Inputs(mount, blocks, nreset)
<1>0. in = Inputs(mount, blocks, nreset)
  OBVIOUS
<1> HIDE DEF in
<1>1. /\ IsDemand \/ IsFlush(in) \/ IsPrefetch(in)
      /\ c'.base = win[s].base /\ c'.lba = c'.base + c'.idx /\ c' \in TransactionKind
  <2>1. c' # c
    OBVIOUS
  <2> QED
    BY <1>0, <2>1, Begun DEF IInv, CInv
<1>2. /\ c'.idx \in Nat /\ win[s].base \in Nat /\ win[s].size \in Nat /\ GROUP \in Nat \ {0}
      /\ Length(c)' = IF c'.grp THEN GROUP ELSE 1
  <2>1. c'.idx \in Nat
    BY <1>1, Geometry DEF TransactionKind
  <2>2. win[s].base \in Nat /\ win[s].size \in Nat
    BY DEF IInv, CInv, KindInv, Windows
  <2>3. Length(c)' = IF c'.grp THEN GROUP ELSE 1
    BY DEF Length
  <2> QED
    BY <2>1, <2>2, <2>3, Geometry
<1>3. CASE IsDemand
  <2>1. /\ est = "E_FETCH" /\ s = r.slot /\ dem.req /\ ~dem.pt /\ (c'.grp <=> dem.grp)
        /\ c'.idx = (IF dem.grp THEN Cache!GroupBase(dem.idx) ELSE dem.idx)
    BY <1>3, DemandFetches DEF IsDemand, IInv
  <2>2. dem.idx = Cache!RIdx /\ Cache!RIdx \in Cache!Sectors
    BY <2>1, IdxIs DEF IInv, CInv, DemandInv
  <2>3. CASE dem.grp
    <3> DEFINE g == Cache!RIdx \div GROUP
    <3>1. g < win[s].lim
      BY <2>1, <2>3 DEF IInv, DInv, PassInv, Cache!R
    <3>2. g \in Nat
      BY <2>2, SectorIs
    <3>3. c'.idx = g * GROUP
      BY <2>1, <2>2, <2>3 DEF Cache!GroupBase
    <3> HIDE DEF g
    <3>4. win[s].base + g * GROUP + GROUP <= win[s].size
      BY <3>1, <3>2, GroupInside
    <3> QED
      BY <1>1, <1>2, <2>1, <2>3, <3>3, <3>4
  <2>4. CASE ~dem.grp
    <3>1. c'.idx = Cache!RIdx
      BY <2>1, <2>2, <2>4
    <3>2. Cache!RInWin /\ busy[s] /\ lba[s] = r.lba
      BY <2>1 DEF IInv, DInv, PassInv, CInv, EngineInv
    <3>3. r.lba < win[s].size /\ win[s].base + Cache!RIdx = r.lba
      BY <2>1, <3>2, AskedIs, IdxIs DEF IInv, CInv, DInv, Cache!R
    <3> QED
      BY <1>1, <1>2, <2>1, <2>4, <3>1, <3>3
  <2> QED
    BY <2>3, <2>4
<1>4. CASE IsFlush(in)
  <2>1. /\ Cache!Covered' \subseteq win[s].dirty /\ c'.idx \in Cache!Covered'
        /\ c'.slot = fl.slot
    BY <1>4, FlushIs DEF IInv, CInv
  <2>2. \A i \in Cache!Covered' : win[s].base + i < win[s].size
    BY <2>1 DEF IInv, DInv, GuestInv
  <2>3. CASE c'.grp
    <3>1. c'.idx \in Cache!Sectors /\ c'.idx % GROUP = 0 /\ GROUP - 1 \in 0..(GROUP - 1)
      <4>1. c'.idx \in Cache!Sectors
        BY <1>1 DEF TransactionKind
      <4>2. c'.idx % GROUP = 0
        BY <1>0, <2>3, Begun DEF IInv, CInv
      <4> QED
        BY <1>2, <4>1, <4>2
    <3>2. c'.idx + (GROUP - 1) \in Cache!InGroup(c'.idx)
      BY <3>1, InsideGroup
    <3>3. c'.idx + (GROUP - 1) \in Cache!Covered'
      BY <2>3, <3>2 DEF Cache!Covered, Cache!InGroup
    <3>4. win[s].base + (c'.idx + (GROUP - 1)) < win[s].size
      BY <2>2, <3>3
    <3> QED
      BY <1>1, <1>2, <2>3, <3>4
  <2>4. CASE ~c'.grp
    <3>1. win[s].base + c'.idx < win[s].size
      BY <2>1, <2>2
    <3> QED
      BY <1>1, <1>2, <2>4, <3>1
  <2> QED
    BY <2>3, <2>4
<1>5. CASE IsPrefetch(in)
  <2>1. pf.grp < win[s].lim /\ c'.grp /\ c'.idx = pf.grp * GROUP /\ pf.grp \in Nat
    BY <1>5, PrefetchIs DEF IsPrefetch, IInv, CInv, KindInv
  <2>2. win[s].base + pf.grp * GROUP + GROUP <= win[s].size
    BY <2>1, GroupInside
  <2> QED
    BY <1>1, <1>2, <2>1, <2>2
<1> QED
  BY <1>1, <1>3, <1>4, <1>5

\* A write that has just ended is not being flushed.
LEMMA EndedIsLeftAlone ==
    ASSUME IInv, c.st # "C_IDLE", ~c.pt, NEW s \in Slots, s = c.slot, win[s].ok,
           NEW mount, NEW blocks \in Nat, NEW nreset, NEW rst, Steps(mount, blocks, nreset, rst),
           Port!Ends(s, e_ack)', writing'[s]
    PROVE  lba'[s] - win[s].base \notin Cache!Covered
<1>1. s = r.slot /\ est = "E_DONE"
  BY EndingComes DEF IInv
<1>2. Stays(s) /\ (writing[s] <=> r.wr) /\ lba[s] = r.lba
  BY <1>1, EngineStays, EndsAtRest DEF IInv, CInv
<1>3. r.wr /\ lba'[s] = r.lba
  BY <1>2 DEF Stays
<1>4. Cache!RInWin /\ Cache!RIdx \notin Cache!Covered
  BY <1>1, <1>3 DEF IInv, CInv, WriteInv, EngineInv, Answerings
<1>5. Cache!R.base + Cache!RIdx = r.lba /\ Cache!RIdx \in Nat /\ Cache!R.base \in Nat
  BY <1>4, IdxIs, SectorIs DEF IInv, CInv, KindInv, Windows, Cache!R
<1>6. r.lba - Cache!R.base = Cache!RIdx
  BY <1>5
<1> QED
  BY <1>1, <1>3, <1>4, <1>6 DEF Cache!R

LEMMA ChannelGoesOn ==
    ASSUME IInv, c.st # "C_IDLE",
           NEW mount, NEW blocks \in Nat, NEW nreset, NEW rst, Steps(mount, blocks, nreset, rst),
           c'.st # "C_IDLE", ~c'.pt, NEW s \in Slots, c'.slot = s
    PROVE  /\ c'.lba = c'.base + c'.idx
           /\ win'[s].ok => c'.base = win'[s].base /\ c'.lba + Length(c)' <= win'[s].size
           /\ c'.wr => /\ s \in guest.writers /\ win'[s].ok /\ Cache!Covered' \subseteq win'[s].dirty
                       /\ Ending(s)' /\ writing'[s] => lba'[s] - win'[s].base \notin Cache!Covered'
<1> DEFINE in == Inputs(mount, blocks, nreset)
<1>0. in = Inputs(mount, blocks, nreset)
  OBVIOUS
<1> HIDE DEF in
<1>1. /\ c.slot = s /\ ~c.pt /\ c'.wr = c.wr /\ c'.idx = c.idx /\ c'.lba = c.lba /\ c'.base = c.base
      /\ Length(c)' = Length(c) /\ Cache!Covered' = Cache!Covered
  <2>1. /\ c'.wr = c.wr /\ c'.pt = c.pt /\ c'.slot = c.slot /\ c'.idx = c.idx
        /\ c'.grp = c.grp /\ c'.base = c.base /\ c'.lba = c.lba
    BY GoneOn DEF IInv, CInv
  <2>2. Length(c)' = Length(c)
    BY <2>1 DEF Length
  <2> QED
    BY <2>1, <2>2, CoveredStays DEF IInv
<1>2. c.lba = c.base + c.idx
  BY <1>1 DEF IInv, DInv, ChannelInv
<1>3. ~Rebased(s)
  BY <1>1 DEF Rebased, IInv, CInv, EngineInv
<1>4. win'[s].ok => c'.base = win'[s].base /\ c'.lba + Length(c)' <= win'[s].size
  <2>1. SUFFICES ASSUME win'[s].ok
                 PROVE  c.base = win'[s].base /\ c.lba + Length(c) <= win'[s].size
    BY <1>1
  <2>2. win[s].ok /\ win'[s].base = win[s].base /\ win'[s].size = win[s].size
    BY <1>3, <2>1, WindowStays
  <2>3. c.base = win[s].base /\ c.lba + Length(c) <= win[s].size
    BY <1>1, <2>2 DEF IInv, DInv, ChannelInv
  <2> QED
    BY <2>2, <2>3
<1>5. ASSUME c'.wr
      PROVE  /\ s \in guest.writers /\ win'[s].ok /\ Cache!Covered' \subseteq win'[s].dirty
             /\ Ending(s)' /\ writing'[s] => lba'[s] - win'[s].base \notin Cache!Covered'
  <2>1. s \in guest.writers /\ win[s].ok /\ Cache!Covered \subseteq win[s].dirty
    BY <1>1, <1>5 DEF IInv, DInv, ChannelInv
  <2>2. c.idx \in Cache!Covered
    <3>1. c.idx \in Cache!Sectors
      BY DEF IInv, CInv, KindInv, TransactionKind
    <3> QED
      BY <3>1, SectorIs DEF Cache!Covered
  <2>3. s \notin mount
    <3>1. win[s].mounted /\ guest.writers # {}
      BY <2>1 DEF IInv, CInv, WindowInv
    <3>2. ~("swap" \in guest.events)
      BY <3>1 DEF IInv, DInv, GuestInv, Discs
    <3> QED
      BY <3>1, <3>2 DEF Steps
  <2>4. ~Cache!DropsWindow(in, s)
    BY <2>1, <2>2 DEF Cache!DropsWindow, Cache!PassesThrough, Cache!R
  <2>5. Cache!Flushed(in, s) = {}
    <3>1. ~Cache!ChannelFinish(in)
      BY <1>0, AckIs, GoneOn DEF IInv, CInv
    <3> QED
      BY <3>1 DEF Cache!Flushed
  <2>6. /\ win'[s].base = win[s].base /\ (win'[s].ok <=> win[s].ok /\ ~Cache!DropsWindow(in, s))
        /\ win'[s].dirty = (win[s].dirty \ Cache!Flushed(in, s)) \cup Own(s)
    BY <1>0, <1>3, <2>3, WindowGoes DEF IInv, CInv
  <2>7. win'[s].ok /\ Cache!Covered \subseteq win'[s].dirty
    BY <2>1, <2>4, <2>5, <2>6
  <2>8. Ending(s)' /\ writing'[s] => lba'[s] - win[s].base \notin Cache!Covered
    BY <1>1, <2>1, EndedIsLeftAlone DEF Ending
  <2>9. win'[s].base = win[s].base
    BY <2>6
  <2> QED
    BY <1>1, <2>1, <2>7, <2>8, <2>9
<1> QED
  BY <1>1, <1>2, <1>4, <1>5

LEMMA ChannelBegins ==
    ASSUME IInv, c.st = "C_IDLE",
           NEW mount, NEW blocks \in Nat, NEW nreset, NEW rst, Steps(mount, blocks, nreset, rst),
           c'.st # "C_IDLE", ~c'.pt, NEW s \in Slots, c'.slot = s
    PROVE  /\ c'.st = "C_REQ" /\ c'.lba = c'.base + c'.idx
           /\ win'[s].ok => c'.base = win'[s].base /\ c'.lba + Length(c)' <= win'[s].size
           /\ c'.wr => s \in guest.writers /\ win'[s].ok /\ Cache!Covered' \subseteq win'[s].dirty
<1> DEFINE in == Inputs(mount, blocks, nreset)
<1>0. in = Inputs(mount, blocks, nreset)
  OBVIOUS
<1> HIDE DEF in
<1>1. /\ IsDemand \/ IsFlush(in) \/ IsPrefetch(in)
      /\ c'.st = "C_REQ" /\ c'.lba = c'.base + c'.idx
  <2>1. c' # c
    OBVIOUS
  <2> QED
    BY <1>0, <2>1, Begun DEF IInv, CInv
<1>2. ~Rebased(s)
  BY NothingBegins DEF Rebased
<1>3. win'[s].ok => c'.base = win'[s].base /\ c'.lba + Length(c)' <= win'[s].size
  <2>1. SUFFICES ASSUME win'[s].ok
                 PROVE  c'.base = win'[s].base /\ c'.lba + Length(c)' <= win'[s].size
    OBVIOUS
  <2>2. win[s].ok /\ win'[s].base = win[s].base /\ win'[s].size = win[s].size
    BY <1>2, <2>1, WindowStays
  <2>3. c'.base = win[s].base /\ c'.lba + Length(c)' <= win[s].size
    BY <2>2, BegunInside
  <2> QED
    BY <2>2, <2>3
<1>4. ASSUME c'.wr
      PROVE  s \in guest.writers /\ win'[s].ok /\ Cache!Covered' \subseteq win'[s].dirty
  <2>1. IsFlush(in)
    <3>1. ~IsPrefetch(in)
      BY <1>4 DEF IsPrefetch
    <3>2. ~IsDemand
      BY <1>4, DemandFetches DEF IInv
    <3> QED
      BY <1>1, <3>1, <3>2
  <2>2. Cache!Covered' \subseteq win[s].dirty /\ win[s].dirty # {}
    BY <2>1, FlushIs DEF IInv, CInv
  <2>3. s \in guest.writers /\ win[s].ok /\ win[s].mounted
    BY <2>2 DEF IInv, DInv, GuestInv, CInv, WindowInv
  <2>4. s \notin mount
    <3>1. ~("swap" \in guest.events)
      BY <2>3 DEF IInv, DInv, GuestInv, Discs
    <3> QED
      BY <2>3, <3>1 DEF Steps
  <2>5. ~Cache!DropsWindow(in, s)
    BY <2>2 DEF Cache!DropsWindow, Cache!PassesThrough, Cache!R
  <2>6. Cache!Flushed(in, s) = {}
    <3>1. ~Cache!ChannelFinish(in)
      BY <1>0, AckIs DEF IInv, CInv
    <3> QED
      BY <3>1 DEF Cache!Flushed
  <2>7. /\ win'[s].ok <=> win[s].ok /\ ~Cache!DropsWindow(in, s)
        /\ win'[s].dirty = (win[s].dirty \ Cache!Flushed(in, s)) \cup Own(s)
    BY <1>0, <1>2, <2>4, WindowGoes DEF IInv, CInv
  <2> QED
    BY <2>2, <2>3, <2>5, <2>6, <2>7
<1> QED
  BY <1>1, <1>3, <1>4

LEMMA ChannelStep ==
    ASSUME IInv, NEW mount, NEW blocks \in Nat, NEW nreset, NEW rst, Steps(mount, blocks, nreset, rst)
    PROVE  ChannelInv'
<1>1. c'.slot \in Slots /\ guest' = guest
  BY KindStep DEF KindInv, TransactionKind, IInv, Steps
<1> SUFFICES ASSUME c'.st # "C_IDLE", ~c'.pt, NEW s \in Slots, c'.slot = s
             PROVE  /\ c'.lba = c'.base + c'.idx
                    /\ win'[s].ok => c'.base = win'[s].base /\ c'.lba + Length(c)' <= win'[s].size
                    /\ c'.wr => /\ s \in guest.writers /\ win'[s].ok /\ Cache!Covered' \subseteq win'[s].dirty
                                /\ Ending(s)' /\ writing'[s] /\ lba'[s] - win'[s].base \in Cache!Covered'
                                      => c'.st = "C_REQ"
  BY <1>1 DEF ChannelInv, Ending
<1>2. CASE c.st = "C_IDLE"
  BY <1>2, ChannelBegins
<1>3. CASE c.st # "C_IDLE"
  BY <1>3, ChannelGoesOn
<1> QED
  BY <1>2, <1>3


LEMMA PassFromDecide ==
    ASSUME IInv, est = "E_DECIDE",
           NEW mount, NEW blocks \in Nat, NEW nreset, NEW rst, Steps(mount, blocks, nreset, rst)
    PROVE  /\ est' = "E_PT" => ~Cache!R'.ok /\ (dem'.req => ~dem'.grp)
           /\ est' = "E_FETCH" => Cache!RInWin' /\ (dem'.grp => Cache!RIdx' \div GROUP < Cache!R'.lim)
           /\ e_ack' = {} \/ est' \in {"E_WR_A", "E_RD_A"}
<1> DEFINE in == Inputs(mount, blocks, nreset)
<1>0. in = Inputs(mount, blocks, nreset)
  OBVIOUS
<1> HIDE DEF in
<1>1. /\ r' = r /\ e_ack = {} /\ ~Rebased(r.slot) /\ r.slot \notin mount /\ r.slot \in Slots
  BY EngineStays, FromDecide DEF IInv, CInv, EngineInv, Rebased, Answerings, Readings, Writings
<1>2. \/ /\ est' = "E_PT" /\ Cache!PassesThrough(in)
         /\ dem' = [req |-> TRUE, wr |-> r.wr, pt |-> TRUE, idx |-> 0, grp |-> FALSE]
      \/ /\ est' = "E_FETCH" /\ Cache!Misses(in) /\ ~Cache!PassesThrough(in)
         /\ dem' = [req |-> TRUE, wr |-> FALSE, pt |-> FALSE, idx |-> Cache!RIdx, grp |-> Cache!DemGrp]
      \/ est' \notin {"E_PT", "E_FETCH"}
  BY <1>0, FromDecide DEF IInv, CInv
<1>3. e_ack' = {} \/ est' \in {"E_WR_A", "E_RD_A"}
  BY <1>1, FromDecide DEF IInv, CInv
<1>4. CASE /\ est' = "E_PT" /\ Cache!PassesThrough(in)
           /\ dem' = [req |-> TRUE, wr |-> r.wr, pt |-> TRUE, idx |-> 0, grp |-> FALSE]
  <2>1. Cache!DropsWindow(in, r.slot)
    BY <1>4 DEF Cache!DropsWindow
  <2>2. ~win'[r.slot].ok
    BY <1>0, <1>1, <2>1, WindowGoes DEF IInv, CInv
  <2>3. ~dem'.grp
    BY <1>4
  <2> QED
    BY <1>1, <1>3, <1>4, <2>2, <2>3 DEF Cache!R
<1>5. CASE /\ est' = "E_FETCH" /\ Cache!Misses(in) /\ ~Cache!PassesThrough(in)
           /\ dem' = [req |-> TRUE, wr |-> FALSE, pt |-> FALSE, idx |-> Cache!RIdx, grp |-> Cache!DemGrp]
  <2>1. Cache!RInWin' /\ Cache!RIdx' = Cache!RIdx
    BY <1>0, <1>1, <1>5, RequestStays DEF IInv, Cache!Misses
  <2>2. ~Cache!DropsWindow(in, r.slot)
    BY <1>5 DEF Cache!DropsWindow
  <2>3. win'[r.slot].lim = win[r.slot].lim
    BY <1>0, <1>1, <2>2, WindowGoes DEF IInv, CInv
  <2>4. Cache!DemGrp => Cache!RIdx \div GROUP < Cache!R.lim
    BY DEF Cache!DemGrp
  <2> HIDE DEF Cache!DemGrp
  <2>5. dem'.grp => Cache!DemGrp
    BY <1>5
  <2> QED
    BY <1>1, <1>3, <1>5, <2>1, <2>3, <2>4, <2>5 DEF Cache!R
<1> QED
  BY <1>2, <1>3, <1>4, <1>5

LEMMA PassFromFetch ==
    ASSUME IInv, est = "E_FETCH",
           NEW mount, NEW blocks \in Nat, NEW nreset, NEW rst, Steps(mount, blocks, nreset, rst)
    PROVE  /\ est' # "E_PT" /\ e_ack' = {}
           /\ est' = "E_FETCH" => Cache!RInWin'
           /\ dem'.req /\ dem'.grp => Cache!RIdx' \div GROUP < Cache!R'.lim
<1>1. /\ r' = r /\ est' \in {"E_FETCH", "E_DECIDE"} /\ dem' = Cache!DemandLeft /\ e_ack' = {}
      /\ r.slot \in Slots /\ r.slot \notin mount /\ ~Rebased(r.slot)
  BY EngineStays, FromSettling DEF IInv, CInv, EngineInv, Rebased, Answerings, Readings, Writings
<1>2. ~Cache!PassesThrough(Inputs(mount, blocks, nreset))
      /\ ~Cache!DropsWindow(Inputs(mount, blocks, nreset), r.slot)
  BY DEF Cache!PassesThrough, Cache!Deciding, Cache!DropsWindow
<1>3. Cache!RInWin
  BY DEF IInv, DInv, PassInv
<1>4. Cache!RInWin' /\ Cache!RIdx' = Cache!RIdx
  BY <1>1, <1>2, <1>3, RequestStays DEF IInv
<1>5. win'[r.slot].lim = win[r.slot].lim
  BY <1>1, <1>2, WindowGoes DEF IInv, CInv
<1>6. dem'.req => dem' = dem
  BY <1>1, DemandLeftIs DEF IInv, CInv
<1>7. dem.req /\ dem.grp => Cache!RIdx \div GROUP < Cache!R.lim
  BY DEF IInv, DInv, PassInv
<1> QED
  BY <1>1, <1>4, <1>5, <1>6, <1>7 DEF Cache!R

LEMMA PassFromPassing ==
    ASSUME IInv, est = "E_PT",
           NEW mount, NEW blocks \in Nat, NEW nreset, NEW rst, Steps(mount, blocks, nreset, rst),
           est' = "E_PT"
    PROVE  /\ r' = r /\ ~Cache!R'.ok
           /\ dem'.req => dem'.pt /\ ~dem'.grp /\ e_ack' = {}
           /\ c'.st # "C_IDLE" /\ c'.pt =>
                 c'.lba = r.lba /\ ~c'.grp /\ e_ack' = IF c'.st = "C_XFER" THEN {r.slot} ELSE {}
<1>1. /\ r' = r /\ dem' = Cache!DemandLeft /\ ~(c.st = "C_XFER" /\ c.pt /\ ~hps.on)
      /\ e_ack' = IF c.st # "C_IDLE" /\ c.pt /\ hps.on THEN {r.slot} ELSE e_ack
  BY FromSettling DEF IInv, CInv
<1>2. /\ dem.req => dem.pt
      /\ dem.req => ~(c.st # "C_IDLE" /\ c.pt)
      /\ dem.req \/ (c.st # "C_IDLE" /\ c.pt)
  BY DEF IInv, CInv, DemandInv
<1>3. /\ ~Cache!R.ok
      /\ dem.req => ~dem.grp /\ e_ack = {}
      /\ c.st # "C_IDLE" /\ c.pt => /\ c.lba = r.lba /\ ~c.grp
                                    /\ e_ack = IF c.st = "C_XFER" THEN {r.slot} ELSE {}
  BY <1>2 DEF IInv, DInv, PassInv
<1>4. ~Cache!R'.ok
  <2>1. ~Cache!PassesThrough(Inputs(mount, blocks, nreset))
    BY DEF Cache!PassesThrough, Cache!Deciding
  <2>2. win'[r.slot].ok <=> win[r.slot].ok
    BY <1>1, <2>1, RequestStays DEF IInv
  <2> QED
    BY <1>1, <1>3, <2>2 DEF Cache!R
<1>5. dem'.req => dem'.pt /\ ~dem'.grp /\ e_ack' = {}
  <2>1. dem'.req => dem' = dem
    BY <1>1, DemandLeftIs DEF IInv, CInv
  <2> QED
    BY <1>1, <1>2, <1>3, <2>1
<1>6. CASE c.st # "C_IDLE"
  <2>1. c'.st # "C_IDLE" =>
           /\ c'.st = (IF hps.on THEN "C_XFER" ELSE "C_REQ")
           /\ c'.pt = c.pt /\ c'.lba = c.lba /\ c'.grp = c.grp /\ (~hps.on => c.st = "C_REQ")
    BY <1>6, GoneOn DEF IInv, CInv
  <2> QED
    BY <1>1, <1>3, <1>4, <1>5, <1>6, <2>1
<1>7. CASE c.st = "C_IDLE"
  <2>1. dem.req /\ dem.pt /\ ~dem.grp /\ e_ack = {}
    BY <1>2, <1>3, <1>7
  <2>2. c'.st = "C_REQ" /\ IsDemand
    BY <1>7, <2>1, Begun DEF IInv, CInv, IsFlush, IsPrefetch
  <2>3. c'.lba = r.lba /\ ~c'.grp
    BY <2>1, <2>2 DEF IsDemand
  <2> QED
    BY <1>1, <1>4, <1>5, <1>7, <2>1, <2>2, <2>3
<1> QED
  BY <1>6, <1>7

LEMMA PassStep ==
    ASSUME IInv, CInv', NEW mount, NEW blocks \in Nat, NEW nreset, NEW rst, Steps(mount, blocks, nreset, rst)
    PROVE  PassInv'
<1>1. /\ dem'.req /\ dem'.pt => est' = "E_PT"
      /\ dem'.req /\ ~dem'.pt => est' = "E_FETCH"
      /\ c'.st # "C_IDLE" /\ c'.pt => est' = "E_PT"
  BY DEF CInv, DemandInv
<1>2. est \in EngStates
  BY DEF IInv, CInv, KindInv
<1>3. CASE est' \notin {"E_PT", "E_FETCH"}
  BY <1>1, <1>3 DEF PassInv
<1>4. CASE est' = "E_PT"
  <2>1. est \in {"E_DECIDE", "E_PT"}
    BY <1>2, <1>4, FromIdle, FromSettling, FromAnswering
       DEF IInv, CInv, EngStates, Answerings, Readings, Writings
  <2>2. CASE est = "E_DECIDE"
    <3>1. ~(c'.st # "C_IDLE" /\ c'.pt)
      BY <2>2, NothingPasses DEF IInv
    <3>2. ~Cache!R'.ok /\ (dem'.req => ~dem'.grp) /\ e_ack' = {}
      BY <1>4, <2>2, PassFromDecide
    <3> QED
      BY <1>4, <3>1, <3>2 DEF PassInv
  <2>3. CASE est = "E_PT"
    <3>1. /\ r' = r /\ ~Cache!R'.ok
          /\ dem'.req => dem'.pt /\ ~dem'.grp /\ e_ack' = {}
          /\ c'.st # "C_IDLE" /\ c'.pt =>
                 c'.lba = r.lba /\ ~c'.grp /\ e_ack' = IF c'.st = "C_XFER" THEN {r.slot} ELSE {}
      BY <1>4, <2>3, PassFromPassing
    <3> QED
      BY <1>4, <3>1 DEF PassInv
  <2> QED
    BY <2>1, <2>2, <2>3
<1>5. CASE est' = "E_FETCH"
  <2>1. est \in {"E_DECIDE", "E_FETCH"}
    BY <1>2, <1>5, FromIdle, FromSettling, FromAnswering
       DEF IInv, CInv, EngStates, Answerings, Readings, Writings
  <2>2. Cache!RInWin' /\ (dem'.req /\ dem'.grp => Cache!RIdx' \div GROUP < Cache!R'.lim)
    BY <1>5, <2>1, PassFromDecide, PassFromFetch
  <2> QED
    BY <1>1, <1>5, <2>2 DEF PassInv
<1> QED
  BY <1>3, <1>4, <1>5


LEMMA BuffersStep ==
    ASSUME IInv, NEW mount, NEW blocks \in Nat, NEW nreset, NEW rst, Steps(mount, blocks, nreset, rst),
           ImageGoes(mount), NEW s \in Slots
    PROVE  /\ DOMAIN sd_buff'[s] = Words
           /\ busy'[s] /\ writing'[s] => \A w \in Words : sd_buff'[s][w] = Offered(s)'
<1>1. Stays(s) \/ Begins(s)
  BY PortGoes DEF IInv, CInv
<1>2. CASE Stays(s)
  <2>1. DOMAIN sd_buff'[s] = Words
    BY <1>2, BufferGoes
  <2>2. ASSUME busy'[s], writing'[s], NEW w \in Words PROVE sd_buff'[s][w] = Offered(s)'
    <3>1. busy[s] /\ writing[s] /\ ~Ending(s)
      BY <1>2, <2>2 DEF Stays, Ending
    <3>2. Offered(s)' = Offered(s)
      BY <1>2, <3>1, OfferedStays
    <3>3. sd_buff[s][w] = Offered(s)
      BY <3>1 DEF IInv, DInv, BufferInv
    <3>4. ~e_buff.wr
      <4>1. SUFFICES ASSUME e_buff.wr PROVE FALSE
        OBVIOUS
      <4>2. est # "E_IDLE" /\ ~r.wr
        BY <4>1 DEF IInv, DInv, BufferInv
      <4> QED
        BY <3>1, <4>2, EndsAtRest DEF IInv
    <3>5. sd_buff'[s] = sd_buff[s]
      BY <1>2, <3>4 DEF Stays
    <3> QED
      BY <3>2, <3>3, <3>5
  <2> QED
    BY <2>1, <2>2
<1>3. CASE Begins(s)
  <2>1. ~Swaps(mount)
    <3>1. SUFFICES ASSUME Swaps(mount) PROVE FALSE
      OBVIOUS
    <3>2. io'[s] = io[s]
      BY <3>1 DEF Swaps
    <3>3. io[s] = "none" /\ io'[s] \in {"rd", "wr"}
      BY <1>3 DEF Begins, Free
    <3> QED
      BY <3>2, <3>3
  <2>2. cur' = Latest
    BY <2>1 DEF ImageGoes
  <2>3. writing'[s] => \A w \in Words : sd_buff'[s][w] = Offered(s)'
    BY <1>3, <2>2 DEF Begins, Sector, Offered, Watched
  <2> QED
    BY <1>3, <2>3 DEF Begins
<1> QED
  BY <1>1, <1>2, <1>3

\* The engine puts what the target offers into the store, word by word.
LEMMA WritingStep ==
    ASSUME IInv, est \in Writings,
           NEW mount, NEW blocks \in Nat, NEW nreset, NEW rst, Steps(mount, blocks, nreset, rst),
           ImageGoes(mount), NEW s \in Slots, s = r.slot, NEW i \in Cache!Sectors, i = Cache!RIdx,
           NEW w \in Words, w < r.word \/ (w = r.word /\ est = "E_WR_C")
    PROVE  Stored(s, i, w)' = Offered(s)'
<1>1. r.wr /\ r.word \in Words /\ busy[s] /\ writing[s] /\ est # "E_IDLE"
  <2>1. est # "E_IDLE" /\ r.wr /\ r.word \in Words
    BY DEF IInv, CInv, EngineInv, Answerings, Writings
  <2> QED
    BY <2>1, EndsAtRest DEF IInv
<1>2. Offered(s)' = Offered(s)
  BY <1>1, AtWork
<1>3. sd_buff[s][w] = Offered(s)
  BY <1>1 DEF IInv, DInv, BufferInv
<1>4. ~Lands(s, i, w)
  <2>1. SUFFICES ASSUME Lands(s, i, w) PROVE FALSE
    OBVIOUS
  <2>2. /\ c.st # "C_IDLE" /\ ~c.pt /\ c.slot = s /\ i \in Cache!Covered
    BY <2>1, WordIs, CoveredIs DEF Lands, IInv
  <2> QED
    BY <2>2 DEF IInv, CInv, WriteInv
<1>5. CASE w = r.word /\ est = "E_WR_C"
  BY <1>2, <1>3, <1>5, StoredGoes
<1>6. CASE ~(w = r.word /\ est = "E_WR_C")
  <2>1. w \in 0..(r.word - 1)
    BY <1>1, <1>6, Geometry DEF Words
  <2>2. Stored(s, i, w) = Offered(s)
    BY <2>1 DEF IInv, DInv, BufferInv
  <2> QED
    BY <1>2, <1>4, <1>6, <2>2, StoredGoes
<1> QED
  BY <1>5, <1>6

\* A request at work keeps its sector.
LEMMA AnsweringStays ==
    ASSUME IInv, est \in Readings \cup Writings,
           NEW mount, NEW blocks \in Nat, NEW nreset, NEW rst, Steps(mount, blocks, nreset, rst)
    PROVE  /\ r'.slot = r.slot /\ r'.lba = r.lba /\ (r'.wr <=> r.wr) /\ Cache!RIdx' = Cache!RIdx
           /\ r.word \in Words /\ r'.word \in Words /\ Cache!RIdx \in Cache!Sectors /\ r.slot \in Slots
           /\ r'.word = r.word \/ (r'.word = r.word + 1 /\ est \in {"E_RD_C", "E_WR_C"})
           /\ est \in Readings => est' \in Readings \cup {"E_DONE"} /\ ~r.wr
           /\ est \in Writings => est' \in Writings \cup {"E_DONE"} /\ r.wr
           /\ est' = "E_DONE" => r.word = WORDS - 1 /\ est \in {"E_RD_C", "E_WR_C"}
           /\ r.slot \notin mount /\ ~Rebased(r.slot) /\ Cache!RInWin
           /\ ~Cache!DropsWindow(Inputs(mount, blocks, nreset), r.slot)
<1>1. /\ r'.slot = r.slot /\ r'.lba = r.lba /\ r'.wr = r.wr
      /\ r'.word = r.word \/ (r'.word = r.word + 1 /\ r.word # WORDS - 1 /\ est \in {"E_RD_C", "E_WR_C"})
  BY FromAnswering DEF IInv, CInv, Answerings, Readings, Writings
<1>2. r.word \in Words /\ Cache!RInWin
  BY DEF IInv, CInv, EngineInv, Answerings
<1>3. r'.word \in Words
  BY <1>1, <1>2, Geometry DEF Words
<1>4. ~Cache!PassesThrough(Inputs(mount, blocks, nreset)) /\ ~Rebased(r.slot)
      /\ ~Cache!DropsWindow(Inputs(mount, blocks, nreset), r.slot)
  BY DEF Cache!PassesThrough, Cache!Deciding, Cache!DropsWindow, Rebased, Readings, Writings
<1>5. Cache!RIdx' = Cache!RIdx
  BY <1>1, <1>4, RequestStays DEF IInv, Readings, Writings
<1>6. /\ est \in Readings => est' \in Readings \cup {"E_DONE"}
      /\ est \in Writings => est' \in Writings \cup {"E_DONE"}
      /\ est' = "E_DONE" => r.word = WORDS - 1 /\ est \in {"E_RD_C", "E_WR_C"}
  BY FromAnswering DEF IInv, CInv, Answerings, Readings, Writings
<1>7. /\ est \in Readings => ~r.wr
      /\ est \in Writings => r.wr
  BY DEF IInv, CInv, EngineInv
<1>8. Cache!RIdx \in Cache!Sectors /\ r.slot \in Slots /\ r.slot \notin mount
  <2>1. est # "E_IDLE"
    BY DEF Readings, Writings
  <2> QED
    BY <2>1, IdxIs, EngineStays DEF IInv, CInv
<1> QED
  BY <1>1, <1>2, <1>3, <1>4, <1>5, <1>6, <1>7, <1>8

LEMMA ToWriting ==
    ASSUME IInv, NEW mount, NEW blocks \in Nat, NEW nreset, NEW rst, Steps(mount, blocks, nreset, rst)
    PROVE  /\ est' \in Writings => est \in Writings \/ (est = "E_DECIDE" /\ r' = r)
           /\ est' \in Readings => est \in Readings \/ (est = "E_DECIDE" /\ r' = r)
           /\ est' = "E_DONE" => est \in {"E_RD_C", "E_WR_C"}
           /\ est' = "E_PT" => est \in {"E_DECIDE", "E_PT"}
<1>1. est \in EngStates
  BY DEF IInv, CInv, KindInv
<1>2. CASE est = "E_IDLE"
  <2>1. est' \in {"E_IDLE", "E_DECIDE"}
    BY <1>2, FromIdle DEF IInv, CInv
  <2> QED
    BY <1>2, <2>1 DEF Readings, Writings
<1>3. CASE est = "E_DECIDE"
  <2>1. r' = r /\ est' # "E_DONE"
    BY <1>3, FromDecide DEF IInv, CInv
  <2> QED
    BY <1>3, <2>1
<1>4. CASE est \in {"E_FLUSHALL", "E_REBASE", "E_FETCH", "E_PT"}
  <2>1. /\ est' \in {"E_FLUSHALL", "E_REBASE", "E_FETCH", "E_PT", "E_DECIDE", "E_IDLE"}
        /\ est' = "E_PT" => est = "E_PT"
    BY <1>4, FromSettling DEF IInv, CInv
  <2> QED
    BY <2>1 DEF Readings, Writings
<1>5. CASE est = "E_DONE"
  <2>1. est' = "E_IDLE"
    BY <1>5, FromAnswering DEF IInv, CInv, Answerings
  <2> QED
    BY <2>1 DEF Readings, Writings
<1>6. CASE est \in Readings \cup Writings
  <2>1. /\ est \in Readings => est' \in Readings \cup {"E_DONE"}
        /\ est \in Writings => est' \in Writings \cup {"E_DONE"}
        /\ est' = "E_DONE" => est \in {"E_RD_C", "E_WR_C"}
    BY <1>6, AnsweringStays
  <2> QED
    BY <1>6, <2>1 DEF Readings, Writings
<1> QED
  BY <1>1, <1>2, <1>3, <1>4, <1>5, <1>6 DEF EngStates, Readings, Writings

LEMMA BufferStep ==
    ASSUME IInv, CInv', NEW mount, NEW blocks \in Nat, NEW nreset, NEW rst, Steps(mount, blocks, nreset, rst),
           ImageGoes(mount)
    PROVE  BufferInv'
<1>1. DOMAIN e_buff' = {"wr", "addr", "dout"}
  BY EngineBuffer
<1>2. \A s \in Slots : /\ DOMAIN sd_buff'[s] = Words
                       /\ busy'[s] /\ writing'[s] => \A w \in Words : sd_buff'[s][w] = Offered(s)'
  BY BuffersStep
<1>3. e_buff'.wr => est' \in {"E_RD_A", "E_DONE", "E_PT"} /\ ~r'.wr
  <2>1. SUFFICES ASSUME e_buff'.wr PROVE est' \in {"E_RD_A", "E_DONE", "E_PT"} /\ ~r'.wr
    OBVIOUS
  <2>2. CASE est = "E_RD_C"
    <3>1. est' \in {"E_RD_A", "E_DONE"}
      BY <2>2, FromAnswering DEF IInv, CInv, Answerings, Readings
    <3>2. ~r'.wr
      BY <2>2, AnsweringStays DEF Readings
    <3> QED
      BY <3>1, <3>2
  <2>3. CASE est = "E_PT"
    <3>1. hps.on /\ hps.strobe /\ c.st # "C_IDLE" /\ c.pt
      BY <2>1, <2>3, EngineBuffer
    <3>2. ~c.wr
      BY <3>1, WordIs DEF IInv
    <3>3. ~r.wr /\ est' = "E_PT" /\ r' = r
      BY <2>3, <3>1, <3>2, FromSettling DEF IInv, CInv, DemandInv
    <3> QED
      BY <3>3
  <2> QED
    BY <2>1, <2>2, <2>3, EngineBuffer
<1>4. wr_q'.on => /\ est' \in {"E_WR_A", "E_DONE"} /\ r'.wr
                  /\ wr_q'.slot = r'.slot /\ wr_q'.idx = Cache!RIdx'
  <2>1. SUFFICES ASSUME wr_q'.on
                 PROVE  /\ est' \in {"E_WR_A", "E_DONE"} /\ r'.wr
                        /\ wr_q'.slot = r'.slot /\ wr_q'.idx = Cache!RIdx'
    OBVIOUS
  <2>2. est = "E_WR_C" /\ wr_q'.slot = r.slot /\ wr_q'.idx = Cache!RIdx
    BY <2>1, EngineWrites
  <2>3. est' \in {"E_WR_A", "E_DONE"}
    BY <2>2, FromAnswering DEF IInv, CInv, Answerings, Writings
  <2> QED
    BY <2>2, <2>3, AnsweringStays DEF Writings
<1>5. ASSUME est' \in Writings, NEW w \in 0..(r'.word - 1), NEW s \in Slots, s = r'.slot,
             NEW i \in Cache!Sectors, i = Cache!RIdx'
      PROVE  Stored(s, i, w)' = Offered(s)'
  <2>1. est \in Writings \/ (est = "E_DECIDE" /\ r' = r)
    BY <1>5, ToWriting
  <2>2. CASE est = "E_DECIDE" /\ r' = r
    <3>1. r.word = 0
      BY <2>2 DEF IInv, CInv, EngineInv, Answerings, Readings, Writings
    <3> QED
      BY <1>5, <2>2, <3>1
  <2>3. CASE est \in Writings
    <3>1. /\ s = r.slot /\ i = Cache!RIdx /\ r.word \in Words /\ r'.word \in Words
          /\ r'.word = r.word \/ (r'.word = r.word + 1 /\ est = "E_WR_C")
      BY <1>5, <2>3, AnsweringStays DEF Writings
    <3>2. w \in Words /\ (w < r.word \/ (w = r.word /\ est = "E_WR_C"))
      BY <1>5, <3>1, Geometry DEF Words
    <3> QED
      BY <2>3, <3>1, <3>2, WritingStep
  <2> QED
    BY <2>1, <2>2, <2>3
<1>6. r'.slot \in Slots /\ Cache!RIdx' \in Cache!Sectors
  <2>1. r'.slot \in Slots
    BY DEF CInv, KindInv
  <2>2. KindInv'
    BY DEF CInv
  <2>3. Cache!RIdx' \in Cache!Sectors
    <3>1. GROUP \in Nat \ {0} /\ SECT \in Nat \ {0} /\ Cache!Sectors = 0..(SECT - 1)
      BY Geometry
    <3>2. r'.lba - Cache!R'.base \in Int
      BY <2>1, <2>2 DEF KindInv, Windows, Cache!R
    <3> QED
      BY <3>1, <3>2 DEF Cache!RIdx
  <2> QED
    BY <2>1, <2>3
<1>7. est' \in Writings => \A w \in 0..(r'.word - 1) : Stored(r.slot, Cache!RIdx, w)' = Offered(r.slot)'
  <2>1. SUFFICES ASSUME est' \in Writings, NEW w \in 0..(r'.word - 1)
                 PROVE  Stored(r.slot, Cache!RIdx, w)' = Offered(r.slot)'
    OBVIOUS
  <2>2. PICK s \in Slots, i \in Cache!Sectors : s = r'.slot /\ i = Cache!RIdx'
    BY <1>6
  <2>3. Stored(s, i, w)' = Offered(s)'
    BY <1>5, <2>1, <2>2
  <2> QED
    BY <2>2, <2>3 DEF Stored, Offered
<1> QED
  BY <1>1, <1>2, <1>3, <1>4, <1>7 DEF BufferInv

-----------------------------------------------------------------------------
(* What goes out to the image.                                             *)

\* A word of a transaction is a word of one of its sectors, and the other way
\* round.
LEMMA BlockIs ==
    ASSUME CInv, NEW k \in 0..(Length(c) * WORDS - 1)
    PROVE  Block(k) \in 0..(Length(c) - 1) /\ WordAt(k) \in Words /\ k \in Nat
<1> DEFINE q == k \div WORDS
           m == k % WORDS
           n == Length(c)
<1>1. n \in Nat \ {0} /\ WORDS \in Nat \ {0, 1} /\ n * WORDS \in Nat
  <2>1. n \in Nat \ {0} /\ WORDS \in Nat \ {0, 1}
    BY Geometry DEF Length, CInv, KindInv
  <2> QED
    BY <2>1
<1>2. k \in Nat /\ k < n * WORDS
  BY <1>1
<1>3. q \in Nat /\ m \in 0..(WORDS - 1) /\ k = WORDS * q + m
  BY <1>1, <1>2, Division
<1>4. ~(q >= n)
  <2> HIDE DEF q, m, n
  <2>1. SUFFICES ASSUME q >= n PROVE FALSE
    OBVIOUS
  <2>2. WORDS * q >= WORDS * n
    BY <1>1, <1>3, <2>1
  <2>3. WORDS * n = n * WORDS /\ WORDS * q \in Nat
    BY <1>1, <1>3
  <2> QED
    BY <1>1, <1>2, <1>3, <2>2, <2>3
<1>5. q \in 0..(n - 1)
  <2> HIDE DEF q, m, n
  <2> QED
    BY <1>1, <1>3, <1>4
<1> QED
  BY <1>2, <1>3, <1>5 DEF Block, WordAt, Words

LEMMA BlockOf ==
    ASSUME NEW n \in Nat \ {0}, NEW b \in 0..(n - 1), NEW w \in Words
    PROVE  \E k \in 0..(n * WORDS - 1) : Block(k) = b /\ WordAt(k) = w
<1>1. WORDS \in Nat \ {0, 1} /\ w \in Nat /\ w < WORDS /\ b \in Nat
  BY Geometry DEF Words
<1> DEFINE k == WORDS * b + w
<1>2. k \div WORDS = b /\ k % WORDS = w
  BY <1>1, Quotient
<1>3. WORDS * b + WORDS <= WORDS * n
  BY <1>1, Below
<1>4. k \in 0..(n * WORDS - 1)
  <2>1. WORDS * n = n * WORDS /\ WORDS * b \in Nat /\ n * WORDS \in Nat
    BY <1>1
  <2> QED
    BY <1>1, <1>3, <2>1
<1> QED
  BY <1>2, <1>4 DEF Block, WordAt

\* A flush finds what is to go out in the store, whole.
LEMMA OutIs ==
    ASSUME IInv, c.st # "C_IDLE", ~c.pt, c.wr, NEW b \in 0..(Length(c) - 1),
           NEW s \in Slots, s = c.slot, NEW i \in Cache!Sectors, i = c.idx + b, NEW w \in Words
    PROVE  /\ i \in win[s].dirty /\ win[s].ok /\ win[s].base + i = c.lba + b /\ i \in Cache!Covered
           /\ store[s][i][w] = Content(s, c.lba + b)
<1>1. i \in Cache!Covered
  BY CoveredIs DEF IInv
<1>2. win[s].ok /\ i \in win[s].dirty /\ c.lba = c.base + c.idx /\ c.base = win[s].base
  BY <1>1 DEF IInv, DInv, ChannelInv
<1>3. win[s].base + i = c.lba + b
  <2>1. win[s].base \in Nat /\ c.idx \in Nat /\ b \in Nat
    <3>1. c.idx \in Nat
      BY Geometry DEF IInv, CInv, KindInv, TransactionKind
    <3>2. win[s].base \in Nat
      BY DEF IInv, CInv, KindInv, Windows
    <3>3. Length(c) \in Nat
      BY Geometry DEF Length, IInv, CInv, KindInv
    <3> QED
      BY <3>1, <3>2, <3>3
  <2> QED
    BY <1>2, <2>1
<1>4. i \in win[s].valid
  BY <1>2 DEF IInv, CInv, WindowInv
<1>5. ~BeingWritten(s, i)
  BY <1>1 DEF BeingWritten, IInv, CInv, WriteInv
<1>6. Stored(s, i, w) = Content(s, c.lba + b)
  BY <1>2, <1>3, <1>4, <1>5 DEF IInv, DInv, StoreInv
<1>7. ~(wr_q.on /\ wr_q.slot = s /\ wr_q.idx = i)
  <2>1. SUFFICES ASSUME wr_q.on, wr_q.slot = s, wr_q.idx = i PROVE FALSE
    OBVIOUS
  <2>2. est \in {"E_WR_A", "E_DONE"} /\ r.wr /\ s = r.slot /\ i = Cache!RIdx
    BY <2>1 DEF IInv, DInv, BufferInv
  <2> QED
    BY <1>1, <2>2 DEF IInv, CInv, WriteInv, Writings
<1> QED
  BY <1>1, <1>2, <1>3, <1>6, <1>7 DEF Stored

\* No write of Watch is pending when it goes out.
LEMMA OutIsOver ==
    ASSUME IInv, c.st = "C_XFER", ~c.pt, c.wr, c.slot = 0, NEW i \in Cache!Covered,
           win[0].base + i = Watch
    PROVE  ~Pending /\ Version = cur /\ 0 \in Slots
<1>0. 0 \in Slots /\ win[0].ok /\ win[0].base \in Nat /\ i \in Nat
  <2>1. 0 \in Slots /\ win[0].ok
    BY Geometry DEF IInv, DInv, ChannelInv
  <2>2. i \in Cache!Sectors
    BY DEF Cache!Covered, Cache!InGroup, IInv, CInv, KindInv, TransactionKind
  <2> QED
    BY <2>1, <2>2, Geometry DEF IInv, CInv, KindInv, Windows
<1>1. SUFFICES ASSUME Pending PROVE FALSE
  BY <1>0 DEF Version
<1>2. busy[0] /\ writing[0] /\ lba[0] = Watch
  BY <1>1 DEF Pending, WritingWatch
<1>3. CASE est = "E_DONE"
  <2>1. r.slot = 0 /\ r.wr /\ r.lba = Watch
    BY <1>0, <1>2, <1>3, EndsAtRest DEF IInv
  <2>2. Cache!RInWin /\ Cache!RIdx \notin Cache!Covered
    BY <1>3, <2>1 DEF IInv, CInv, EngineInv, WriteInv, Answerings
  <2>3. win[0].base + Cache!RIdx = Watch /\ Cache!RIdx \in Nat
    BY <2>1, <2>2, IdxIs, SectorIs DEF IInv, CInv, Cache!R
  <2>4. Cache!RIdx = i
    BY <1>0, <2>3
  <2> QED
    BY <2>2, <2>4
<1>4. CASE Ending(0)
  <2>1. lba[0] - win[0].base = i
    BY <1>0, <1>2
  <2> QED
    BY <1>0, <1>2, <1>4, <2>1 DEF IInv, DInv, ChannelInv
<1> QED
  BY <1>1, <1>3, <1>4 DEF Pending

\* What passes the cache is what its target offers.
LEMMA PassedOut ==
    ASSUME IInv, c.st = "C_XFER", c.pt, c.wr, NEW k \in 0..(Length(c) * WORDS - 1)
    PROVE  /\ Block(k) = 0 /\ WordAt(k) \in Words /\ c.lba + Block(k) = r.lba /\ est = "E_PT" /\ r.slot = c.slot
           /\ r.wr /\ ~Cache!R.ok /\ busy[c.slot] /\ writing[c.slot] /\ lba[c.slot] = r.lba
           /\ PBuffDin(k) = Offered(c.slot)
<1>1. est = "E_PT" /\ c.slot = r.slot /\ r.wr /\ c.lba = r.lba /\ ~c.grp /\ e_ack = {r.slot} /\ ~Cache!R.ok
  BY DEF IInv, CInv, DemandInv, DInv, PassInv
<1>2. Length(c) = 1
  BY <1>1 DEF Length
<1>3. Block(k) \in 0..(Length(c) - 1) /\ WordAt(k) \in Words
  BY BlockIs DEF IInv
<1>4. Block(k) = 0
  BY <1>2, <1>3
<1>5. r.lba \in Nat
  BY DEF IInv, CInv, KindInv
<1>6. busy[r.slot] /\ writing[r.slot] /\ r.slot \in Slots /\ lba[r.slot] = r.lba
  BY <1>1, EndsAtRest DEF IInv
<1>7. sd_buff[r.slot][WordAt(k)] = Offered(r.slot)
  BY <1>3, <1>6 DEF IInv, DInv, BufferInv
<1>8. AckSel = r.slot
  BY <1>1, AckSelIs DEF IInv, CInv
<1> QED
  BY <1>1, <1>3, <1>4, <1>5, <1>6, <1>7, <1>8 DEF PBuffDin

\* Every word that goes out is right.
LEMMA SampleIs ==
    ASSUME IInv, c.st = "C_XFER", c.wr, NEW k \in 0..(Length(c) * WORDS - 1)
    PROVE  PBuffDin(k) = IF ~Watched(c.slot, c.lba + Block(k)) THEN Other(c.slot)
                         ELSE IF c.pt THEN Newer(cur) ELSE cur
<1>1. Block(k) \in 0..(Length(c) - 1) /\ WordAt(k) \in Words /\ c.slot \in Slots
  BY BlockIs DEF IInv, CInv, KindInv, TransactionKind
<1>2. CASE c.pt
  <2>1. /\ c.lba + Block(k) = r.lba /\ lba[c.slot] = r.lba
        /\ PBuffDin(k) = Offered(c.slot)
    BY <1>2, PassedOut
  <2> QED
    BY <1>2, <2>1 DEF Offered
<1>3. CASE ~c.pt
  <2> DEFINE i == c.idx + Block(k)
             s == c.slot
  <2>1. i \in Cache!Sectors /\ i \in Cache!Covered /\ s \in Slots
    BY <1>1, CoveredIs DEF IInv
  <2>2. PBuffDin(k) = store[s][i][WordAt(k)]
    BY <1>3 DEF PBuffDin
  <2>3. s = c.slot /\ i = c.idx + Block(k)
    OBVIOUS
  <2> HIDE DEF i, s
  <2>4. /\ win[s].base + i = c.lba + Block(k)
        /\ store[s][i][WordAt(k)] = Content(s, c.lba + Block(k))
    BY <1>1, <1>3, <2>1, <2>3, OutIs
  <2>5. CASE Watched(s, c.lba + Block(k))
    <3>1. s = 0 /\ c.lba + Block(k) = Watch
      BY <2>5 DEF Watched
    <3>2. c.slot = 0 /\ win[0].base + i = Watch
      BY <2>3, <2>4, <3>1
    <3>3. Version = cur
      BY <1>3, <2>1, <3>2, OutIsOver
    <3> QED
      BY <1>3, <2>2, <2>3, <2>4, <2>5, <3>3 DEF Content
  <2>6. CASE ~Watched(s, c.lba + Block(k))
    BY <2>2, <2>3, <2>4, <2>6 DEF Content
  <2> QED
    BY <2>5, <2>6
<1> QED
  BY <1>2, <1>3


LEMMA CoveredOf ==
    ASSUME CInv, c.st # "C_IDLE", NEW i \in Cache!Covered
    PROVE  \E b \in 0..(Length(c) - 1) : i = c.idx + b
<1>1. c.idx \in Cache!Sectors /\ Cache!Sectors \subseteq Nat /\ GROUP \in Nat \ {0}
  BY Geometry DEF CInv, KindInv, TransactionKind
<1>2. CASE c.grp
  <2>1. i \in Cache!InGroup(c.idx) /\ Length(c) = GROUP /\ c.idx % GROUP = 0
    BY <1>2 DEF Cache!Covered, Length, CInv, HpsInv
  <2>2. i \in Nat /\ i \div GROUP = c.idx \div GROUP /\ c.idx \in Nat
    BY <1>1, <2>1 DEF Cache!InGroup
  <2> DEFINE q == c.idx \div GROUP
             m == i % GROUP
  <2>3. q \in Nat /\ c.idx = GROUP * q + (c.idx % GROUP)
    BY <1>1, <2>2, Division
  <2>4. m \in 0..(GROUP - 1) /\ i = GROUP * (i \div GROUP) + m
    BY <1>1, <2>2, Division
  <2>5. i = GROUP * q + m
    BY <2>2, <2>4
  <2> HIDE DEF q, m
  <2>6. c.idx = GROUP * q /\ GROUP * q \in Nat
    BY <1>1, <2>1, <2>3
  <2> QED
    BY <2>1, <2>4, <2>5, <2>6
<1>3. CASE ~c.grp
  <2>1. Length(c) = 1
    BY <1>3 DEF Length
  <2>2. i = c.idx
    BY <1>3 DEF Cache!Covered
  <2>3. c.idx \in Nat
    BY <1>1, Zenon
  <2>4. 0 \in 0..(Length(c) - 1) /\ i = c.idx + 0
    BY <2>1, <2>2, <2>3
  <2> QED
    BY <2>4
<1> QED
  BY <1>2, <1>3

\* The image is another one only where a word goes out.
LEMMA DiskStays ==
    ASSUME IInv, NEW mount, NEW blocks \in Nat, NEW nreset, NEW rst, Steps(mount, blocks, nreset, rst),
           ImageGoes(mount), ~Swaps(mount)
    PROVE  disk' = disk \/ (/\ hps.on /\ c.wr /\ c.st = "C_XFER" /\ Watched(c.slot, c.lba + Block(hps.k))
                            /\ hps.k \in 0..(Length(c) * WORDS - 1))
<1>1. SUFFICES ASSUME disk' # disk
               PROVE  /\ hps.on /\ c.wr /\ c.st = "C_XFER" /\ Watched(c.slot, c.lba + Block(hps.k))
                      /\ hps.k \in 0..(Length(c) * WORDS - 1)
  OBVIOUS
<1>2. Samples
  BY <1>1 DEF ImageGoes, Keeps
<1>3. hps.on /\ hps.wr /\ c.st = "C_XFER" /\ Watched(hps.slot, hps.lba + Block(hps.k)) /\ hps.k < Total
  BY <1>1, <1>2 DEF Samples
<1>4. hps.slot = c.slot /\ hps.wr = c.wr /\ hps.lba = c.lba /\ hps.n = Length(c) /\ hps.k \in Nat
  BY <1>3 DEF IInv, CInv, HpsInv, KindInv
<1>5. Length(c) * WORDS \in Nat /\ Total = Length(c) * WORDS
  BY <1>4, Geometry DEF Total, Length, IInv, CInv, KindInv
<1> QED
  BY <1>3, <1>4, <1>5

\* Nothing goes out to a sector that a window holds clean.
LEMMA CleanStays ==
    ASSUME IInv, NEW mount, NEW blocks \in Nat, NEW nreset, NEW rst, Steps(mount, blocks, nreset, rst),
           ImageGoes(mount), NEW s \in Slots, s = 0 => ~Swaps(mount), win[s].ok,
           NEW i \in Cache!Sectors, i \notin win[s].dirty,
           NEW l, l = win[s].base + i, NEW w \in Words
    PROVE  DiskWord(s, l, w)' = DiskWord(s, l, w)
<1>1. SUFFICES ASSUME Watched(s, l) PROVE disk' = disk
  BY DEF DiskWord, Watched
<1>2. s = 0 /\ l = Watch /\ ~Swaps(mount)
  BY <1>1 DEF Watched
<1>3. SUFFICES ASSUME hps.on, c.wr, c.st = "C_XFER", Watched(c.slot, c.lba + Block(hps.k)),
                      hps.k \in 0..(Length(c) * WORDS - 1)
               PROVE  FALSE
  BY <1>2, DiskStays
<1>4. c.slot = s /\ c.lba + Block(hps.k) = l
  BY <1>2, <1>3 DEF Watched
<1>5. CASE c.pt
  BY <1>3, <1>4, <1>5, PassedOut DEF Cache!R
<1>6. CASE ~c.pt
  <2>1. Block(hps.k) \in 0..(Length(c) - 1)
    BY <1>3, BlockIs DEF IInv
  <2> DEFINE j == c.idx + Block(hps.k)
  <2>2. j \in Cache!Sectors /\ j \in Nat
    BY <1>3, <2>1, CoveredIs DEF IInv
  <2>3. j = c.idx + Block(hps.k)
    OBVIOUS
  <2> HIDE DEF j
  <2>4. Length(c) \in Nat /\ WORDS \in Nat \ {0, 1}
    BY Geometry DEF Length, IInv, CInv, KindInv
  <2>5. PICK v \in Words : v = 0
    BY <2>4 DEF Words
  <2>6. j \in win[s].dirty /\ win[s].base + j = c.lba + Block(hps.k)
    BY <1>3, <1>4, <1>6, <2>1, <2>2, <2>3, <2>5, OutIs
  <2>7. win[s].base \in Nat /\ i \in Nat
    BY Geometry DEF IInv, CInv, KindInv, Windows
  <2>8. j = i
    BY <1>4, <2>2, <2>6, <2>7
  <2> QED
    BY <2>6, <2>8
<1> QED
  BY <1>5, <1>6

\* What has gone out is in the image.
LEMMA FlushedIs ==
    ASSUME IInv, c.st = "C_XFER", ~hps.on, c.wr, ~c.pt, NEW s \in Slots, s = c.slot,
           NEW i \in Cache!Covered, NEW w \in Words, NEW l, l = win[s].base + i
    PROVE  /\ DiskWord(s, l, w) = Content(s, l) /\ win[s].ok /\ i \in win[s].dirty
           /\ Watched(s, l) => disk[w] = cur /\ Version = cur /\ ~Pending
<1>1. PICK b \in 0..(Length(c) - 1) : i = c.idx + b
  BY CoveredOf DEF IInv
<1>2. i \in Cache!Sectors /\ Length(c) \in Nat \ {0}
  <2>1. i \in Cache!Sectors
    BY DEF Cache!Covered, Cache!InGroup, IInv, CInv, KindInv, TransactionKind
  <2> QED
    BY <2>1, Geometry DEF Length, IInv, CInv, KindInv
<1>3. /\ i \in win[s].dirty /\ win[s].ok /\ win[s].base + i = c.lba + b
  BY <1>1, <1>2, OutIs
<1>4. PICK k \in 0..(Length(c) * WORDS - 1) : Block(k) = b /\ WordAt(k) = w
  BY <1>2, BlockOf
<1>5. ASSUME Watched(s, l) PROVE disk[w] = cur /\ Version = cur /\ ~Pending
  <2>1. s = 0 /\ l = Watch
    BY <1>5 DEF Watched
  <2>2. Watched(c.slot, c.lba + Block(k))
    BY <1>3, <1>4, <1>5
  <2>3. disk[w] = cur
    BY <1>4, <2>2 DEF IInv, DInv, TransferInv
  <2>4. c.slot = 0 /\ win[0].base + i = Watch
    BY <2>1
  <2> QED
    BY <2>3, <2>4, OutIsOver
<1> QED
  BY <1>3, <1>5 DEF DiskWord, Content

-----------------------------------------------------------------------------
(* The store.                                                              *)

\* The window, seen a clock later, when its image stays and it is not moved.
LEMMA WindowKept ==
    ASSUME IInv, NEW mount, NEW blocks \in Nat, NEW nreset, NEW rst, Steps(mount, blocks, nreset, rst),
           NEW s \in Slots, s \notin mount, ~Rebased(s), win'[s].ok,
           NEW in, in = Inputs(mount, blocks, nreset)
    PROVE  /\ win[s].ok /\ win'[s].base = win[s].base /\ ~Cache!DropsWindow(in, s)
           /\ \A i \in win'[s].valid : i \in win[s].valid \/ i \in Cache!Landed(in, s) \/ i \in Own(s)
           /\ \A i \in win[s].valid : i \in win'[s].valid
           /\ \A i : i \in win'[s].dirty <=> (i \in win[s].dirty /\ i \notin Cache!Flushed(in, s)) \/ i \in Own(s)
<1>1. /\ win'[s].base = win[s].base
      /\ win'[s].ok <=> win[s].ok /\ ~Cache!DropsWindow(in, s)
      /\ win'[s].valid = IF Cache!DropsWindow(in, s) THEN {}
                         ELSE win[s].valid \cup Cache!Landed(in, s) \cup Own(s)
      /\ win'[s].dirty = (win[s].dirty \ Cache!Flushed(in, s)) \cup Own(s)
  BY WindowGoes DEF IInv, CInv
<1> QED
  BY <1>1

\* The sector the engine has just written.
LEMMA StoreOwn ==
    ASSUME IInv, NEW mount, NEW blocks \in Nat, NEW nreset, NEW rst, Steps(mount, blocks, nreset, rst),
           ImageGoes(mount), NEW s \in Slots, NEW i \in Own(s), NEW w \in Words,
           NEW l, l = win[s].base + i
    PROVE  Stored(s, i, w)' = Content(s, l)'
<1>1. /\ s = r.slot /\ est = "E_WR_C" /\ r.word = WORDS - 1 /\ r.wr
      /\ i = Cache!RIdx /\ i \in Cache!Sectors /\ l = r.lba
      /\ busy[s] /\ writing[s] /\ lba[s] = r.lba
  BY OwnIs
<1>2. w < r.word \/ w = r.word
  BY <1>1, Geometry DEF Words
<1>3. Stored(s, i, w)' = Offered(s)'
  BY <1>1, <1>2, WritingStep DEF Writings
<1>4. Offered(s)' = Offered(s)
  BY <1>1, AtWork
<1>5. Content(s, l)' = Offered(s)
  <2>1. CASE Watched(s, l)
    <3>1. WritingWatch /\ Cache!Written /\ s = 0 /\ ~Swaps(mount)
      BY <1>1, <2>1, AtWork DEF Watched, WritingWatch, Cache!Written
    <3>2. cur' = Latest
      BY <3>1 DEF ImageGoes
    <3>3. Version' = Newer(cur)
      BY <3>1, <3>2, VersionComes
    <3> QED
      BY <1>1, <2>1, <3>3 DEF Content, Offered, Watched
  <2>2. CASE ~Watched(s, l)
    BY <1>1, <2>2 DEF Content, Offered, Watched
  <2> QED
    BY <2>1, <2>2
<1> QED
  BY <1>3, <1>4, <1>5

\* While hps_io fetches, the image stays.
LEMMA FetchingStays ==
    ASSUME IInv, NEW mount, NEW blocks \in Nat, NEW nreset, NEW rst, Steps(mount, blocks, nreset, rst),
           ImageGoes(mount), hps.on, ~c.wr
    PROVE  disk' = disk
<1>1. ~Swaps(mount)
  BY DEF Swaps
<1> QED
  BY <1>1, DiskStays

\* What a fetch has brought into the store.
LEMMA ArrivedIs ==
    ASSUME IInv, NEW mount, NEW blocks \in Nat, NEW nreset, NEW rst, Steps(mount, blocks, nreset, rst),
           ImageGoes(mount), hps.on, ~c.pt, ~c.wr, NEW s \in Slots, s = c.slot, win[s].ok,
           NEW k \in 0..(hps.k - 1), NEW i \in Cache!Sectors, i = c.idx + Block(k),
           NEW w \in Words, w = WordAt(k)
    PROVE  Stored(s, i, w)' = DiskWord(s, c.lba + Block(k), w)'
<1>1. /\ c.st # "C_IDLE" /\ hps.k \in Nat /\ hps.k <= Length(c) * WORDS /\ hps.strobe \in BOOLEAN
      /\ Length(c) * WORDS \in Nat
  <2>1. Length(c) * WORDS \in Nat
    BY Geometry DEF Length, IInv, CInv, KindInv
  <2>2. c.st # "C_IDLE" /\ hps.n = Length(c) /\ hps.k \in 0..(hps.n * WORDS) /\ hps.strobe \in BOOLEAN
    BY DEF IInv, CInv, HpsInv, KindInv
  <2> QED
    BY <2>1, <2>2
<1>2. k \in 0..(Length(c) * WORDS - 1) /\ k \in Nat
  BY <1>1
<1>3. Block(k) \in 0..(Length(c) - 1)
  BY <1>2, BlockIs DEF IInv
<1>4. i \in Cache!Covered
  BY <1>1, <1>3, CoveredIs DEF IInv
<1>5. ~(est \in Writings \/ (est = "E_DONE" /\ r.wr)) \/ r.slot # s \/ Cache!RIdx # i
  BY <1>1, <1>4 DEF IInv, CInv, WriteInv
<1>6. ~(est = "E_WR_C" /\ r.slot = s /\ Cache!RIdx = i /\ r.word = w)
  BY <1>5 DEF Writings
<1>7. disk' = disk
  BY FetchingStays
<1>8. DiskWord(s, c.lba + Block(k), w)' = DiskWord(s, c'.lba + Block(k), w)
  BY <1>7 DEF DiskWord, Watched
<1>9. c'.lba = c.lba
  BY <1>1, GoneOn DEF IInv, CInv
<1>10. CASE Lands(s, i, w)
  <2>1. /\ hps.strobe /\ i = c.idx + Block(hps.k - 1) /\ w = WordAt(hps.k - 1)
    BY <1>10 DEF Lands
  <2>2. Block(hps.k - 1) \in 0..(Length(c) - 1)
    BY <2>1, WordIs DEF IInv
  <2>3. c.idx \in Nat /\ Length(c) \in Nat
    BY Geometry DEF IInv, CInv, KindInv, TransactionKind, Length
  <2>4. Block(hps.k - 1) = Block(k)
    BY <1>3, <2>1, <2>2, <2>3
  <2> QED
    BY <1>6, <1>8, <1>9, <1>10, <2>4, StoredGoes
<1>11. CASE ~Lands(s, i, w)
  <2>1. k \in 0..(Arrived - 1)
    <3>1. CASE hps.strobe /\ k = hps.k - 1
      BY <1>11, <3>1 DEF Lands
    <3>2. CASE ~hps.strobe
      BY <1>1, <3>2 DEF Arrived
    <3>3. CASE hps.strobe /\ k # hps.k - 1
      BY <1>1, <3>3 DEF Arrived
    <3> QED
      BY <3>1, <3>2, <3>3
  <2>2. store[c.slot][c.idx + Block(k)][WordAt(k)] = DiskWord(c.slot, c.lba + Block(k), WordAt(k))
    BY <2>1 DEF IInv, DInv, TransferInv
  <2>3. ~(wr_q.on /\ wr_q.slot = s /\ wr_q.idx = i)
    <3>1. SUFFICES ASSUME wr_q.on, wr_q.slot = s, wr_q.idx = i PROVE FALSE
      OBVIOUS
    <3>2. est \in {"E_WR_A", "E_DONE"} /\ r.wr /\ s = r.slot /\ i = Cache!RIdx
      BY <3>1 DEF IInv, DInv, BufferInv
    <3> QED
      BY <1>5, <3>2 DEF Writings
  <2>4. Stored(s, i, w) = DiskWord(s, c.lba + Block(k), w)
    BY <2>2, <2>3 DEF Stored
  <2> QED
    BY <1>6, <1>8, <1>9, <1>11, <2>4, StoredGoes
<1> QED
  BY <1>10, <1>11

\* A sector whose last word lands.
LEMMA StoreLanded ==
    ASSUME IInv, NEW mount, NEW blocks \in Nat, NEW nreset, NEW rst, Steps(mount, blocks, nreset, rst),
           ImageGoes(mount), NEW s \in Slots, NEW i \in Cache!Sectors, NEW w \in Words,
           i \in Cache!Landed(Inputs(mount, blocks, nreset), s),
           NEW l, l = win[s].base + i
    PROVE  Stored(s, i, w)' = DiskWord(s, l, w)' /\ i \notin win[s].dirty
<1> DEFINE in == Inputs(mount, blocks, nreset)
           b == Block(hps.k - 1)
<1>0. in = Inputs(mount, blocks, nreset)
  OBVIOUS
<1>1. /\ c.st = "C_XFER" /\ ~c.pt /\ ~c.wr /\ c.slot = s /\ hps.on /\ hps.strobe
      /\ win[s].ok /\ c.base = win[s].base /\ i \in Cache!Covered
      /\ WordAt(hps.k - 1) = WORDS - 1 /\ i = c.idx + b /\ b \in 0..(Length(c) - 1)
  <2> HIDE DEF in
  <2> QED
    BY <1>0, LandedIs DEF IInv, CInv
<1>2. i \notin win[s].dirty
  BY <1>1 DEF IInv, CInv, FetchInv
<1>3. hps.k - 1 \in Nat /\ WORDS \in Nat \ {0, 1} /\ w \in Nat /\ w <= WORDS - 1
  BY <1>1, WordIs, Geometry DEF Words, IInv
<1>4. PICK k \in 0..(hps.k - 1) : Block(k) = b /\ WordAt(k) = w
  <2>1. b \in Nat /\ hps.k - 1 = WORDS * b + (WORDS - 1)
    <3>1. (hps.k - 1) \div WORDS \in Nat /\ hps.k - 1 = WORDS * ((hps.k - 1) \div WORDS) + ((hps.k - 1) % WORDS)
      BY <1>3, Division
    <3> QED
      BY <1>1, <3>1 DEF Block, WordAt
  <2> HIDE DEF b
  <2> DEFINE j == WORDS * b + w
  <2>2. WORDS * b \in Nat /\ w < WORDS /\ j = WORDS * b + w
    BY <1>3, <2>1
  <2>3. j \in 0..(hps.k - 1)
    BY <1>3, <2>1, <2>2
  <2>4. j \in Nat /\ WORDS \in Nat \ {0}
    BY <1>3, <2>2
  <2> HIDE DEF j
  <2>5. j \div WORDS = b /\ j % WORDS = w
    BY <1>3, <2>1, <2>2, <2>4, Quotient
  <2> QED
    BY <2>3, <2>5 DEF Block, WordAt
<1> HIDE DEF b, in
<1>5. i = c.idx + Block(k) /\ w = WordAt(k)
  BY <1>1, <1>4
<1>6. Stored(s, i, w)' = DiskWord(s, c.lba + Block(k), w)'
  BY <1>1, <1>4, <1>5, ArrivedIs
<1>7. c'.lba + Block(k) = l
  <2>1. c.lba = c.base + c.idx
    BY <1>1 DEF IInv, DInv, ChannelInv
  <2>2. c.st # "C_IDLE" /\ c'.lba = c.lba
    BY <1>1, GoneOn DEF IInv, CInv
  <2>3. c.base \in Nat /\ c.idx \in Cache!Sectors
    BY DEF IInv, CInv, KindInv, TransactionKind
  <2>4. c.idx \in Nat /\ Length(c) \in Nat
    BY <2>3, Geometry DEF Cache!Sectors, Length
  <2>5. Block(k) \in Nat
    BY <1>1, <1>4, <2>4
  <2> QED
    BY <1>1, <1>5, <2>1, <2>2, <2>3, <2>4, <2>5
<1>8. DiskWord(s, c.lba + Block(k), w)' = DiskWord(s, l, w)'
  BY <1>7 DEF DiskWord, Watched
<1> QED
  BY <1>2, <1>6, <1>8

\* What a window goes on holding.
LEMMA StoreKept ==
    ASSUME IInv, NEW mount, NEW blocks \in Nat, NEW nreset, NEW rst, Steps(mount, blocks, nreset, rst),
           ImageGoes(mount), NEW s \in Slots, s \notin mount, ~Rebased(s), win'[s].ok,
           NEW i \in win[s].valid, i \notin Own(s), i \notin Cache!Landed(Inputs(mount, blocks, nreset), s),
           ~BeingWritten(s, i)',
           NEW l, l = win[s].base + i, NEW w \in Words
    PROVE  /\ i \in win'[s].dirty => Stored(s, i, w)' = Content(s, l)'
           /\ i \notin win'[s].dirty => Stored(s, i, w)' = DiskWord(s, l, w)'
<1> DEFINE in == Inputs(mount, blocks, nreset)
<1>0. in = Inputs(mount, blocks, nreset)
  OBVIOUS
<1> HIDE DEF in
<1>1. /\ win[s].ok
      /\ i \in win'[s].dirty <=> i \in win[s].dirty /\ i \notin Cache!Flushed(in, s)
  BY <1>0, WindowKept
<1>2. i \in Cache!Sectors
  BY DEF IInv, CInv, KindInv, Windows
<1>3. ~BeingWritten(s, i)
  <2>1. SUFFICES ASSUME BeingWritten(s, i) PROVE FALSE
    OBVIOUS
  <2>2. est \in Writings /\ r.slot = s /\ Cache!RIdx = i
    BY <2>1 DEF BeingWritten
  <2>3. est \in Readings \cup Writings
    BY <2>2
  <2>4. r'.slot = r.slot /\ Cache!RIdx' = Cache!RIdx /\ est' \in Writings \cup {"E_DONE"}
        /\ (est' = "E_DONE" => r.word = WORDS - 1 /\ est \in {"E_RD_C", "E_WR_C"})
    BY <2>2, <2>3, AnsweringStays
  <2>5. est' \notin Writings
    BY <2>2, <2>4 DEF BeingWritten
  <2>6. Cache!Written
    BY <2>2, <2>4, <2>5 DEF Cache!Written, Writings
  <2> QED
    BY <2>2, <2>6 DEF Own
<1>4. Stored(s, i, w) = IF i \in win[s].dirty THEN Content(s, l) ELSE DiskWord(s, l, w)
  BY <1>1, <1>3 DEF IInv, DInv, StoreInv
<1>5. ~(est = "E_WR_C" /\ r.slot = s /\ Cache!RIdx = i /\ r.word = w)
  BY <1>3 DEF BeingWritten, Writings
<1>6. s = 0 => ~Swaps(mount)
  BY DEF Swaps
<1>7. CASE Lands(s, i, w)
  <2>1. /\ hps.on /\ hps.strobe /\ ~c.pt /\ ~c.wr /\ s = c.slot /\ i = c.idx + Block(hps.k - 1)
    BY <1>7, WordIs DEF Lands, IInv
  <2>2. c.st # "C_IDLE" /\ Block(hps.k - 1) \in 0..(Length(c) - 1)
    BY <2>1, WordIs DEF IInv
  <2>3. i \in Cache!Covered
    BY <2>1, <2>2, CoveredIs DEF IInv
  <2>4. i \notin win[s].dirty
    BY <1>1, <2>1, <2>2, <2>3 DEF IInv, CInv, FetchInv
  <2>5. c.lba = c.base + c.idx /\ c.base = win[s].base
    BY <1>1, <2>1, <2>2 DEF IInv, DInv, ChannelInv
  <2>6. c.base \in Nat /\ c.idx \in Cache!Sectors
    BY DEF IInv, CInv, KindInv, TransactionKind
  <2>7. c.idx \in Nat /\ Length(c) \in Nat
    BY <2>6, Geometry DEF Cache!Sectors, Length
  <2>8. c.lba + Block(hps.k - 1) = l
    BY <2>1, <2>2, <2>5, <2>6, <2>7
  <2>9. disk' = disk
    BY <2>1, FetchingStays
  <2>10. Stored(s, i, w)' = DiskWord(s, l, w)
    BY <1>2, <1>5, <1>7, <2>8, StoredGoes
  <2>11. DiskWord(s, l, w)' = DiskWord(s, l, w)
    BY <2>9 DEF DiskWord
  <2> QED
    BY <1>1, <2>4, <2>10, <2>11
<1>8. CASE ~Lands(s, i, w)
  <2>1. Stored(s, i, w)' = Stored(s, i, w)
    BY <1>2, <1>5, <1>8, StoredGoes
  <2>2. CASE i \in win'[s].dirty
    <3>1. i \in win[s].dirty
      BY <1>1, <2>2
    <3>2. CASE Watched(s, l)
      <4>1. s = 0 /\ ~Swaps(mount) /\ cur' = Latest
        BY <1>6, <3>2 DEF Watched, ImageGoes
      <4>2. ~(Cache!Written /\ WritingWatch)
        <5>1. SUFFICES ASSUME Cache!Written, WritingWatch PROVE FALSE
          OBVIOUS
        <5>2. est # "E_IDLE" /\ r.slot = s /\ r.lba = l
          BY <3>2, <4>1, <5>1, EndsAtRest DEF IInv, Cache!Written, WritingWatch, Watched
        <5>3. Own(s) = {Cache!RIdx}
          BY <5>1, <5>2 DEF Own
        <5>4. win[s].base + Cache!RIdx = l /\ Cache!RIdx \in Cache!Sectors
          BY <5>2, <5>3, OwnIs
        <5>5. win[s].base \in Nat
          BY DEF IInv, CInv, KindInv, Windows
        <5>6. Cache!RIdx = i
          BY <1>2, <5>4, <5>5 DEF Cache!Sectors
        <5> QED
          BY <5>3, <5>6
      <4>3. ~(est = "E_PT" /\ est' = "E_IDLE" /\ WritingWatch)
        <5>1. SUFFICES ASSUME est = "E_PT", WritingWatch PROVE FALSE
          OBVIOUS
        <5>2. r.slot = s
          BY <4>1, <5>1, EndsAtRest DEF IInv, WritingWatch
        <5> QED
          BY <1>1, <5>1, <5>2 DEF IInv, DInv, PassInv, Cache!R
      <4>4. Version' = Version
        BY <4>1, <4>2, <4>3, VersionStays
      <4> QED
        BY <1>4, <2>1, <2>2, <3>1, <4>4 DEF Content
    <3>3. CASE ~Watched(s, l)
      BY <1>4, <2>1, <2>2, <3>1, <3>3 DEF Content, Watched
    <3> QED
      BY <3>2, <3>3
  <2>3. CASE i \in win[s].dirty /\ i \notin win'[s].dirty
    <3>1. /\ c.st = "C_XFER" /\ ~hps.on /\ c.wr /\ ~c.pt /\ s = c.slot /\ i \in Cache!Covered
      <4>1. i \in Cache!Flushed(in, s)
        BY <1>1, <2>3
      <4>2. Cache!ChannelFinish(in) /\ c.slot = s /\ c.wr /\ ~c.pt /\ i \in Cache!Covered
        BY <4>1 DEF Cache!Flushed
      <4> QED
        BY <1>0, <4>2, AckIs DEF IInv, CInv
    <3>2. DiskWord(s, l, w) = Content(s, l)
      BY <3>1, FlushedIs
    <3>3. DiskWord(s, l, w)' = DiskWord(s, l, w)
      <4>1. CASE s = 0
        BY <1>6, <3>1, <4>1, DiskStays DEF DiskWord
      <4>2. CASE s # 0
        BY <4>2 DEF DiskWord, Watched
      <4> QED
        BY <4>1, <4>2
    <3> QED
      BY <1>4, <2>1, <2>3, <3>2, <3>3
  <2>4. CASE i \notin win[s].dirty
    <3>1. DiskWord(s, l, w)' = DiskWord(s, l, w)
      BY <1>1, <1>2, <1>6, <2>4, CleanStays
    <3> QED
      BY <1>1, <1>4, <2>1, <2>4, <3>1
  <2> QED
    BY <1>1, <2>2, <2>3, <2>4
<1> QED
  BY <1>7, <1>8

LEMMA StoreStep ==
    ASSUME IInv, NEW mount, NEW blocks \in Nat, NEW nreset, NEW rst, Steps(mount, blocks, nreset, rst),
           ImageGoes(mount)
    PROVE  StoreInv'
<1>1. SUFFICES ASSUME NEW s \in Slots, win'[s].ok, NEW i \in win'[s].valid, ~BeingWritten(s, i)',
                      NEW w \in Words
               PROVE  Stored(s, i, w)' = IF i \in win'[s].dirty THEN Content(s, win[s].base + i)'
                                         ELSE DiskWord(s, win[s].base + i, w)'
  BY DEF StoreInv
<1> DEFINE in == Inputs(mount, blocks, nreset)
<1>0. in = Inputs(mount, blocks, nreset)
  OBVIOUS
<1> HIDE DEF in
<1>2. CASE s \notin mount /\ ~Rebased(s)
  <2>1. /\ win[s].ok /\ win'[s].base = win[s].base
        /\ i \in win[s].valid \/ i \in Cache!Landed(in, s) \/ i \in Own(s)
        /\ i \in win'[s].dirty <=> (i \in win[s].dirty /\ i \notin Cache!Flushed(in, s)) \/ i \in Own(s)
    BY <1>0, <1>1, <1>2, WindowKept
  <2>2. PICK l : l = win[s].base + i
    OBVIOUS
  <2>3. CASE i \in Own(s)
    <3>1. Stored(s, i, w)' = Content(s, l)'
      BY <1>1, <2>2, <2>3, StoreOwn
    <3>2. Content(s, win[s].base + i)' = Content(s, l)'
      BY <2>1, <2>2 DEF Content, Watched
    <3> QED
      BY <2>1, <2>3, <3>1, <3>2
  <2>4. CASE i \in Cache!Landed(in, s) /\ i \notin Own(s)
    <3>1. i \in Cache!Sectors
      BY <1>0, <2>4, LandedIs DEF IInv, CInv
    <3>2. Stored(s, i, w)' = DiskWord(s, l, w)' /\ i \notin win[s].dirty
      BY <1>0, <1>1, <2>2, <2>4, <3>1, StoreLanded
    <3>3. DiskWord(s, win[s].base + i, w)' = DiskWord(s, l, w)'
      BY <2>1, <2>2 DEF DiskWord, Watched
    <3> QED
      BY <2>1, <2>4, <3>2, <3>3
  <2>5. CASE i \in win[s].valid /\ i \notin Own(s) /\ i \notin Cache!Landed(in, s)
    <3>1. /\ i \in win'[s].dirty => Stored(s, i, w)' = Content(s, l)'
          /\ i \notin win'[s].dirty => Stored(s, i, w)' = DiskWord(s, l, w)'
      BY <1>0, <1>1, <1>2, <2>2, <2>5, StoreKept
    <3>2. Content(s, win[s].base + i)' = Content(s, l)'
      BY <2>1, <2>2 DEF Content, Watched
    <3>3. DiskWord(s, win[s].base + i, w)' = DiskWord(s, l, w)'
      BY <2>1, <2>2 DEF DiskWord, Watched
    <3> QED
      BY <3>1, <3>2, <3>3
  <2> QED
    BY <2>1, <2>3, <2>4, <2>5
<1>3. CASE Rebased(s)
  <2>1. CASE s \in mount
    BY <1>3, <2>1 DEF IInv, CInv, EngineInv, Rebased, Steps
  <2>2. CASE s \notin mount
    BY <1>0, <1>1, <1>3, <2>2, WindowGoes DEF IInv, CInv
  <2> QED
    BY <2>1, <2>2
<1>4. CASE s \in mount /\ ~Rebased(s)
  BY <1>1, <1>4, WindowStays
<1> QED
  BY <1>2, <1>3, <1>4

-----------------------------------------------------------------------------
(* The image.                                                              *)

\* A request at work goes on: its target asks for the same sector.
LEMMA WorkStays ==
    ASSUME CInv, est # "E_IDLE", NEW mount, NEW blocks \in Nat, NEW nreset, NEW rst,
           Steps(mount, blocks, nreset, rst)
    PROVE  /\ \A s \in Slots : Stays(s)
           /\ WritingWatch' <=> WritingWatch
<1>1. ~Free
  BY FreeAtRest DEF CInv
<1>2. \A s \in Slots : Stays(s)
  <2>1. \A s \in guest.slots : ~Begins(s)
    BY <1>1 DEF Begins
  <2> QED
    BY <2>1, PortGoes DEF CInv
<1>3. 0 \in Slots
  BY Geometry DEF Slots
<1>4. ~Ending(0)
  BY <1>3, EndsAtRest
<1>5. (busy'[0] <=> busy[0]) /\ lba'[0] = lba[0] /\ (writing'[0] <=> writing[0])
  BY <1>2, <1>3, <1>4 DEF Stays, Ending
<1> QED
  BY <1>2, <1>5 DEF WritingWatch

\* Where Watch is in the window of slot 0.
LEMMA WatchAt ==
    ASSUME KindInv, NEW i \in Cache!Sectors, win[0].base + i = Watch, win[0].ok
    PROVE  WatchInWindow /\ WatchIdx = i
<1>1. 0 \in Slots
  BY Geometry DEF Slots
<1>2. win[0].base \in Nat /\ i \in 0..(SECT - 1)
  BY <1>1 DEF KindInv, Windows, Cache!Sectors
<1>3. Watch - win[0].base = i
  BY <1>2
<1> QED
  BY <1>2, <1>3 DEF WatchInWindow, WatchIdx

\* The engine's write makes Watch dirty.
LEMMA WatchWritten ==
    ASSUME IInv, NEW mount, NEW blocks \in Nat, NEW nreset, NEW rst, Steps(mount, blocks, nreset, rst),
           Cache!Written, WritingWatch
    PROVE  /\ WatchDirty' /\ 0 \notin mount /\ ~Rebased(0)
           /\ WatchIdx \in Own(0) /\ win'[0].base = win[0].base
<1>1. 0 \in Slots
  BY Geometry DEF Slots
<1>2. est = "E_WR_C" /\ r.slot = 0 /\ r.lba = Watch
  BY <1>1, EndsAtRest DEF IInv, Cache!Written, WritingWatch
<1>3. Own(0) = {Cache!RIdx}
  BY <1>2 DEF Own
<1>4. win[0].ok /\ win[0].base + Cache!RIdx = Watch /\ Cache!RIdx \in Cache!Sectors
  BY <1>1, <1>2, <1>3, OwnIs
<1>5. WatchInWindow /\ WatchIdx = Cache!RIdx
  BY <1>4, WatchAt DEF IInv, CInv
<1>6. 0 \notin mount /\ ~Rebased(0)
  BY <1>2 DEF Steps, Rebased, WritingWatch
<1> DEFINE in == Inputs(mount, blocks, nreset)
<1>7. in = Inputs(mount, blocks, nreset)
  OBVIOUS
<1> HIDE DEF in
<1>8. ~Cache!DropsWindow(in, 0)
  BY <1>2 DEF Cache!DropsWindow, Cache!PassesThrough, Cache!Deciding
<1>9. /\ win'[0].base = win[0].base /\ win'[0].ok
      /\ win'[0].dirty = (win[0].dirty \ Cache!Flushed(in, 0)) \cup Own(0)
  BY <1>1, <1>4, <1>6, <1>7, <1>8, WindowGoes DEF IInv, CInv
<1>10. WatchDirty'
  BY <1>3, <1>5, <1>9 DEF WatchDirty, WatchInWindow, WatchIdx
<1> QED
  BY <1>3, <1>5, <1>6, <1>9, <1>10

\* A sector of slot 0 that is dirty and then no longer has gone out.
LEMMA ImageFlushed ==
    ASSUME IInv, NEW mount, NEW blocks \in Nat, NEW nreset, NEW rst, Steps(mount, blocks, nreset, rst),
           ImageGoes(mount), ~Swaps(mount), WatchDirty, ~WatchDirty', NEW w \in Words
    PROVE  disk'[w] = Version'
<1>1. 0 \in Slots
  BY Geometry DEF Slots
<1>2. PICK i \in Cache!Sectors : i = WatchIdx /\ win[0].ok /\ i \in win[0].dirty
  BY DEF WatchDirty, WatchInWindow, Cache!Sectors
<1>3. win[0].base + i = Watch
  <2>1. win[0].base \in Nat /\ Watch \in Nat
    BY <1>1, GuestAssumption DEF IInv, CInv, KindInv, Windows
  <2> QED
    BY <1>2, <2>1 DEF WatchIdx
<1>4. ~Rebased(0)
  BY <1>2 DEF Rebased, IInv, CInv, EngineInv, Cache!R
<1>5. 0 \notin mount
  BY <1>1, <1>2 DEF ImageGoes, IInv, CInv, WindowInv
<1> DEFINE in == Inputs(mount, blocks, nreset)
<1>6. in = Inputs(mount, blocks, nreset)
  OBVIOUS
<1> HIDE DEF in
<1>7. ~Cache!DropsWindow(in, 0)
  BY <1>2 DEF Cache!DropsWindow, Cache!PassesThrough, Cache!R
<1>8. /\ win'[0].base = win[0].base /\ win'[0].ok
      /\ win'[0].dirty = (win[0].dirty \ Cache!Flushed(in, 0)) \cup Own(0)
  <2>1. win[0].ok
    BY <1>2
  <2>2. /\ win'[0].base = win[0].base
        /\ win'[0].ok <=> win[0].ok /\ ~Cache!DropsWindow(in, 0)
        /\ win'[0].dirty = (win[0].dirty \ Cache!Flushed(in, 0)) \cup Own(0)
    BY <1>1, <1>4, <1>5, <1>6, WindowGoes DEF IInv, CInv
  <2> QED
    BY <1>7, <2>1, <2>2
<1>9. WatchIdx' = i
  BY <1>2, <1>8 DEF WatchIdx
<1>10. i \notin win'[0].dirty
  BY <1>2, <1>8, <1>9 DEF WatchDirty, WatchInWindow, Cache!Sectors
<1>11. i \in Cache!Flushed(in, 0) /\ i \notin Own(0)
  BY <1>2, <1>8, <1>10
<1>12. /\ c.st = "C_XFER" /\ ~hps.on /\ c.wr /\ ~c.pt /\ 0 = c.slot /\ i \in Cache!Covered
  <2>1. Cache!ChannelFinish(in) /\ c.slot = 0 /\ c.wr /\ ~c.pt /\ i \in Cache!Covered
    BY <1>11 DEF Cache!Flushed
  <2> QED
    BY <1>6, <2>1, AckIs DEF IInv, CInv
<1>13. Watched(0, Watch)
  BY DEF Watched
<1>14. disk[w] = cur /\ Version = cur
  <2>1. PICK l : l = win[0].base + i
    OBVIOUS
  <2>2. Watched(0, l)
    BY <1>3, <1>13, <2>1
  <2> QED
    BY <1>1, <1>12, <2>1, <2>2, FlushedIs
<1>15. disk' = disk
  BY <1>12, DiskStays
<1>16. ~(Cache!Written /\ WritingWatch)
  BY <1>2, <1>11, WatchWritten
<1>17. ~(est = "E_PT" /\ est' = "E_IDLE" /\ WritingWatch)
  <2>1. SUFFICES ASSUME est = "E_PT", WritingWatch PROVE FALSE
    OBVIOUS
  <2>2. r.slot = 0
    BY <1>1, <2>1, EndsAtRest DEF IInv, WritingWatch
  <2> QED
    BY <1>2, <2>1, <2>2 DEF IInv, DInv, PassInv, Cache!R
<1>18. cur' = Latest
  BY DEF ImageGoes
<1>19. Version' = Version
  BY <1>16, <1>17, <1>18, VersionStays
<1> QED
  BY <1>14, <1>15, <1>19

\* A write of Watch that passes the cache is in the image when it is done.
LEMMA ImagePassed ==
    ASSUME IInv, NEW mount, NEW blocks \in Nat, NEW nreset, NEW rst, Steps(mount, blocks, nreset, rst),
           ImageGoes(mount), ~Swaps(mount), est = "E_PT", WritingWatch, ~(est' = "E_PT" /\ WritingWatch'),
           NEW w \in Words
    PROVE  disk'[w] = Version'
<1>1. 0 \in Slots
  BY Geometry DEF Slots
<1>2. r.slot = 0 /\ r.lba = Watch /\ r.wr
  BY <1>1, EndsAtRest DEF IInv, WritingWatch
<1>3. WritingWatch'
  BY WorkStays DEF IInv
<1>4. c.st = "C_XFER" /\ c.pt /\ ~hps.on /\ est' = "E_IDLE"
  BY <1>3, FromSettling DEF IInv, CInv
<1>5. cur' = Latest
  BY DEF ImageGoes
<1>6. Version' = Newer(cur)
  BY <1>4, <1>5, VersionComes
<1>7. c.wr /\ c.slot = 0 /\ c.lba = Watch /\ ~c.grp
  BY <1>2, <1>4 DEF IInv, CInv, DemandInv, DInv, PassInv
<1>8. Length(c) * WORDS = 1 * WORDS
  BY <1>7 DEF Length
<1>9. PICK k \in 0..(1 * WORDS - 1) : Block(k) = 0 /\ WordAt(k) = w
  BY BlockOf
<1>10. Watched(c.slot, c.lba + Block(k))
  <2>1. Watch + 0 = Watch
    BY GuestAssumption
  <2> QED
    BY <1>7, <1>9, <2>1 DEF Watched
<1>11. disk[w] = Newer(cur)
  BY <1>4, <1>7, <1>8, <1>9, <1>10 DEF IInv, DInv, TransferInv
<1>12. disk' = disk
  BY <1>4, DiskStays
<1> QED
  BY <1>6, <1>11, <1>12

\* Else the image stays as it is.
LEMMA ImageStays ==
    ASSUME IInv, NEW mount, NEW blocks \in Nat, NEW nreset, NEW rst, Steps(mount, blocks, nreset, rst),
           ImageGoes(mount), ~Swaps(mount), ~WatchDirty, ~WatchDirty', ~(est = "E_PT" /\ WritingWatch),
           NEW w \in Words
    PROVE  disk'[w] = Version'
<1>1. 0 \in Slots
  BY Geometry DEF Slots
<1>2. disk[w] = Version
  BY DEF IInv, DInv, ImageInv
<1>3. cur' = Latest
  BY DEF ImageGoes
<1>4. ~(Cache!Written /\ WritingWatch)
  BY WatchWritten
<1>5. Version' = Version
  BY <1>3, <1>4, VersionStays
<1>6. disk' = disk
  <2>1. SUFFICES ASSUME hps.on, c.wr, c.st = "C_XFER", Watched(c.slot, c.lba + Block(hps.k)),
                        hps.k \in 0..(Length(c) * WORDS - 1)
                 PROVE  FALSE
    BY DiskStays
  <2>2. c.slot = 0 /\ c.lba + Block(hps.k) = Watch
    BY <2>1 DEF Watched
  <2>3. CASE c.pt
    <3>1. /\ c.lba + Block(hps.k) = r.lba /\ est = "E_PT" /\ busy[0] /\ writing[0] /\ lba[0] = r.lba
      BY <2>1, <2>2, <2>3, PassedOut
    <3> QED
      BY <2>2, <3>1 DEF WritingWatch
  <2>4. CASE ~c.pt
    <3>1. Block(hps.k) \in 0..(Length(c) - 1)
      BY <2>1, BlockIs DEF IInv
    <3>2. PICK i : i = c.idx + Block(hps.k)
      OBVIOUS
    <3>3. i \in Cache!Sectors
      BY <2>1, <3>1, <3>2, CoveredIs DEF IInv
    <3>4. i \in win[0].dirty /\ win[0].ok /\ win[0].base + i = c.lba + Block(hps.k)
      BY <1>1, <2>1, <2>2, <2>4, <3>1, <3>2, <3>3, OutIs
    <3>5. WatchInWindow /\ WatchIdx = i
      BY <2>2, <3>3, <3>4, WatchAt DEF IInv, CInv
    <3> QED
      BY <3>4, <3>5 DEF WatchDirty
  <2> QED
    BY <2>3, <2>4
<1> QED
  BY <1>2, <1>5, <1>6

LEMMA ImageStep ==
    ASSUME IInv, NEW mount, NEW blocks \in Nat, NEW nreset, NEW rst, Steps(mount, blocks, nreset, rst),
           ImageGoes(mount)
    PROVE  ImageInv'
<1>1. CASE Swaps(mount)
  <2>1. Version' = cur' /\ DOMAIN disk' = Words /\ \A w \in Words : disk'[w] = cur'
    BY <1>1, SwapIs
  <2> QED
    BY <2>1 DEF ImageInv
<1>2. CASE ~Swaps(mount)
  <2>1. DOMAIN disk' = Words
    <3>1. DOMAIN disk = Words
      BY DEF IInv, DInv, ImageInv
    <3> QED
      BY <1>2, <3>1 DEF ImageGoes, Samples, Keeps
  <2>2. ASSUME ~WatchDirty', ~(est' = "E_PT" /\ WritingWatch'), NEW w \in Words
        PROVE  disk'[w] = Version'
    <3>1. CASE WatchDirty
      BY <1>2, <2>2, <3>1, ImageFlushed
    <3>2. CASE ~WatchDirty /\ est = "E_PT" /\ WritingWatch
      BY <1>2, <2>2, <3>2, ImagePassed
    <3>3. CASE ~WatchDirty /\ ~(est = "E_PT" /\ WritingWatch)
      BY <1>2, <2>2, <3>3, ImageStays
    <3> QED
      BY <3>1, <3>2, <3>3
  <2> QED
    BY <2>1, <2>2 DEF ImageInv
<1> QED
  BY <1>1, <1>2

-----------------------------------------------------------------------------
(* The transfer.                                                           *)

\* The version stays while its words go out.
LEMMA OutStays ==
    ASSUME IInv, NEW mount, NEW blocks \in Nat, NEW nreset, NEW rst, Steps(mount, blocks, nreset, rst),
           ImageGoes(mount), c.st = "C_XFER", c.wr, hps.on,
           NEW k \in 0..(Length(c) * WORDS - 1), Watched(c.slot, c.lba + Block(k))
    PROVE  cur' = cur
<1>1. ~Swaps(mount) /\ cur' = Latest
  BY DEF ImageGoes, Swaps
<1>2. c.slot = 0 /\ c.lba + Block(k) = Watch /\ 0 \in Slots
  BY Geometry DEF Watched, Slots
<1>3. ~(WritingWatch /\ Ending(0))
  <2>1. CASE c.pt
    <3>1. est = "E_PT"
      BY <2>1, PassedOut
    <3> QED
      BY <1>2, <3>1, EndsAtRest DEF IInv
  <2>2. CASE ~c.pt
    <3>1. Block(k) \in 0..(Length(c) - 1)
      BY BlockIs DEF IInv
    <3>2. PICK i : i = c.idx + Block(k)
      OBVIOUS
    <3>3. i \in Cache!Sectors /\ i \in Cache!Covered
      BY <3>1, <3>2, CoveredIs DEF IInv
    <3>4. win[0].base + i = c.lba + Block(k)
      <4>1. PICK w : w = 0
        OBVIOUS
      <4>2. w \in Words
        BY <4>1, Geometry DEF Words
      <4> QED
        BY <1>2, <2>2, <3>1, <3>2, <3>3, <4>2, OutIs
    <3>5. ~Pending
      BY <1>2, <2>2, <3>3, <3>4, OutIsOver
    <3> QED
      BY <3>5 DEF Pending
  <2> QED
    BY <2>1, <2>2
<1> QED
  BY <1>1, <1>3 DEF Latest, WritingWatch, Ending

\* A session goes on, word by word, and ends when all have passed.
LEMMA SessionGoes ==
    ASSUME CInv, hps.on, NEW mount, NEW blocks \in Nat, NEW nreset, NEW rst,
           Steps(mount, blocks, nreset, rst)
    PROVE  /\ c.st # "C_IDLE" /\ hps.wr = c.wr /\ Total = Length(c) * WORDS /\ Total \in Nat \ {0}
           /\ hps.k \in 0..Total
           /\ c'.st = "C_XFER" /\ c'.wr = c.wr /\ c'.pt = c.pt /\ c'.slot = c.slot /\ c'.idx = c.idx
           /\ c'.grp = c.grp /\ c'.lba = c.lba
           /\ ~hps'.on => hps.k = Total
           /\ hps'.on => \/ hps'.k = hps.k /\ ~hps'.strobe
                         \/ hps'.k = hps.k + 1 /\ hps.k < Total /\ (hps.wr => c.st = "C_XFER")
                            /\ (~hps.wr => hps'.strobe)
           /\ c.st = "C_REQ" /\ c.wr => hps.k = 0
<1>1. /\ c.st # "C_IDLE" /\ hps.wr = c.wr /\ hps.n = Length(c) /\ hps.k \in 0..(hps.n * WORDS)
      /\ (c.st = "C_REQ" /\ c.wr => hps.k = 0)
  BY DEF CInv, HpsInv
<1>2. Length(c) \in Nat \ {0}
  BY Geometry DEF Length
<1>3. Total = Length(c) * WORDS /\ hps.k \in 0..Total
  BY <1>1 DEF Total
<1>4. Total \in Nat \ {0}
  <2>1. \A a, b \in Nat \ {0} : a * b \in Nat \ {0}
    OBVIOUS
  <2> QED
    BY <1>2, <1>3, <2>1, Geometry
<1>5. /\ c'.st = "C_XFER" /\ c'.wr = c.wr /\ c'.pt = c.pt /\ c'.slot = c.slot /\ c'.idx = c.idx
      /\ c'.grp = c.grp /\ c'.lba = c.lba
  BY <1>1, GoneOn DEF CInv
<1>6. /\ ~hps'.on => hps.k = Total
      /\ hps'.on => \/ hps'.k = hps.k /\ ~hps'.strobe
                    \/ hps'.k = hps.k + 1 /\ hps.k < Total /\ (hps.wr => c.st = "C_XFER")
                       /\ (~hps.wr => hps'.strobe)
  <2>1. hps \in SessionKind
    BY DEF CInv, KindInv, SessionKind
  <2>2. HpsGoes
    BY DEF Steps
  <2>3. CASE ~hps.wr /\ hps.k < Total /\ hps' = [hps EXCEPT !.k = @ + 1, !.strobe = TRUE]
    BY <2>1, <2>3 DEF SessionKind
  <2>4. CASE hps.wr /\ hps.k < Total /\ c.st = "C_XFER" /\ hps' = [hps EXCEPT !.k = @ + 1]
    BY <2>1, <2>4 DEF SessionKind
  <2>5. CASE hps.k = Total /\ hps' = NoSession
    BY <2>5 DEF NoSession
  <2>6. CASE hps' = [hps EXCEPT !.strobe = FALSE]
    BY <2>1, <2>6 DEF SessionKind
  <2> QED
    BY <2>2, <2>3, <2>4, <2>5, <2>6 DEF HpsGoes
<1> QED
  BY <1>1, <1>3, <1>4, <1>5, <1>6

\* What hps_io has taken is in the image.
LEMMA SentStep ==
    ASSUME IInv, NEW mount, NEW blocks \in Nat, NEW nreset, NEW rst, Steps(mount, blocks, nreset, rst),
           ImageGoes(mount), c'.st = "C_XFER", c'.wr,
           NEW k \in 0..((IF hps'.on THEN hps'.k ELSE Length(c)' * WORDS) - 1),
           Watched(c'.slot, c'.lba + Block(k))
    PROVE  disk'[WordAt(k)] = IF c'.pt THEN Newer(cur') ELSE cur'
<1>1. hps.on
  <2>1. c.st # "C_IDLE"
    BY Begun DEF IInv, CInv
  <2> QED
    BY <2>1, GoneOn DEF IInv, CInv
<1>2. /\ c.st # "C_IDLE" /\ hps.wr = c.wr /\ Total = Length(c) * WORDS /\ Total \in Nat \ {0}
      /\ hps.k \in 0..Total
      /\ c'.wr = c.wr /\ c'.pt = c.pt /\ c'.slot = c.slot /\ c'.idx = c.idx
      /\ c'.grp = c.grp /\ c'.lba = c.lba
      /\ ~hps'.on => hps.k = Total
      /\ hps'.on => \/ hps'.k = hps.k
                    \/ hps'.k = hps.k + 1 /\ hps.k < Total /\ c.st = "C_XFER"
      /\ c.st = "C_REQ" => hps.k = 0
  BY <1>1, SessionGoes DEF IInv
<1>3. Length(c)' = Length(c)
  BY <1>2 DEF Length
<1>4. k \in 0..(hps.k - 1) \/ (k = hps.k /\ hps.k < Total /\ c.st = "C_XFER" /\ hps'.on /\ hps'.k = hps.k + 1)
  BY <1>2, <1>3
<1>5. k \in 0..(Total - 1) /\ c.st = "C_XFER"
  <2>1. c.st \in {"C_REQ", "C_XFER"}
    BY <1>2 DEF IInv, CInv, KindInv, TransactionKind
  <2> QED
    BY <1>2, <1>4, <2>1
<1>6. Watched(c.slot, c.lba + Block(k))
  BY <1>2
<1>7. cur' = cur
  BY <1>1, <1>2, <1>5, <1>6, OutStays
<1>8. WordAt(k) \in Words
  BY <1>2, <1>5, BlockIs DEF IInv
<1>9. k \in 0..(hps.k - 1) => disk[WordAt(k)] = IF c.pt THEN Newer(cur) ELSE cur
  BY <1>1, <1>2, <1>5, <1>6 DEF IInv, DInv, TransferInv
<1>10. ~Swaps(mount)
  BY <1>1 DEF Swaps
<1>11. CASE Samples
  <2>1. PICK j \in 0..(Length(c) * WORDS - 1) : j = hps.k
    BY <1>2, <1>11 DEF Samples
  <2>2. hps.slot = c.slot /\ hps.lba = c.lba
    BY <1>1 DEF IInv, CInv, HpsInv
  <2>3. CASE Watched(c.slot, c.lba + Block(j))
    <3>1. disk' = [disk EXCEPT ![WordAt(j)] = PBuffDin(j)]
      BY <1>11, <2>1, <2>2, <2>3 DEF Samples
    <3>2. PBuffDin(j) = IF c.pt THEN Newer(cur) ELSE cur
      BY <1>2, <1>5, <2>1, <2>3, SampleIs
    <3>3. DOMAIN disk = Words
      BY DEF IInv, DInv, ImageInv
    <3>4. CASE WordAt(k) = WordAt(j)
      BY <1>2, <1>7, <1>8, <3>1, <3>2, <3>3, <3>4
    <3>5. CASE WordAt(k) # WordAt(j)
      <4>1. k \in 0..(hps.k - 1)
        BY <1>4, <2>1, <3>5
      <4>2. disk'[WordAt(k)] = disk[WordAt(k)]
        BY <1>8, <3>1, <3>3, <3>5
      <4> QED
        BY <1>2, <1>7, <1>9, <4>1, <4>2
    <3> QED
      BY <3>4, <3>5
  <2>4. CASE ~Watched(c.slot, c.lba + Block(j))
    <3>1. disk' = disk
      BY <1>11, <2>1, <2>2, <2>4 DEF Samples
    <3>2. k \in 0..(hps.k - 1)
      BY <1>4, <1>6, <2>1, <2>4
    <3> QED
      BY <1>2, <1>7, <1>9, <3>1, <3>2
  <2> QED
    BY <2>3, <2>4
<1>12. CASE Keeps
  <2>1. k \in 0..(hps.k - 1) /\ disk' = disk
    BY <1>1, <1>2, <1>4, <1>12 DEF Keeps
  <2> QED
    BY <1>2, <1>7, <1>9, <2>1
<1> QED
  BY <1>10, <1>11, <1>12 DEF ImageGoes

\* What hps_io has brought is in the store.
LEMMA BroughtStep ==
    ASSUME IInv, NEW mount, NEW blocks \in Nat, NEW nreset, NEW rst, Steps(mount, blocks, nreset, rst),
           ImageGoes(mount), hps'.on, ~c'.pt, ~c'.wr, win'[c'.slot].ok,
           NEW k \in 0..(Arrived' - 1)
    PROVE  store'[c'.slot][c'.idx + Block(k)][WordAt(k)] = DiskWord(c.slot, c.lba + Block(k), WordAt(k))'
<1>1. hps.on
  <2>1. SUFFICES ASSUME ~hps.on PROVE Arrived' = 0
    OBVIOUS
  <2>2. HpsGoes
    BY DEF Steps
  <2>3. ~(hps' = [hps EXCEPT !.strobe = FALSE])
    <3>1. hps \in SessionKind
      BY DEF IInv, CInv, KindInv, SessionKind
    <3> QED
      BY <2>1, <3>1 DEF SessionKind
  <2>4. PICK now \in BOOLEAN : hps' = [on |-> TRUE, slot |-> c.slot, wr |-> c.wr, lba |-> c.lba,
                                       n |-> Length(c), k |-> IF now THEN 1 ELSE 0, strobe |-> now]
    BY <2>1, <2>2, <2>3 DEF HpsGoes
  <2>5. hps'.k = (IF now THEN 1 ELSE 0) /\ hps'.strobe = now
    BY <2>4
  <2> QED
    BY <2>5 DEF Arrived
<1>2. /\ c.st # "C_IDLE" /\ hps.wr = c.wr /\ Total = Length(c) * WORDS /\ Total \in Nat \ {0}
      /\ hps.k \in 0..Total
      /\ c'.wr = c.wr /\ c'.pt = c.pt /\ c'.slot = c.slot /\ c'.idx = c.idx
      /\ c'.grp = c.grp /\ c'.lba = c.lba
      /\ \/ hps'.k = hps.k /\ ~hps'.strobe
         \/ hps'.k = hps.k + 1 /\ hps'.strobe
  BY <1>1, SessionGoes DEF IInv
<1>3. k \in 0..(hps.k - 1) /\ k \in 0..(Length(c) * WORDS - 1)
  BY <1>2 DEF Arrived
<1>4. PICK s \in Slots : s = c.slot
  BY DEF IInv, CInv, KindInv, TransactionKind
<1>5. win[s].ok
  <2>1. ~Rebased(s)
    BY <1>2, <1>4 DEF Rebased, IInv, CInv, EngineInv
  <2> QED
    BY <1>2, <1>4, <2>1, WindowStays
<1>6. Block(k) \in 0..(Length(c) - 1) /\ WordAt(k) \in Words
  BY <1>3, BlockIs DEF IInv
<1>7. PICK i \in Cache!Sectors : i = c.idx + Block(k) /\ i \in Cache!Covered
  BY <1>2, <1>6, CoveredIs DEF IInv
<1>8. PICK w \in Words : w = WordAt(k)
  BY <1>6
<1>9. Stored(s, i, w)' = DiskWord(s, c.lba + Block(k), w)'
  BY <1>1, <1>2, <1>3, <1>4, <1>5, <1>7, <1>8, ArrivedIs
<1>10. ~(wr_q'.on /\ wr_q'.slot = s /\ wr_q'.idx = i)
  <2>1. SUFFICES ASSUME wr_q'.on, wr_q'.slot = s, wr_q'.idx = i PROVE FALSE
    OBVIOUS
  <2>2. est = "E_WR_C" /\ s = r.slot /\ i = Cache!RIdx
    BY <2>1, EngineWrites
  <2> QED
    BY <1>2, <1>4, <1>7, <2>2 DEF IInv, CInv, WriteInv, Writings
<1>11. store'[s][i][w] = DiskWord(s, c.lba + Block(k), w)'
  BY <1>9, <1>10 DEF Stored
<1>12. DiskWord(s, c.lba + Block(k), w)' = DiskWord(c.slot, c.lba + Block(k), WordAt(k))'
  BY <1>2, <1>4, <1>8 DEF DiskWord, Watched
<1> QED
  BY <1>2, <1>4, <1>7, <1>8, <1>11, <1>12

LEMMA TransferStep ==
    ASSUME IInv, NEW mount, NEW blocks \in Nat, NEW nreset, NEW rst, Steps(mount, blocks, nreset, rst),
           ImageGoes(mount)
    PROVE  TransferInv'
<1>1. ASSUME c'.st = "C_XFER", c'.wr,
             NEW k \in 0..((IF hps'.on THEN hps'.k ELSE Length(c)' * WORDS) - 1),
             Watched(c'.slot, c'.lba + Block(k))
      PROVE  disk'[WordAt(k)] = IF c'.pt THEN Newer(cur') ELSE cur'
  BY <1>1, SentStep
<1>2. ASSUME hps'.on, ~c'.pt, ~c'.wr, win'[c'.slot].ok, NEW k \in 0..(Arrived' - 1)
      PROVE  store'[c'.slot][c'.idx + Block(k)][WordAt(k)] = DiskWord(c.slot, c.lba + Block(k), WordAt(k))'
  BY <1>2, BroughtStep
<1>3. (c.st = "C_XFER" /\ c.wr =>
          \A k \in 0..((IF hps.on THEN hps.k ELSE Length(c) * WORDS) - 1) :
              Watched(c.slot, c.lba + Block(k)) =>
                  disk[WordAt(k)] = IF c.pt THEN Newer(cur) ELSE cur)'
  BY <1>1 DEF Watched, Newer
<1>4. (hps.on /\ ~c.pt /\ ~c.wr /\ win[c.slot].ok =>
          \A k \in 0..(Arrived - 1) :
              store[c.slot][c.idx + Block(k)][WordAt(k)] = DiskWord(c.slot, c.lba + Block(k), WordAt(k)))'
  BY <1>2
<1> QED
  BY <1>3, <1>4 DEF TransferInv

-----------------------------------------------------------------------------
(* What a target reads.                                                    *)

\* What is on its way to the target the engine works for.
LEMMA GotGoes ==
    ASSUME IInv, est # "E_IDLE", NEW mount, NEW blocks \in Nat, NEW nreset, NEW rst,
           Steps(mount, blocks, nreset, rst), ImageGoes(mount), r'.slot = r.slot, NEW w \in Words
    PROVE  /\ Wanted(r.slot)' = Wanted(r.slot)
           /\ e_buff'.wr /\ e_buff'.addr = w => (Got(w)' <=> e_buff'.dout = Wanted(r.slot))
           /\ ~(e_buff'.wr /\ e_buff'.addr = w) => (Got(w)' <=> Got(w))
<1>1. PICK s \in Slots : s = r.slot
  BY DEF IInv, CInv, KindInv
<1>2. Wanted(s)' = Wanted(s) /\ sd_buff'[s][w] = Held(s, w)
  BY <1>1, AtWork
<1>3. Got(w)' <=> Held(s, w)' = Wanted(s)'
  BY <1>1 DEF Got, Held, Wanted, Watched
<1>4. Got(w) <=> Held(s, w) = Wanted(s)
  BY <1>1 DEF Got
<1>5. Wanted(r.slot)' = Wanted(s)' /\ Wanted(r.slot) = Wanted(s)
  BY <1>1 DEF Wanted, Watched
<1>6. e_buff'.wr /\ e_buff'.addr = w => Held(s, w)' = e_buff'.dout
  BY DEF Held
<1>7. ~(e_buff'.wr /\ e_buff'.addr = w) => Held(s, w)' = sd_buff'[s][w]
  BY DEF Held
<1> QED
  BY <1>2, <1>3, <1>4, <1>5, <1>6, <1>7

\* While a target reads, the version is the one it is to get.
LEMMA ReadingIsOver ==
    ASSUME CInv, est # "E_IDLE", ~r.wr, r.slot = 0
    PROVE  Version = cur /\ ~WritingWatch
<1>1. ~WritingWatch
  BY EndsAtRest DEF WritingWatch
<1> QED
  BY <1>1 DEF Version, Pending

\* The word the engine reads from the store is the one its target is to get.
LEMMA ReadIsWanted ==
    ASSUME IInv, est = "E_RD_B"
    PROVE  store[r.slot][Cache!RIdx][r.word] = Wanted(r.slot)
<1>1. PICK s \in Slots : s = r.slot
  BY DEF IInv, CInv, KindInv
<1>2. Cache!RInWin /\ r.word \in Words /\ ~r.wr /\ est # "E_IDLE" /\ est \notin Writings
  BY DEF IInv, CInv, EngineInv, Answerings, Readings, Writings
<1>3. PICK i \in Cache!Sectors : i = Cache!RIdx /\ win[s].base + i = r.lba
  BY <1>1, <1>2, IdxIs DEF IInv, CInv, Cache!R
<1>4. i \in win[s].valid /\ win[s].ok
  BY <1>1, <1>2, <1>3 DEF IInv, DInv, ReadInv, Readings, Cache!R, Cache!RInWin
<1>5. PICK w \in Words : w = r.word
  BY <1>2
<1>6. PICK l : l = r.lba
  OBVIOUS
<1>7. ~BeingWritten(s, i)
  BY <1>2 DEF BeingWritten
<1>8. Stored(s, i, w) = IF i \in win[s].dirty THEN Content(s, l) ELSE DiskWord(s, l, w)
  BY <1>3, <1>4, <1>6, <1>7 DEF IInv, DInv, StoreInv
<1>9. Stored(s, i, w) = store[s][i][w]
  BY <1>2 DEF Stored, IInv, DInv, BufferInv
<1>10. lba[s] = l
  BY <1>1, <1>2, <1>6, EndsAtRest DEF IInv
<1>11. Content(s, l) = Wanted(s)
  <2>1. CASE Watched(s, l)
    <3>1. Version = cur
      BY <1>1, <1>2, <2>1, ReadingIsOver DEF IInv, Watched
    <3> QED
      BY <1>10, <2>1, <3>1 DEF Content, Wanted
  <2>2. CASE ~Watched(s, l)
    BY <1>10, <2>2 DEF Content, Wanted
  <2> QED
    BY <2>1, <2>2
<1>12. i \notin win[s].dirty => DiskWord(s, l, w) = Wanted(s)
  <2>1. CASE Watched(s, l) /\ i \notin win[s].dirty
    <3>1. s = 0 /\ l = Watch
      BY <2>1 DEF Watched
    <3>2. Version = cur /\ ~WritingWatch
      BY <1>1, <1>2, <3>1, ReadingIsOver DEF IInv
    <3>3. WatchInWindow /\ WatchIdx = i
      BY <1>3, <1>4, <1>6, <3>1, WatchAt DEF IInv, CInv
    <3>4. ~WatchDirty
      BY <2>1, <3>1, <3>3 DEF WatchDirty
    <3>5. disk[w] = cur
      BY <3>2, <3>4 DEF IInv, DInv, ImageInv
    <3> QED
      BY <1>10, <2>1, <3>5 DEF DiskWord, Wanted
  <2>2. CASE ~Watched(s, l)
    BY <1>10, <2>2 DEF DiskWord, Wanted
  <2> QED
    BY <2>1, <2>2
<1> QED
  BY <1>1, <1>3, <1>5, <1>8, <1>9, <1>11, <1>12

\* So is the word that passes the cache.
LEMMA PassedIsWanted ==
    ASSUME IInv, est = "E_PT", c.st # "C_IDLE", c.pt, ~r.wr, NEW w \in Words
    PROVE  DiskWord(c.slot, c.lba, w) = Wanted(r.slot)
<1>1. c.slot = r.slot /\ c.lba = r.lba /\ lba[r.slot] = r.lba
  BY EndsAtRest DEF IInv, CInv, DemandInv, DInv, PassInv
<1>2. CASE Watched(c.slot, c.lba)
  <2>1. r.slot = 0
    BY <1>1, <1>2 DEF Watched
  <2>2. Version = cur /\ ~WritingWatch
    BY <2>1, ReadingIsOver DEF IInv
  <2>3. ~WatchDirty
    BY <2>1 DEF WatchDirty, WatchInWindow, IInv, DInv, PassInv, Cache!R
  <2>4. disk[w] = cur
    BY <2>2, <2>3 DEF IInv, DInv, ImageInv
  <2> QED
    BY <1>1, <1>2, <2>4 DEF DiskWord, Wanted
<1>3. CASE ~Watched(c.slot, c.lba)
  BY <1>1, <1>3 DEF DiskWord, Wanted
<1> QED
  BY <1>2, <1>3

\* The engine reads on.
LEMMA ReadingGoes ==
    ASSUME IInv, est \in Readings, NEW mount, NEW blocks \in Nat, NEW nreset, NEW rst,
           Steps(mount, blocks, nreset, rst), ImageGoes(mount)
    PROVE  /\ Cache!RIdx' \in Cache!R'.valid
           /\ \A w \in 0..(r'.word - 1) : Got(w)'
           /\ est' = "E_RD_C" => q_a' = Wanted(r.slot)'
           /\ est' = "E_DONE" => \A w \in Words : Got(w)'
<1>1. /\ r'.slot = r.slot /\ Cache!RIdx' = Cache!RIdx
      /\ r.word \in Words /\ r'.word \in Words /\ Cache!RIdx \in Cache!Sectors /\ r.slot \in Slots
      /\ r'.word = r.word \/ (r'.word = r.word + 1 /\ est \in {"E_RD_C", "E_WR_C"})
      /\ est' = "E_DONE" => r.word = WORDS - 1 /\ est \in {"E_RD_C", "E_WR_C"}
      /\ r.slot \notin mount /\ ~Rebased(r.slot)
      /\ ~Cache!DropsWindow(Inputs(mount, blocks, nreset), r.slot)
  BY AnsweringStays
<1>2. est # "E_IDLE" /\ est \notin Writings /\ est # "E_PT"
  BY DEF Readings, Writings
<1>3. Cache!RIdx' \in Cache!R'.valid
  <2>1. win[r.slot].valid \subseteq win'[r.slot].valid
    BY <1>1, ValidGoes DEF IInv, CInv
  <2>2. Cache!RIdx \in win[r.slot].valid
    BY DEF IInv, DInv, ReadInv, Cache!R
  <2> QED
    BY <1>1, <2>1, <2>2 DEF Cache!R
<1>4. \A w \in 0..(r.word - 1) : w \in Words /\ Got(w)
  BY <1>1, Geometry DEF IInv, DInv, ReadInv, Words
<1>5. CASE est = "E_RD_C"
  <2>1. e_buff'.wr /\ e_buff'.addr = r.word /\ e_buff'.dout = q_a
    BY <1>5, EngineBuffer
  <2>2. q_a = Wanted(r.slot)
    BY <1>5 DEF IInv, DInv, ReadInv
  <2>3. ASSUME NEW w \in Words, w <= r.word PROVE Got(w)'
    <3>1. CASE w = r.word
      BY <1>1, <1>2, <2>1, <2>2, <3>1, GotGoes
    <3>2. CASE w # r.word
      <4>1. w \in 0..(r.word - 1)
        BY <1>1, <2>3, <3>2, Geometry DEF Words
      <4> QED
        BY <1>1, <1>2, <1>4, <2>1, <3>2, <4>1, GotGoes
    <3> QED
      BY <3>1, <3>2
  <2>4. \A w \in 0..(r'.word - 1) : Got(w)'
    <3>1. \A w \in 0..(r'.word - 1) : w \in Words /\ w <= r.word
      BY <1>1, Geometry DEF Words
    <3> QED
      BY <2>3, <3>1
  <2>5. est' = "E_DONE" => \A w \in Words : Got(w)'
    BY <1>1, <2>3, Geometry DEF Words
  <2>6. est' # "E_RD_C"
    <3>1. est \in Answerings
      BY <1>5 DEF Answerings, Readings
    <3> QED
      BY <1>5, <3>1, FromAnswering DEF IInv, CInv
  <2> QED
    BY <1>3, <2>4, <2>5, <2>6
<1>6. CASE est \in {"E_RD_A", "E_RD_B"}
  <2>1. ~e_buff'.wr /\ r'.word = r.word /\ est' # "E_DONE"
    BY <1>1, <1>2, <1>6, EngineBuffer
  <2>2. ASSUME NEW w \in 0..(r'.word - 1) PROVE Got(w)'
    BY <1>1, <1>2, <1>4, <2>1, <2>2, GotGoes
  <2>3. est' = "E_RD_C" => q_a' = Wanted(r.slot)'
    <3>1. SUFFICES ASSUME est' = "E_RD_C" PROVE q_a' = Wanted(r.slot)'
      OBVIOUS
    <3>2. est = "E_RD_B"
      <4>1. est \in Answerings
        BY <1>6 DEF Answerings, Readings
      <4> QED
        BY <1>6, <3>1, <4>1, FromAnswering DEF IInv, CInv
    <3>3. q_a' = Wanted(r.slot)
      BY <3>2, EngineWrites, ReadIsWanted
    <3>4. PICK w \in Words : TRUE
      BY <1>1
    <3> QED
      BY <1>1, <1>2, <3>3, <3>4, GotGoes
  <2> QED
    BY <1>3, <2>1, <2>2, <2>3
<1> QED
  BY <1>5, <1>6 DEF Readings

\* A sector passes the cache word by word.
LEMMA PassingGoes ==
    ASSUME IInv, CInv', NEW mount, NEW blocks \in Nat, NEW nreset, NEW rst, Steps(mount, blocks, nreset, rst),
           ImageGoes(mount), est' = "E_PT", c'.st # "C_IDLE", c'.pt, ~r'.wr,
           NEW w \in 0..((IF hps'.on THEN Arrived' ELSE IF c'.st = "C_XFER" THEN WORDS ELSE 0) - 1)
    PROVE  Got(w)'
<1>1. est = "E_PT"
  <2>1. est # "E_DECIDE"
    <3>1. ~dem'.req
      BY DEF CInv, DemandInv
    <3> QED
      BY <3>1, FromDecide DEF IInv, CInv
  <2> QED
    BY <2>1, ToWriting
<1>2. r' = r /\ ~(c.st = "C_XFER" /\ c.pt /\ ~hps.on)
  BY <1>1, FromSettling DEF IInv, CInv
<1>3. hps.on
  <2>1. SUFFICES ASSUME ~hps.on
                 PROVE  (IF hps'.on THEN Arrived' ELSE IF c'.st = "C_XFER" THEN WORDS ELSE 0) = 0
    OBVIOUS
  <2>2. c'.st # "C_XFER"
    <3>1. CASE c.st = "C_IDLE"
      BY <3>1, Begun DEF IInv, CInv
    <3>2. CASE c.st # "C_IDLE"
      BY <2>1, <3>2, GoneOn DEF IInv, CInv
    <3> QED
      BY <3>1, <3>2
  <2>3. hps'.on => Arrived' = 0
    <3>1. HpsGoes
      BY DEF Steps
    <3>2. CASE hps' = [hps EXCEPT !.strobe = FALSE]
      <4>1. hps \in SessionKind
        BY DEF IInv, CInv, KindInv, SessionKind
      <4> QED
        BY <2>1, <3>2, <4>1 DEF SessionKind
    <3>3. CASE ~(hps' = [hps EXCEPT !.strobe = FALSE])
      <4>1. PICK now \in BOOLEAN : hps' = [on |-> TRUE, slot |-> c.slot, wr |-> c.wr, lba |-> c.lba,
                                           n |-> Length(c), k |-> IF now THEN 1 ELSE 0, strobe |-> now]
        BY <2>1, <3>1, <3>3 DEF HpsGoes
      <4>2. hps'.k = (IF now THEN 1 ELSE 0) /\ hps'.strobe = now
        BY <4>1
      <4> QED
        BY <4>2 DEF Arrived
    <3> QED
      BY <3>2, <3>3
  <2> QED
    BY <2>2, <2>3
<1>4. /\ c.st # "C_IDLE" /\ hps.wr = c.wr /\ Total = Length(c) * WORDS /\ Total \in Nat \ {0}
      /\ hps.k \in 0..Total /\ c'.pt = c.pt /\ c'.st = "C_XFER"
      /\ ~hps'.on => hps.k = Total
      /\ hps'.on => \/ hps'.k = hps.k /\ ~hps'.strobe
                    \/ hps'.k = hps.k + 1 /\ hps.k < Total /\ (hps.wr => c.st = "C_XFER")
                       /\ (~hps.wr => hps'.strobe)
  BY <1>3, SessionGoes DEF IInv
<1>5. c.pt /\ ~c.grp /\ ~r.wr /\ ~c.wr /\ c.lba = r.lba
  BY <1>1, <1>2, <1>4 DEF IInv, CInv, DemandInv, DInv, PassInv
<1>6. Total = WORDS /\ Length(c) = 1
  BY <1>4, <1>5, Geometry DEF Length
<1>7. w \in 0..(hps.k - 1) /\ w \in Words
  BY <1>4, <1>5, <1>6, Geometry DEF Arrived, Words
<1>8. est # "E_IDLE" /\ r'.slot = r.slot
  BY <1>1, <1>2
<1>9. w \in 0..(Arrived - 1) => Got(w)
  BY <1>1, <1>3, <1>4, <1>5 DEF IInv, DInv, ReadInv
<1>10. hps.strobe \in BOOLEAN
  BY DEF IInv, CInv, KindInv
<1>11. CASE hps.strobe
  <2>1. PICK k \in 0..(Length(c) * WORDS - 1) : k = hps.k - 1
    BY <1>4, <1>7
  <2>2. Block(k) = 0 /\ WordAt(k) = k
    <3>1. k \in Nat /\ k < WORDS /\ WORDS \in Nat \ {0}
      BY <1>4, <1>6, <2>1, Geometry
    <3>2. WORDS * 0 + k = k
      BY <3>1
    <3>3. k \div WORDS = 0 /\ k % WORDS = k
      BY <3>1, <3>2, Quotient
    <3> QED
      BY <3>3 DEF Block, WordAt
  <2>3. e_buff'.wr /\ e_buff'.addr = k /\ e_buff'.dout = DiskWord(c.slot, c.lba + 0, k)
    BY <1>1, <1>3, <1>5, <1>11, <2>1, <2>2, EngineBuffer
  <2>4. c.lba + 0 = c.lba
    BY DEF IInv, CInv, KindInv, TransactionKind
  <2>5. CASE w = k
    <3>1. e_buff'.dout = Wanted(r.slot)
      BY <1>1, <1>4, <1>5, <1>7, <2>3, <2>4, <2>5, PassedIsWanted
    <3> QED
      BY <1>7, <1>8, <2>3, <2>5, <3>1, GotGoes
  <2>6. CASE w # k
    <3>1. w \in 0..(Arrived - 1)
      BY <1>4, <1>7, <1>11, <2>1, <2>6 DEF Arrived
    <3> QED
      BY <1>7, <1>8, <1>9, <2>3, <2>6, <3>1, GotGoes
  <2> QED
    BY <2>5, <2>6
<1>12. CASE ~hps.strobe
  <2>1. w \in 0..(Arrived - 1)
    BY <1>4, <1>7, <1>12 DEF Arrived
  <2>2. ~e_buff'.wr
    BY <1>1, <1>12, EngineBuffer
  <2> QED
    BY <1>7, <1>8, <1>9, <2>1, <2>2, GotGoes
<1> QED
  BY <1>11, <1>12

\* A sector is read when it ends.
LEMMA EndedIsRead ==
    ASSUME IInv, NEW mount, NEW blocks \in Nat, NEW nreset, NEW rst, Steps(mount, blocks, nreset, rst),
           ImageGoes(mount), NEW s \in Slots, Port!Ends(s, e_ack)', ~writing'[s], NEW w \in Words
    PROVE  sd_buff'[s][w] = Wanted(s)'
<1>1. s = r.slot /\ (est = "E_DONE" \/ (est = "E_PT" /\ c.st = "C_XFER" /\ c.pt /\ ~hps.on))
  BY EndingComes DEF IInv
<1>2. est # "E_IDLE"
  BY <1>1
<1>3. writing'[s] = writing[s]
  BY <1>2, WorkStays DEF Stays, IInv
<1>4. ~r.wr
  BY <1>1, <1>2, <1>3, EndsAtRest DEF IInv
<1>5. Got(w)
  <2>1. CASE est = "E_DONE"
    BY <1>4, <2>1 DEF IInv, DInv, ReadInv
  <2>2. CASE est = "E_PT" /\ c.st = "C_XFER" /\ c.pt /\ ~hps.on
    <3>1. w \in 0..(WORDS - 1)
      BY DEF Words
    <3> QED
      BY <1>4, <2>2, <3>1 DEF IInv, DInv, ReadInv
  <2> QED
    BY <1>1, <2>1, <2>2
<1>6. sd_buff'[s][w] = Held(s, w) /\ Wanted(s)' = Wanted(s)
  BY <1>1, <1>2, AtWork
<1> QED
  BY <1>1, <1>5, <1>6 DEF Got

LEMMA ReadStep ==
    ASSUME IInv, CInv', NEW mount, NEW blocks \in Nat, NEW nreset, NEW rst, Steps(mount, blocks, nreset, rst),
           ImageGoes(mount)
    PROVE  ReadInv'
<1>1. ASSUME est' \in Readings
      PROVE  Cache!RIdx' \in Cache!R'.valid /\ \A w \in 0..(r'.word - 1) : Got(w)'
  <2>1. CASE est \in Readings
    BY <2>1, ReadingGoes
  <2>2. CASE est = "E_DECIDE" /\ r' = r
    <3>1. r.word = 0
      BY <2>2 DEF IInv, CInv, EngineInv, Answerings, Readings, Writings
    <3>2. Cache!RHit /\ ~Cache!PassesThrough(Inputs(mount, blocks, nreset))
      BY <1>1, <2>2, FromDecide DEF IInv, CInv, Readings
    <3>3. busy[r.slot] /\ r.slot \in Slots
      BY <2>2 DEF IInv, CInv, EngineInv, KindInv
    <3>4. r.slot \notin mount /\ ~Rebased(r.slot)
      BY <2>2, <3>3 DEF Steps, Rebased
    <3>5. win[r.slot].valid \subseteq win'[r.slot].valid /\ win'[r.slot].base = win[r.slot].base
      <4>1. ~Cache!DropsWindow(Inputs(mount, blocks, nreset), r.slot)
        BY <3>2 DEF Cache!DropsWindow
      <4>2. win[r.slot].valid \subseteq win'[r.slot].valid
        BY <3>3, <3>4, <4>1, ValidGoes DEF IInv, CInv
      <4>3. win'[r.slot].base = win[r.slot].base
        BY <3>3, <3>4, WindowGoes DEF IInv, CInv
      <4> QED
        BY <4>2, <4>3
    <3>6. Cache!RIdx' = Cache!RIdx
      BY <2>2, <3>5 DEF Cache!RIdx, Cache!R
    <3>7. Cache!RIdx' \in Cache!R'.valid
      BY <2>2, <3>2, <3>5, <3>6 DEF Cache!RHit, Cache!R
    <3> QED
      BY <2>2, <3>1, <3>7
  <2> QED
    BY <1>1, <2>1, <2>2, ToWriting
<1>2. ASSUME est' = "E_RD_C" PROVE q_a' = Wanted(r.slot)'
  <2>1. est \in Readings
    <3>1. est # "E_DECIDE"
      BY <1>2, FromDecide DEF IInv, CInv
    <3> QED
      BY <1>2, <3>1, ToWriting DEF Readings
  <2> QED
    BY <1>2, <2>1, ReadingGoes
<1>3. ASSUME est' = "E_DONE", ~r'.wr PROVE \A w \in Words : Got(w)'
  <2>1. est \in {"E_RD_C", "E_WR_C"}
    BY <1>3, ToWriting
  <2>2. est \in Readings
    <3>1. est \in Readings \cup Writings
      BY <2>1 DEF Readings, Writings
    <3> QED
      BY <1>3, <2>1, <3>1, AnsweringStays DEF Readings, Writings
  <2> QED
    BY <1>3, <2>2, ReadingGoes
<1>4. ASSUME est' = "E_PT", c'.st # "C_IDLE", c'.pt, ~r'.wr,
             NEW w \in 0..((IF hps'.on THEN Arrived' ELSE IF c'.st = "C_XFER" THEN WORDS ELSE 0) - 1)
      PROVE  Got(w)'
  BY <1>4, PassingGoes
<1>5. ASSUME NEW s \in Slots, Port!Ends(s, e_ack)', ~writing'[s], NEW w \in Words
      PROVE  sd_buff'[s][w] = Wanted(s)'
  BY <1>5, EndedIsRead
<1> QED
  BY <1>1, <1>2, <1>3, <1>4, <1>5 DEF ReadInv, Ending

-----------------------------------------------------------------------------
(* The theorems of the data.                                               *)

LEMMA DInit ==
    ASSUME Init, Calm, Discs
    PROVE  IInv
<1>1. CInv
  BY CInit
<1>2. Cache!Slots = Slots /\ 0 \in Slots /\ Cache!Words = Words /\ NewSize \in Nat
  BY Geometry, GuestAssumption DEF Cache!Slots, Slots, Cache!Words, Words
<1>3. /\ win = [s \in Slots |-> Cache!NoWindow] /\ est = "E_IDLE" /\ e_ack = {}
      /\ c = Cache!NoTransaction /\ dem = Cache!NoDemand /\ wr_q = Cache!NoWrite
      /\ e_buff = Cache!NoBuff /\ busy = [s \in Slots |-> FALSE]
      /\ sd_buff = [s \in Slots |-> Sector(NoWord)]
      /\ hps = NoSession /\ disk = Sector(1) /\ cur = 1
  BY <1>2 DEF Init, Cache!Init
<1>4. \A s \in Slots : ~win[s].ok /\ win[s].valid = {} /\ win[s].dirty = {} /\ ~win[s].mounted /\ ~busy[s]
  BY <1>3 DEF Cache!NoWindow
<1>5. c.st = "C_IDLE" /\ ~dem.req /\ ~wr_q.on /\ ~e_buff.wr /\ ~hps.on
      /\ DOMAIN e_buff = {"wr", "addr", "dout"}
  BY <1>3 DEF Cache!NoTransaction, Cache!NoDemand, Cache!NoWrite, Cache!NoBuff, NoSession
<1>6. GuestInv
  BY <1>4 DEF GuestInv
<1>7. ChannelInv
  BY <1>5 DEF ChannelInv
<1>8. PassInv
  BY <1>3, <1>5 DEF PassInv
<1>9. BufferInv
  <2>1. \A s \in Slots : DOMAIN sd_buff[s] = Words
    BY <1>3 DEF Sector
  <2> QED
    BY <1>3, <1>4, <1>5, <2>1 DEF BufferInv, Writings
<1>10. StoreInv
  BY <1>4 DEF StoreInv
<1>11. ImageInv
  <2>1. ~WritingWatch
    BY <1>2, <1>4 DEF WritingWatch
  <2>2. Version = 1
    BY <1>3, <2>1 DEF Version, Pending
  <2> QED
    BY <1>3, <2>2 DEF ImageInv, Sector
<1>12. TransferInv
  BY <1>5 DEF TransferInv
<1>13. ReadInv
  <2>1. \A s \in Slots : ~Ending(s)
    BY <1>4 DEF Ending, Port!Ends
  <2> QED
    BY <1>3, <2>1 DEF ReadInv, Readings
<1> QED
  BY <1>1, <1>6, <1>7, <1>8, <1>9, <1>10, <1>11, <1>12, <1>13 DEF IInv, DInv

LEMMA DNext ==
    ASSUME IInv, ~DemandRace, [Next]_vars
    PROVE  IInv'
<1>1. CInv'
  BY CNext DEF IInv
<1>2. CASE Next
  <2>1. PICK mount \in SUBSET Slots, blocks \in Nat, nreset \in BOOLEAN, rst \in BOOLEAN :
           Steps(mount, blocks, nreset, rst) /\ ImageGoes(mount)
    BY <1>2, NextSteps DEF IInv, CInv
  <2>2. GuestInv' /\ ChannelInv'
    BY <2>1, GuestStep, ChannelStep
  <2>3. PassInv'
    BY <1>1, <2>1, PassStep
  <2>4. BufferInv'
    BY <1>1, <2>1, BufferStep
  <2>5. StoreInv' /\ ImageInv' /\ TransferInv'
    BY <2>1, StoreStep, ImageStep, TransferStep
  <2>6. ReadInv'
    BY <1>1, <2>1, ReadStep
  <2> QED
    BY <1>1, <2>2, <2>3, <2>4, <2>5, <2>6 DEF IInv, DInv
<1>3. CASE UNCHANGED vars
  <2>1. GuestInv' /\ ChannelInv' /\ PassInv'
    BY <1>3 DEF vars, Cache!cacheVars, Port!portVars, IInv, DInv, GuestInv, Discs, ChannelInv, PassInv,
       Ending, Port!Ends, Length, Cache!Covered, Cache!InGroup, Cache!R, Cache!RIdx, Cache!RInWin
  <2>2. BufferInv'
    BY <1>3 DEF vars, Cache!cacheVars, Port!portVars, IInv, DInv, BufferInv, Offered, Watched, Stored,
       Cache!R, Cache!RIdx
  <2>3. Version' = Version /\ (WatchDirty' <=> WatchDirty) /\ (WritingWatch' <=> WritingWatch)
    BY <1>3 DEF vars, Cache!cacheVars, Port!portVars, Version, Pending, WritingWatch, Ending, Port!Ends,
       WatchDirty, WatchInWindow, WatchIdx
  <2>4. StoreInv'
    BY <1>3, <2>3 DEF vars, Cache!cacheVars, Port!portVars, IInv, DInv, StoreInv, BeingWritten, Stored,
       Content, DiskWord, Watched, Cache!R, Cache!RIdx
  <2>5. ImageInv'
    BY <1>3, <2>3 DEF vars, Cache!cacheVars, Port!portVars, IInv, DInv, ImageInv
  <2>6. TransferInv'
    BY <1>3 DEF vars, Cache!cacheVars, Port!portVars, IInv, DInv, TransferInv, Arrived, Length, Watched,
       DiskWord
  <2>7. ReadInv'
    BY <1>3 DEF vars, Cache!cacheVars, Port!portVars, IInv, DInv, ReadInv, Got, Held, Wanted, Watched,
       Arrived, Ending, Port!Ends, Cache!R, Cache!RIdx
  <2> QED
    BY <1>1, <2>1, <2>2, <2>4, <2>5, <2>6, <2>7 DEF IInv, DInv
<1> QED
  BY <1>2, <1>3

(* While no demand meets a prefetch of its own group, and if only discs    *)
(* are exchanged, the words of every sector are right wherever they are.   *)
THEOREM DataInvariant == Spec /\ Calm /\ Discs /\ []~DemandRace => []IInv
<1>1. Init /\ Calm /\ Discs => IInv
  BY DInit
<1>2. IInv /\ ~DemandRace /\ [Next]_vars => IInv'
  BY DNext
<1> QED
  BY <1>1, <1>2, PTL DEF Spec

\* What a target reads is what the guest wrote last.
LEMMA ReadsFollow ==
    ASSUME IInv
    PROVE  ReadsLatest
<1>1. ASSUME NEW s \in Slots, Port!Ends(s, e_ack), ~writing[s], NEW w \in Words
      PROVE  sd_buff[s][w] = IF Watched(s, lba[s]) THEN cur ELSE Other(s)
  BY <1>1 DEF IInv, DInv, ReadInv, Ending, Wanted
<1> QED
  BY <1>1 DEF ReadsLatest

\* The words of Watch in the store.
LEMMA WatchStoredIs ==
    ASSUME IInv, WatchInWindow, WatchValid, ~(est \in Writings /\ WritingWatch), NEW w \in Words
    PROVE  /\ WatchDirty => WatchStored(w) = Version
           /\ ~WatchDirty => WatchStored(w) = disk[w]
<1>1. 0 \in Slots
  BY Geometry DEF Slots
<1>2. PICK i \in Cache!Sectors : i = WatchIdx /\ win[0].ok /\ i \in win[0].valid
  BY DEF WatchValid, WatchInWindow, Cache!Sectors
<1>3. win[0].base + i = Watch
  <2>1. win[0].base \in Nat /\ Watch \in Nat
    BY <1>1, GuestAssumption DEF IInv, CInv, KindInv, Windows
  <2> QED
    BY <1>2, <2>1 DEF WatchIdx
<1>4. ~BeingWritten(0, i)
  <2>1. SUFFICES ASSUME BeingWritten(0, i) PROVE FALSE
    OBVIOUS
  <2>2. est \in Writings /\ r.slot = 0 /\ Cache!RIdx = i /\ est # "E_IDLE" /\ r.wr /\ Cache!RInWin
    BY <2>1 DEF BeingWritten, Writings, Answerings, IInv, CInv, EngineInv
  <2>3. r.lba = Watch
    BY <1>3, <2>2, IdxIs DEF IInv, CInv, Cache!R
  <2>4. WritingWatch
    BY <2>2, <2>3, EndsAtRest DEF IInv, WritingWatch
  <2> QED
    BY <2>2, <2>4
<1>5. Watched(0, win[0].base + i)
  BY <1>3 DEF Watched
<1>6. Stored(0, i, w) = IF i \in win[0].dirty THEN Content(0, win[0].base + i)
                        ELSE DiskWord(0, win[0].base + i, w)
  BY <1>1, <1>2, <1>4 DEF IInv, DInv, StoreInv
<1>7. Stored(0, i, w) = WatchStored(w)
  BY <1>2 DEF Stored, WatchStored
<1>8. i \in win[0].dirty <=> WatchDirty
  BY <1>2 DEF WatchDirty
<1> QED
  BY <1>5, <1>6, <1>7, <1>8 DEF Content, DiskWord

LEMMA LatestIsKept ==
    ASSUME IInv
    PROVE  NothingLost
<1>1. SUFFICES ASSUME ~WritingWatch, NEW w \in Words
               PROVE  IF WatchDirty THEN WatchStored(w) = cur ELSE disk[w] = cur
  BY DEF NothingLost
<1>2. Version = cur
  BY <1>1 DEF Version, Pending
<1>3. CASE WatchDirty
  <2>1. 0 \in Slots
    BY Geometry DEF Slots
  <2>2. WatchInWindow /\ WatchValid
    BY <1>3, <2>1 DEF WatchDirty, WatchValid, IInv, CInv, WindowInv
  <2> QED
    BY <1>1, <1>2, <1>3, <2>2, WatchStoredIs
<1>4. CASE ~WatchDirty
  BY <1>1, <1>2, <1>4 DEF IInv, DInv, ImageInv
<1> QED
  BY <1>3, <1>4

LEMMA CleanIsImage ==
    ASSUME IInv
    PROVE  CleanMatchesImage
<1>1. SUFFICES ASSUME WatchValid, ~WatchDirty, ~(est \in {"E_WR_A", "E_WR_B", "E_WR_C"} /\ WritingWatch),
                      NEW w \in Words
               PROVE  WatchStored(w) = disk[w]
  BY DEF CleanMatchesImage
<1>2. WatchInWindow /\ ~(est \in Writings /\ WritingWatch)
  BY <1>1 DEF WatchValid, Writings
<1> QED
  BY <1>1, <1>2, WatchStoredIs

LEMMA OutBelongs ==
    ASSUME IInv
    PROVE  WritesBelong
<1>1. ASSUME c.st # "C_IDLE", win[c.slot].ok
      PROVE  c.lba + (IF c.grp THEN GROUP ELSE 1) <= win[c.slot].size
  <2>1. ~c.pt
    BY <1>1 DEF IInv, CInv, DemandInv, DInv, PassInv, Cache!R
  <2> QED
    BY <1>1, <2>1 DEF IInv, DInv, ChannelInv, Length
<1>2. ASSUME hps.on, hps.wr, c.st = "C_XFER", NEW k \in hps.k..(Total - 1)
      PROVE  PBuffDin(k) = IF ~Watched(hps.slot, hps.lba + Block(k)) THEN Other(hps.slot)
                           ELSE IF c.pt THEN Newer(cur) ELSE cur
  <2>1. /\ hps.slot = c.slot /\ hps.wr = c.wr /\ hps.lba = c.lba /\ Total = Length(c) * WORDS
        /\ hps.k \in 0..Total
    BY <1>2 DEF IInv, CInv, HpsInv, Total
  <2>2. k \in 0..(Length(c) * WORDS - 1)
    BY <1>2, <2>1
  <2> QED
    BY <1>2, <2>1, <2>2, SampleIs
<1> QED
  BY <1>1, <1>2 DEF WritesBelong

(* A read that a target is answered gives it what the guest wrote last,    *)
(* whether sgi_scsi had the sector, fetched it or let it pass.             *)
THEOREM ReadsLatestTheorem == Spec /\ Calm /\ Discs /\ []~DemandRace => []ReadsLatest
  BY ReadsFollow, DataInvariant, PTL

(* Write-behind loses nothing: a sector's latest words are in sgi_scsi's   *)
(* store under a dirty bit or else in the image.                           *)
THEOREM NothingLostTheorem == Spec /\ Calm /\ Discs /\ []~DemandRace => []NothingLost
  BY LatestIsKept, DataInvariant, PTL

(* A sector that sgi_scsi has as valid and not dirty is the image's, so    *)
(* that it may be dropped at any time.                                     *)
THEOREM CleanMatchesImageTheorem == Spec /\ Calm /\ Discs /\ []~DemandRace => []CleanMatchesImage
  BY CleanIsImage, DataInvariant, PTL

(* Each word that p_buff_din still has to carry in a write is its sector's *)
(* latest one, and no transaction goes past the end of its image.          *)
THEOREM WritesBelongTheorem == Spec /\ Calm /\ Discs /\ []~DemandRace => []WritesBelong
  BY OutBelongs, DataInvariant, PTL

-----------------------------------------------------------------------------
(* Guests that wait for the prefetcher never meet the race.                *)

Patient == ~guest.hasty

\* Nothing is left to prefetch while a target asks or is served.
PatientInv == Patient /\ (est # "E_IDLE" \/ \E s \in Slots : io[s] # "none") => pf.left = 0

LEMMA NoRace ==
    ASSUME Patient, PatientInv
    PROVE  ~DemandRace
BY DEF PatientInv, DemandRace, Cache!Misses, Cache!Deciding, Cache!StartsPrefetch, Cache!Prefetches

LEMMA PatientStep ==
    ASSUME CInv, Patient, PatientInv, NEW mount, NEW blocks \in Nat, NEW nreset, NEW rst,
           Steps(mount, blocks, nreset, rst)
    PROVE  PatientInv'
<1> DEFINE in == Inputs(mount, blocks, nreset)
<1>0. in = Inputs(mount, blocks, nreset)
  OBVIOUS
<1> HIDE DEF in
<1>1. Cache!NoPrefetch.left = 0
  BY DEF Cache!NoPrefetch
<1>2. pf.left = 0 => Cache!PfAfterChannel(in) = pf
  BY DEF Cache!PfAfterChannel, Cache!Prefetches
<1>3. est # "E_DONE" /\ pf.left = 0 => pf'.left = 0
  BY <1>0, <1>1, <1>2, EngineClock DEF CInv
<1>4. CASE est = "E_IDLE" /\ \A s \in Slots : io[s] = "none"
  <2>1. est' = "E_IDLE"
    BY <1>4, FromIdle DEF CInv
  <2>2. CASE \A t \in Slots : Stays(t)
    BY <1>4, <2>1, <2>2 DEF Stays, PatientInv
  <2>3. CASE \E s \in guest.slots : Begins(s)
    BY <1>3, <1>4, <2>3 DEF Begins, Patient, PatientInv
  <2> QED
    BY <2>2, <2>3, PortGoes DEF CInv
<1>5. CASE est = "E_DONE"
  <2>1. est' = "E_IDLE" /\ e_ack = {r.slot}
    BY <1>5, FromAnswering DEF CInv, EngineInv, Answerings
  <2>2. \A t \in Slots : io'[t] = IF t \in e_ack THEN "none" ELSE io[t]
    BY <1>5, WorkStays DEF Stays
  <2>3. \A t \in Slots : io[t] # "none" => t = r.slot
    BY <1>5, EndsAtRest DEF CInv, PortInv
  <2> QED
    BY <2>1, <2>2, <2>3 DEF PatientInv
<1>6. CASE est # "E_DONE" /\ ~(est = "E_IDLE" /\ \A s \in Slots : io[s] = "none")
  BY <1>3, <1>6 DEF PatientInv
<1> QED
  BY <1>4, <1>5, <1>6

(* A guest that asks only when sgi_scsi's prefetcher has nothing left to   *)
(* do never meets the race.                                                *)
THEOREM PatientTheorem == Spec /\ Calm /\ Patient => []~DemandRace
<1>1. Init /\ Calm /\ Patient => CInv /\ PatientInv /\ Patient
  BY CInit DEF Init, Cache!Init, Cache!NoPrefetch, PatientInv
<1>2. CInv /\ PatientInv /\ Patient /\ [Next]_vars => (CInv /\ PatientInv /\ Patient)'
  <2> SUFFICES ASSUME CInv, PatientInv, Patient, [Next]_vars PROVE (CInv /\ PatientInv /\ Patient)'
    OBVIOUS
  <2>1. CInv'
    BY NoRace, CNext
  <2>2. CASE Next
    <3>1. PICK mount \in SUBSET Slots, blocks \in Nat, nreset \in BOOLEAN, rst \in BOOLEAN :
             Steps(mount, blocks, nreset, rst)
      BY <2>2, NextSteps DEF CInv
    <3>2. guest' = guest
      BY <3>1 DEF Steps
    <3> QED
      BY <2>1, <3>1, <3>2, PatientStep DEF Patient
  <2>3. CASE UNCHANGED vars
    BY <2>1, <2>3 DEF vars, Cache!cacheVars, Port!portVars, PatientInv, Patient
  <2> QED
    BY <2>2, <2>3
<1>3. CInv /\ PatientInv /\ Patient => ~DemandRace
  BY NoRace
<1> QED
  BY <1>1, <1>2, <1>3, PTL DEF Spec

(* So for such guests all of it holds of every behaviour.                  *)
THEOREM PatientDataTheorem ==
    Spec /\ Calm /\ Discs /\ Patient
    => [](SidesApart /\ ReadsLatest /\ NothingLost /\ CleanMatchesImage /\ WritesBelong)
BY PatientTheorem, SidesApartTheorem, ReadsLatestTheorem, NothingLostTheorem, CleanMatchesImageTheorem,
   WritesBelongTheorem, PTL

=============================================================================
