----------------------------- MODULE MemoryPort -----------------------------
(***************************************************************************)
(* Main memory's port and everything in front of it, as rtl/sgi/           *)
(* sgi_indy.sv wires it: the CPU and its bridge (CpuMemPort, R4300Bus),    *)
(* the devices that answer the CPU one word at a time, the two DMA         *)
(* engines - HPC3's SCSI channel and the MC's GIO64 engine - muxed into    *)
(* one requester, the arbiter (RamArb) and the port itself (RamPort).      *)
(*                                                                         *)
(* Next is one clock edge of all of them.  The memory and the devices      *)
(* answer after any number of clocks; the CPU and the engines ask whenever *)
(* they may.                                                               *)
(***************************************************************************)
EXTENDS Naturals

CONSTANTS
    LineFills,   \* doublewords of a line fill: subset of 2..4
    LineWrites,  \* doublewords of a line write
    ScsiHoles,   \* may the SCSI channel's descriptors name a hole in memory?
    McHoles,     \* may the MC engine's?
    NumIds,      \* accesses told apart: ids are reused modulo NumIds
    NoRequest

ASSUME IdsAssumption == NumIds \in Nat \ {0}
ASSUME LineAssumption == LineFills \subseteq 2..4 /\ LineWrites \subseteq 2..4
ASSUME HolesAssumption == ScsiHoles \in BOOLEAN /\ McHoles \in BOOLEAN

VARIABLES
    memstate, mem_request, access, ram_active, fill_active, window_beat, line,
    state, bus_req, bus_we, bus_beat, bus_burst,
    fill_beat, fill_last, fill_grant, mem_done,
    inflight, owner_dma, cpu_wait,
    cur, left, ram_ack, ram_last, ram_rdata,
    dev_busy, dev_ack,           \* the devices: asked, answering
    sdma, mcd,                   \* the DMA engines' requests
    dma_owner_mc,                \* which engine the port's transaction is for
    dma_miss_ack                 \* the answer to an address in no bank


NoData == [who |-> "none", id |-> 0, word |-> 0]

Accesses ==
    [rnw : {TRUE}, words : {1} \cup LineFills, to : {"ram", "device"}]
    \cup [rnw : {FALSE}, words : {1}, to : {"ram", "device"}]
    \cup [rnw : {FALSE}, words : LineWrites, to : {"ram"}]

Cpu  == INSTANCE CpuMemPort
Bus  == INSTANCE R4300Bus
Arb  == INSTANCE RamArb
Port == INSTANCE RamPort

devVars == <<dev_busy, dev_ack>>
dmaVars == <<sdma, mcd, dma_owner_mc, dma_miss_ack>>
vars == <<Cpu!cpuVars, Bus!busVars, Arb!arbVars, Port!portVars,
          devVars, dmaVars>>

-----------------------------------------------------------------------------
(* The wires between the registers.                                        *)

CpuRamReq == bus_req /\ access.to = "ram"

\* Two engines, one requester, and the SCSI channel wins every tie.
McOwns == mcd.req /\ ~sdma.req
DmaReq == sdma.req \/ mcd.req
DmaHit == IF McOwns THEN mcd.hit ELSE sdma.hit
DmaRamReq == DmaReq /\ DmaHit

RamReq   == Arb!RamReq(CpuRamReq, DmaRamReq)
DmaGrant == Arb!DmaGo(CpuRamReq, DmaRamReq)

CpuPayload == [who |-> "cpu", id |-> access.id, we |-> bus_we,
               beat |-> bus_beat, words |-> bus_burst]
\* An engine's transaction is one word.
DmaPayload == [who |-> IF McOwns THEN "mc" ELSE "scsi",
               id |-> IF McOwns THEN mcd.id ELSE sdma.id,
               we |-> FALSE, beat |-> 0, words |-> 1]
RamPayload == IF DmaGrant THEN DmaPayload ELSE CpuPayload

CpuRamAck  == Arb!CpuAck(ram_ack)
DmaPortAck == Arb!DmaAck(ram_ack)
DmaAckAny  == DmaPortAck \/ dma_miss_ack
\* Mutant: the tag read off the mux instead of the transaction.
DmaAckMcUntagged == McOwns
DmaAckMc   == IF dma_miss_ack THEN McOwns ELSE dma_owner_mc
SdmaAck    == DmaAckAny /\ ~DmaAckMc
McdAck     == DmaAckAny /\ DmaAckMc
Zeros      == [who |-> "hole", id |-> 0, word |-> 0]
DmaRdata   == IF dma_miss_ack THEN Zeros ELSE ram_rdata

\* Only main memory streams; every other responder says its word is the last.
BusAck   == CpuRamAck \/ dev_ack
BusLast  == IF CpuRamAck THEN ram_last ELSE TRUE
BusRdata == IF CpuRamAck THEN ram_rdata
            ELSE [who |-> "cpu", id |-> access.id, word |-> bus_beat]
FillReady == Bus!FillDataReady(BusAck)

-----------------------------------------------------------------------------

Init ==
    /\ Cpu!Init /\ Bus!Init /\ Arb!Init /\ Port!Init
    /\ dev_busy = FALSE /\ dev_ack = FALSE
    /\ sdma = [req |-> FALSE, hit |-> TRUE, id |-> 0]
    /\ mcd = [req |-> FALSE, hit |-> TRUE, id |-> 0]
    /\ dma_owner_mc = FALSE /\ dma_miss_ack = FALSE

\* A device answers each request once, no sooner than the next clock.
DeviceClock ==
    LET owed == dev_busy \/ (bus_req /\ access.to = "device") IN
    \/ owed /\ dev_ack' = TRUE /\ dev_busy' = FALSE
    \/ dev_ack' = FALSE /\ dev_busy' = owed

\* An engine's next request, inside a bank or - if it may - in a hole.
Ask(engine, holes) ==
    {[req |-> TRUE, hit |-> h, id |-> (engine.id + 1) % NumIds] :
        h \in IF holes THEN BOOLEAN ELSE {TRUE}}

\* hpc3_scsi_dma registers dma_req: it falls with the acknowledgement and
\* rises again a clock later at the earliest.
ScsiClock ==
    \/ sdma.req /\ SdmaAck /\ sdma' = [sdma EXCEPT !.req = FALSE]
    \/ ~(sdma.req /\ SdmaAck) /\ UNCHANGED sdma
    \/ ~sdma.req /\ sdma' \in Ask(sdma, ScsiHoles)

\* mc_gio_dma's m_req is its state: from one access it may go straight to the
\* next without the line dropping.
McClock ==
    \/ mcd.req /\ McdAck /\ mcd' = [mcd EXCEPT !.req = FALSE]
    \/ ~(mcd.req /\ McdAck) /\ UNCHANGED mcd
    \/ (mcd.req => McdAck) /\ mcd' \in Ask(mcd, McHoles)

\* sgi_indy's own registers on this path.
DmaMuxClock ==
    /\ dma_miss_ack' = (DmaReq /\ ~DmaHit /\ ~dma_miss_ack)
    /\ dma_owner_mc' = IF RamReq THEN DmaGrant /\ McOwns ELSE dma_owner_mc

Next ==
    /\ Cpu!Clock(mem_done, fill_grant, FillReady, BusRdata)
    /\ Bus!Clock(mem_request, access, BusAck, BusLast)
    /\ Arb!Clock(CpuRamReq, DmaRamReq, ram_ack, ram_last)
    /\ Port!Clock(RamReq, RamPayload)
    /\ DeviceClock
    /\ ScsiClock /\ McClock /\ DmaMuxClock

MemoryAnswers == ram_ack' = TRUE /\ Port!Clock(RamReq, RamPayload) /\ Next
DeviceAnswers == dev_ack' = TRUE /\ DeviceClock /\ Next

\* The memory and the devices answer in the end.
Fairness == WF_vars(MemoryAnswers) /\ WF_vars(DeviceAnswers)

Spec == Init /\ [][Next]_vars

-----------------------------------------------------------------------------

Ids == 0..(NumIds - 1)
Data == [who : {"none", "cpu", "scsi", "mc"}, id : Ids, word : Nat]

TypeOK ==
    /\ memstate \in {"MEMSTATE_IDLE", "MEMSTATE_BUSY"}
    /\ access \in [rnw : BOOLEAN, words : 1..4, to : {"ram", "device"},
                   id : Ids]
    /\ {mem_request, ram_active, fill_active} \subseteq BOOLEAN
    /\ window_beat \in 0..3 /\ line \in [0..3 -> Data]
    /\ state \in {"S_IDLE", "S_BUSY", "S_FILL"}
    /\ {bus_req, bus_we, fill_grant, mem_done} \subseteq BOOLEAN
    /\ bus_beat \in 0..3 /\ bus_burst \in 1..4
    /\ fill_beat \in 0..3 /\ fill_last \in 0..3
    /\ {inflight, owner_dma, cpu_wait} \subseteq BOOLEAN
    /\ left \in 0..4 /\ {ram_ack, ram_last} \subseteq BOOLEAN
    /\ ram_rdata \in Data
    /\ {dev_busy, dev_ack, dma_owner_mc, dma_miss_ack} \subseteq BOOLEAN
    /\ sdma \in [req : BOOLEAN, hit : BOOLEAN, id : Ids]
    /\ mcd \in [req : BOOLEAN, hit : BOOLEAN, id : Ids]

(* The port is one transaction deep and drops, silently, what is raised    *)
(* into one - ram_arb must never raise a request into it, not even in the  *)
(* clock of the last acknowledgement.                                      *)
PortNeverOverrun == RamReq => ~Port!Refuses

(* Whatever acknowledges the CPU carries the word it is waiting for: the   *)
(* beat in flight of its current access, never another master's answer and *)
(* never an earlier one.  Two responders never answer it at once.          *)
CpuGetsItsWord ==
    BusAck =>
        /\ state # "S_IDLE"
        /\ BusRdata = [who |-> "cpu", id |-> access.id, word |-> bus_beat]
        /\ state = "S_FILL" => bus_beat = fill_beat
        /\ ~(CpuRamAck /\ dev_ack)

(* When a fill is reported complete, the cache holds every doubleword of   *)
(* the line it asked for, each in its place: the grant never fell on a     *)
(* beat, the fill window never closed early, and no beat was counted twice *)
(* or written past the window.                                             *)
FillComplete ==
    mem_done /\ ram_active =>
        \A i \in 0..(access.words - 1) :
            line[i] = [who |-> "cpu", id |-> access.id, word |-> i]

(* An engine is acknowledged only while it asks, and with the answer to    *)
(* its own current request: zeros for a hole, its own word otherwise.      *)
EngineGetsItsAnswer ==
    /\ SdmaAck => /\ sdma.req
                  /\ DmaRdata = IF sdma.hit
                                THEN [who |-> "scsi", id |-> sdma.id, word |-> 0]
                                ELSE Zeros
    /\ McdAck => /\ mcd.req
                 /\ DmaRdata = IF mcd.hit
                               THEN [who |-> "mc", id |-> mcd.id, word |-> 0]
                               ELSE Zeros

(* Every word the memory answers with reaches the master it was read for,  *)
(* but for the MC's in the clock of the SCSI channel's zeros: that one is  *)
(* dropped, and its engine, whose line stays up, is served once more.      *)
AnswerReachesItsMaster ==
    ram_ack => /\ ram_rdata.who = "cpu"  => CpuRamAck
               /\ ram_rdata.who = "scsi" => SdmaAck
               /\ ram_rdata.who = "mc"   => McdAck \/ dma_miss_ack

-----------------------------------------------------------------------------
(* The memory path implements MemoryService.                               *)

CpuOwed ==
    IF state = "S_IDLE" THEN [words |-> 0, from |-> "ram"]
    ELSE [words |-> IF state = "S_FILL" THEN fill_last - fill_beat + 1 ELSE 1,
          from |-> access.to]
\* An address in no bank is answered like a device's.
EngineOwed(engine) == [words |-> IF engine.req THEN 1 ELSE 0,
                       from |-> IF engine.req /\ ~engine.hit THEN "device" ELSE "ram"]

Service == INSTANCE MemoryService WITH
    Masters <- {"cpu", "scsi", "mc"},
    MaxWords <- 4,
    None <- "none",
    owed <- [m \in {"cpu", "scsi", "mc"} |->
                IF m = "cpu" THEN CpuOwed
                ELSE EngineOwed(IF m = "scsi" THEN sdma ELSE mcd)],
    holder <- IF ~inflight THEN "none"
              ELSE IF ~owner_dma THEN "cpu"
              ELSE IF dma_owner_mc THEN "mc" ELSE "scsi"

(* Each master is answered exactly the words it asked for, main memory     *)
(* serving one of them at a time from its grant to its last word.          *)
ImplementsService == Service!Spec

-----------------------------------------------------------------------------

(* The CPU always gets its access done, whatever the DMA engines do; the   *)
(* SCSI channel always gets its answer, since the CPU wins every tie but   *)
(* cannot raise its next access in the clock the port comes free; and the  *)
(* MC's engine can be held off for as long as the SCSI channel keeps       *)
(* asking, and only for that long.                                         *)
EveryoneServed ==
    /\ memstate = "MEMSTATE_BUSY" ~> mem_done
    /\ sdma.req ~> SdmaAck
    /\ <>[](~sdma.req) => (mcd.req ~> McdAck)

=============================================================================
