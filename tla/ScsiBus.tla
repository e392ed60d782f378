------------------------------- MODULE ScsiBus -------------------------------
(***************************************************************************)
(* rtl/scsi/sgi_scsi.sv: the WD33C93B and a disk on the SCSI bus, between  *)
(* a driver, the HPC3's DMA channel and the block device.                  *)
(*                                                                         *)
(* The driver works through one of Plans, a sequence of jobs:              *)
(*   sat         run_cdb() of tests/scsiwr: load the registers, select and *)
(*               transfer, wait for the interrupt, and resume a transfer   *)
(*               that paused with the count of its next segment, as IRIX   *)
(*               does                                                      *)
(*   polled      select with ATN and a TRANSFER INFO for every phase       *)
(*   disconnect  C_DISCONNECT, its interrupt left to the next command      *)
(*   reset       the channel's ch_reset, once everything has stopped       *)
(* Driver, channel and device take any number of clocks for what they do.  *)
(* The n'th byte a job sends from memory is <<"mem", n>>.                  *)
(***************************************************************************)
EXTENDS Naturals, Sequences, SequencesExt

CONSTANTS
    Plans,
    FillsApart,      \* no sector starts to come in while a byte settles
    SEL_TIMEOUT, PAUSE, RST_HOLD, DIN_SETTLE, PIO_SETTLE,     \* Wd33c93
    ID, BLOCK, RING, ANSWER, CMD_WAIT                         \* ScsiTarget

ASSUME ChipAssumption ==
    /\ SEL_TIMEOUT \in Nat /\ PAUSE \in Nat /\ RST_HOLD \in Nat \ {0}
    /\ DIN_SETTLE \in Nat /\ PIO_SETTLE \in Nat
ASSUME TargetAssumption ==
    /\ BLOCK \in {2 * n : n \in 1..256} /\ RING \in Nat \ {0, 1}
    /\ ANSWER \in Nat /\ CMD_WAIT \in Nat

Jobs == UNION {{plan[i] : i \in DOMAIN plan} : plan \in Plans}
ASSUME PlanAssumption ==
    /\ FillsApart \in BOOLEAN /\ Plans \subseteq Seq(Jobs)
    /\ \A job \in Jobs : job.kind \in {"sat", "polled", "disconnect", "reset"}

VARIABLES
    wd,              \* the initiator
    tg, ram, pf,     \* the target
    dev,             \* the block device: what it does, the word it is at, the
                     \* pair the target shows it and whether that is settled
    image,           \* the medium, byte by byte
    chan,            \* the DMA channel: its ack, what it holds room for, the
                     \* bytes it moved, those it got, the ends it was told of
    drv              \* the driver: where it is, the jobs left, the segment, and
                     \* the bytes of a polled phase

vars == <<wd, tg, ram, pf, dev, image, chan, drv>>

Chip == INSTANCE Wd33c93
Target == INSTANCE ScsiTarget WITH NoByte <- <<"none", 0>>

Job == Head(drv.jobs)
HALF == BLOCK \div 2

-----------------------------------------------------------------------------
(* The block device: an engine that takes a request, moves the sector's    *)
(* pairs one after the other and lets go.                                  *)

io_ack == dev.does # "idle"
Strobes(dev_moves) == dev_moves /\ dev.does = "read" /\ dev.k < HALF
Samples(dev_moves) == dev_moves /\ dev.does = "write" /\ dev.k < HALF /\ dev.settled

DevAddress == IF dev.k < HALF THEN dev.k ELSE 0
MediumAt(k) == dev.lba * BLOCK + 2 * k
PairAt(k) == [l \in {0, 1} |-> image[MediumAt(k) + l]]

DevCanMove ==
    CASE dev.does = "idle"  -> tg.io_rd \/ tg.io_wr
      [] dev.does = "read"  -> dev.k = 0 /\ FillsApart => wd.state # "ST_SAT_DIN"
      [] dev.does = "write" -> dev.k = HALF \/ dev.settled

DevClock(dev_moves) ==
    /\ dev' = IF dev.does = "idle"
              THEN IF dev_moves
                   THEN [dev EXCEPT !.does = IF tg.io_wr THEN "write" ELSE "read",
                                    !.k = 0, !.settled = FALSE, !.lba = tg.lba]
                   ELSE dev
              ELSE IF dev_moves /\ dev.k = HALF THEN [dev EXCEPT !.does = "idle"]
              ELSE [dev EXCEPT !.pair = [l \in {0, 1} |-> ram[l][Target!HpsAddress(DevAddress)]],
                               !.k = IF Strobes(dev_moves) \/ Samples(dev_moves) THEN @ + 1 ELSE @,
                               !.settled = ~Samples(dev_moves)]
    /\ image' = IF Samples(dev_moves)
                THEN [p \in DOMAIN image |->
                        IF p - MediumAt(dev.k) \in {0, 1} THEN dev.pair[p - MediumAt(dev.k)]
                        ELSE image[p]]
                ELSE image

-----------------------------------------------------------------------------
(* The DMA channel: a pulse of ack for a byte.                             *)

ChanCanMove == wd.dma_req /\ ~chan.ack /\ chan.moved < chan.room

ChanClock(chan_moves, arms) ==
    chan' = IF arms # {} THEN CHOOSE armed \in arms : TRUE
            ELSE [chan EXCEPT
                    !.ack = chan_moves,
                    !.moved = IF chan_moves THEN @ + 1 ELSE @,
                    !.got = IF chan_moves /\ wd.dma_dir_in THEN Append(@, wd.dma_wdata) ELSE @,
                    !.ended = @ \/ wd.dma_eop]

-----------------------------------------------------------------------------
(* The driver.  A Step is what it does in a clock: its access, what it     *)
(* arms the channel with, whether it resets, and where it goes.            *)

Idle == [kind |-> "none"]
Step(access, next) == [access |-> access, arms |-> {}, reset |-> FALSE, next |-> next]
At(pc) == [drv EXCEPT !.pc = pc]
NextJob == [drv EXCEPT !.pc = "job", !.jobs = Tail(@), !.seg = 1, !.then = ""]

ReadStatus == [kind |-> "read_status"]
Load(regs) == [kind |-> "load", regs |-> regs]

\* Room for the segment's bytes is added when the segment is.
Armed(op, room) == [op |-> op, ack |-> FALSE, room |-> room, moved |-> 0, got |-> <<>>, ended |-> FALSE]
MoreRoom(room) == [chan EXCEPT !.ack = FALSE, !.room = @ + room]

JobRegisters ==
    [cdb |-> <<<<"op", Job.op>>, <<"len", Job.len>>>>, cdb_len |-> 2, dest |-> Job.dest,
     count |-> Job.count[1], use_dma |-> TRUE, target_lun |-> <<"none", 0>>,
     cmd_phase |-> 0]

StartsSat ==
    [Step(Load(JobRegisters), [At("issue") EXCEPT !.cmd = "C_SEL_ATN_XFER", !.then = "result"])
        EXCEPT !.arms = {Armed(Job.op, Job.room[1])}]
StartsPolled ==
    [Step(Load(JobRegisters), [At("issue") EXCEPT !.cmd = "C_SELECT_ATN", !.then = "selected"])
        EXCEPT !.arms = {Armed(Job.op, 0)}]
StartsDisconnect ==
    Step(Idle, [At("issue") EXCEPT !.cmd = "C_DISCONNECT", !.then = "next"])
Resets == [Step(Idle, NextJob) EXCEPT !.reset = TRUE, !.arms = {Armed("none", 0)}]

\* wd_command(): once CIP is down, and again after a refusal.
Issues == Step([kind |-> "command", value |-> drv.cmd], At("check"))
Checks ==
    IF wd.lci THEN Step(ReadStatus, At("issue"))
    ELSE Step(Idle, IF drv.then = "next" THEN NextJob ELSE At(drv.then))

\* The result of a Select-and-Transfer, for which the interrupt handler waits
\* until the chip and the bus are at rest.
Serviceable == ~wd.cip /\ ~Chip!AsrBusy(Target!Bsy)
Pauses == {<<"S_PAUSE_READ">>, <<"S_PAUSE_WRITE">>}
TakesResult ==
    IF wd.status \in Pauses /\ drv.seg < Len(Job.count)
    THEN Step(ReadStatus, [At("segment") EXCEPT !.seg = @ + 1])
    ELSE Step(ReadStatus, NextJob)
LoadsSegment ==
    [Step(Load([count |-> Job.count[drv.seg]]), [At("issue") EXCEPT !.then = "result"])
        EXCEPT !.arms = {MoreRoom(Job.room[drv.seg])}]

\* A polled session: the phase the chip reports is served with a TRANSFER INFO.
BytesOf(phase) ==
    CASE phase = "MSG_OUT" -> <<<<"identify", 0>>>>
      [] phase = "COMMAND" -> <<<<"op", Job.op>>, <<"len", Job.len>>>>
      [] OTHER -> <<>>
CountOf(phase) ==
    CASE phase = "COMMAND" -> 2 [] phase = "DATA_IN" -> Job.len [] OTHER -> 1

TakesSelected == Step(ReadStatus, At("phase"))
TakesPhase ==
    IF Len(wd.status) = 2 /\ wd.status[1] \in {"S_SERVICE_REQ", "S_XFER_DONE"}
    THEN Step(ReadStatus, [At("serve") EXCEPT !.phase = wd.status[2], !.out = BytesOf(wd.status[2])])
    ELSE IF wd.status = <<"S_XFER_PAUSED">>
    THEN Step(ReadStatus, [At("issue") EXCEPT !.cmd = "C_NEGATE_ACK", !.then = "phase"])
    ELSE Step(ReadStatus, NextJob)
Serves ==
    Step(Load([count |-> CountOf(drv.phase)]),
         [At("issue") EXCEPT !.then = "bytes",
                             !.cmd = IF drv.phase \in {"STATUS", "MSG_IN"} THEN "C_XFER_INFO_SBT"
                                     ELSE "C_TRANSFER_INFO"])
MovesByte ==
    IF wd.int_pending THEN TakesPhase
    ELSE IF drv.out # <<>>
    THEN Step([kind |-> "write_data", value |-> Head(drv.out)], [drv EXCEPT !.out = Tail(@)])
    ELSE [Step([kind |-> "read_data"], drv)
            EXCEPT !.arms = IF drv.phase = "DATA_IN"
                            THEN {[chan EXCEPT !.got = Append(@, wd.data_latch), !.moved = @ + 1]}
                            ELSE {}]

\* The target has no handshake under way, and nothing of the block device's nor
\* anything to ask it for.
TargetRests ==
    /\ ~tg.old_ack /\ ~tg.stb_adv
    /\ ~io_ack /\ ~tg.old_io_ack
    /\ ~tg.io_rd /\ ~Target!req_rd
    /\ ~tg.io_wr /\ ~tg.wr_pending /\ (Target!req_wr => tg.old_wr)

\* Everything has stopped short of a result: the chain has run out.
Stopped ==
    wd.state = "ST_SAT_DMA" /\ chan.moved = chan.room /\ ~chan.ack /\ TargetRests

DrvSteps ==
    IF drv.jobs = <<>> THEN {}
    ELSE CASE drv.pc = "job" ->
                {CASE Job.kind = "sat" -> StartsSat [] Job.kind = "polled" -> StartsPolled
                   [] Job.kind = "disconnect" -> StartsDisconnect [] Job.kind = "reset" -> Resets}
           [] drv.pc = "issue"    -> IF wd.cip THEN {} ELSE {Issues}
           [] drv.pc = "check"    -> {Checks}
           [] drv.pc = "result"   ->
                IF wd.int_pending /\ Serviceable THEN {TakesResult}
                ELSE IF Stopped THEN {Step(Idle, NextJob)} ELSE {}
           [] drv.pc = "segment"  -> {LoadsSegment}
           [] drv.pc = "selected" -> IF wd.int_pending THEN {TakesSelected} ELSE {}
           [] drv.pc = "phase"    -> IF wd.int_pending THEN {TakesPhase} ELSE {}
           [] drv.pc = "serve"    -> {Serves}
           [] drv.pc = "bytes"    -> IF wd.int_pending \/ wd.dbr THEN {MovesByte} ELSE {}

-----------------------------------------------------------------------------

Init ==
    /\ Chip!Init
    /\ Target!Init
    /\ dev = [does |-> "idle", k |-> 0, pair |-> [l \in {0, 1} |-> <<"none", 0>>],
              settled |-> FALSE, lba |-> 0]
    /\ image = [p \in 0..(BLOCK * 4 - 1) |-> <<"disk", p>>]
    /\ chan = Armed("none", 0)
    /\ drv \in [pc : {"job"}, jobs : Plans, seg : {1}, cmd : {""}, then : {""},
                phase : {""}, out : {<<>>}]

\* A clock, in which some of the three do something.
ClockWith(dev_moves, chan_moves, step) ==
    /\ DevClock(dev_moves)
    /\ ChanClock(chan_moves, step.arms)
    /\ drv' = step.next
    /\ Chip!Clock([chip_reset |-> step.reset, access |-> step.access,
                   bsy |-> Target!Bsy, req |-> Target!Req(wd.ack, io_ack),
                   phase |-> Target!BusPhase, din |-> Target!Dout,
                   ahead |-> Target!Ahead, ahead_ok |-> Target!AheadOk,
                   dma_ack |-> chan.ack, dma_rdata |-> <<"mem", chan.moved>>])
    /\ Target!Clock([rst |-> wd.rst_timer # 0, sel |-> wd.sel, atn |-> wd.atn,
                     ack |-> wd.ack, din |-> wd.data_latch,
                     io_ack |-> io_ack, addr |-> DevAddress, wr |-> Strobes(dev_moves),
                     dout |-> PairAt(DevAddress)])

Waits == Step(Idle, drv)
ClockOf(dev_moves, chan_moves, drv_moves) ==
    /\ dev_moves => DevCanMove
    /\ chan_moves => ChanCanMove
    /\ drv_moves => DrvSteps # {}
    /\ \E step \in IF drv_moves THEN DrvSteps ELSE {Waits} :
            ClockWith(dev_moves, chan_moves, step)

Next == \E d, c, s \in BOOLEAN : ClockOf(d, c, s)

Spec == Init /\ [][Next]_vars

\* The device goes on with a request, the channel with a byte it has room for,
\* the driver with a job.
Fairness ==
    /\ []<>~DevCanMove \/ []<><<\E c, s \in BOOLEAN : ClockOf(TRUE, c, s)>>_vars
    /\ []<>~ChanCanMove \/ []<><<\E d, s \in BOOLEAN : ClockOf(d, TRUE, s)>>_vars
    /\ []<>(DrvSteps = {}) \/ []<><<\E d, c \in BOOLEAN : ClockOf(d, c, TRUE)>>_vars

-----------------------------------------------------------------------------

\* What the bytes of the job's data phase are.
Stream(n) == IF chan.op = "inquiry" THEN <<"answer", n>> ELSE image[n]

\* The bytes of a DATA IN phase reach memory, or the driver, in their order,
\* each once and none of them an old one: the target's ring is read ahead of
\* REQ, and filled behind it, and a byte taken ahead must not come from before
\* its sector did.
BytesInOrder == \A n \in 1..Len(chan.got) : chan.got[n] = Stream(n - 1)

\* No byte too many: what the target's answer ends before the count does, the
\* channel gets nothing for (wd33c93.sv: each phase has its own bound, because
\* the target holds REQ past its last byte).
NoByteTooMany == chan.op = "inquiry" => Len(chan.got) <= ANSWER

\* A byte of the medium is the one it held or the one written to that place.
BytesInPlace == \A p \in DOMAIN image : image[p] \in {<<"disk", p>>, <<"mem", p + 1>>}

Reports(statuses) == wd.int_pending /\ wd.status \in statuses

\* What the chip reports is the truth.  A success: all of the segments' bytes
\* were moved and the channel was told so, what was written is on the medium,
\* and TARGET LUN has the status.  A pause: the target has more, and is not
\* still ending the phase.
OutcomeIsTrue ==
    /\ Reports({<<"S_SELECT_XFER_OK">>}) =>
           /\ wd.target_lun[1] = "status"
           /\ chan.moved = chan.room
           /\ chan.moved > 0 => chan.ended
           /\ chan.op = "write" =>
                  \A p \in 0..(chan.moved - 1) : image[p] = <<"mem", p + 1>>
    /\ Reports(Pauses) =>
           tg.phase \in {"DATA_OUT", "DATA_IN"} /\ tg.data_cnt < Target!data_len

\* A result stays until the driver has read it, but for a reset's.
ResultKept ==
    [][wd.int_pending /\ wd'.int_pending => wd'.status \in {wd.status, <<"S_RESET">>}]_vars

\* The driver gets through its jobs, whatever the target answered to them.
JobsEnd == <>(drv.jobs = <<>>)

=============================================================================
