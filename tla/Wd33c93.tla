------------------------------- MODULE Wd33c93 -------------------------------
(***************************************************************************)
(* rtl/scsi/wd33c93.sv: the WD33C93B, the initiator of the SCSI bus.  The  *)
(* driver's registers, Select-and-Transfer with its DMA port, plain        *)
(* SELECT and the polled TRANSFER INFO.                                    *)
(*                                                                         *)
(* One clock edge is one Clock step.  In the code an assignment that comes *)
(* later in the block wins: the defaults, chip_reset, the driver's access, *)
(* the sequencer.  Each of them is here the record of what it assigns, and *)
(* a @@ b is a, and b where a assigns nothing.                             *)
(*                                                                         *)
(* in is what the inputs carry in the clock that ends:                     *)
(*   chip_reset     the channel's ch_reset                                 *)
(*   access         the driver's: kind, and value or regs                  *)
(*   bsy, req, phase, din, ahead, ahead_ok     the bus                     *)
(*   dma_ack, dma_rdata                        the DMA channel             *)
(*                                                                         *)
(* A byte is a pair <<kind, n>>; what the address latch points at is part  *)
(* of the access; COMMAND PHASE has its numbers, because 0x50 is compared  *)
(* with; a status is its name, with the bus phase it carries if it does.   *)
(* The CDB's registers, which every driver loads before a command that     *)
(* sends them, survive the resets here.                                    *)
(***************************************************************************)
EXTENDS Naturals, Sequences

CONSTANTS
    SEL_TIMEOUT,  \* clocks a selection may take
    PAUSE,        \* clocks REQ must stand for a pause, less one
    RST_HOLD,     \* clocks of RST
    DIN_SETTLE,   \* clocks before a DATA IN byte is believed
    PIO_SETTLE    \* and before a polled transfer believes REQ and the phase

VARIABLE wd

\* Assignments u that win over v: the @@ of module TLC, defined for the proofs.
u @@ v == [f \in DOMAIN u \union DOMAIN v |-> IF f \in DOMAIN u THEN u[f] ELSE v[f]]

NoByte == <<"none", 0>>
Identify == <<"identify", 0>>
SelectionOf(dest) == <<"select", dest>>

CP_DISCONNECTED  == 0
CP_SELECTED      == 16
CP_IDENTIFY_SENT == 32
CP_CMD_START     == 48
CP_DISCONNECT_OK == 67
CP_XFER_COUNT    == 70
CP_RECV_STATUS   == 71
CP_STATUS_RECVD  == 80
CP_COMPLETE_MSG  == 96

DataPhases == {"DATA_OUT", "DATA_IN"}
ToTarget == {"DATA_OUT", "COMMAND", "MSG_OUT"}

\* The states a polled transfer is in.
PolledStates == {"ST_XFER", "ST_XFER_DBR", "ST_XFER_ACK", "ST_XFER_REL", "ST_DONE", "ST_NACK"}
\* Those in which the bytes taken ahead are good.
LoopStates == {"ST_SAT_PHASE", "ST_SAT_DIN", "ST_SAT_DMA", "ST_SAT_ACK", "ST_SAT_REL"}

Init ==
    wd = [state |-> "ST_IDLE",
          dbr |-> FALSE, cip |-> FALSE, lci |-> FALSE, int_pending |-> FALSE,
          status |-> <<"S_NONE">>, cmd_phase |-> CP_DISCONNECTED, count |-> 0,
          cdb |-> <<>>, cdb_len |-> 0, dest |-> 0, target_lun |-> NoByte,
          use_dma |-> FALSE,
          sel |-> FALSE, atn |-> FALSE, ack |-> FALSE, data_latch |-> NoByte,
          sel_timer |-> 0, bsy_q |-> FALSE, rst_timer |-> 0,
          dma_req |-> FALSE, dma_eop |-> FALSE, dma_dir_in |-> FALSE,
          dma_wdata |-> NoByte, dma_in_data |-> FALSE,
          identify_sent |-> FALSE, cdb_sent |-> FALSE, cdb_idx |-> 0,
          pause_cnt |-> 0, paused |-> FALSE,
          din_settle |-> 0, din_req_held |-> FALSE, din_ahead |-> <<>>,
          pio_xfer |-> FALSE, pio_done |-> FALSE, pio_sbt |-> FALSE,
          pio_phase |-> "DATA_OUT", pio_left |-> 0, pio_settle |-> 0,
          pio_ack_held |-> FALSE]

Nothing == <<>>
When(p, updates) == IF p THEN updates ELSE Nothing

\* A result for the driver: the status and INT.
Result(status) == [status |-> status, int_pending |-> TRUE]

Down(n) == IF n = 0 THEN 0 ELSE n - 1

\* Mutant: a paused transfer keeps bit 5 up.
AsrBusyPaused(bsy) == wd.pio_xfer \/ (bsy /\ ~wd.pio_done)

\* Bit 5 of the auxiliary status: the bus is engaged, and the driver should wait.
AsrBusy(bsy) == wd.pio_xfer \/ (bsy /\ ~wd.paused /\ ~wd.pio_done)

-----------------------------------------------------------------------------
(* What every clock does, and the hardware reset.                          *)

Defaults(in) ==
    [bsy_q |-> in.bsy, dma_eop |-> FALSE, rst_timer |-> Down(wd.rst_timer)]
    @@ When(~in.bsy, [pio_done |-> FALSE])
    @@ When(wd.state \notin LoopStates, [din_ahead |-> <<>>])

\* Whatever runs ends; the target is told by RST.
ChipReset ==
    [state |-> "ST_IDLE", dbr |-> FALSE, cip |-> FALSE, lci |-> FALSE,
     sel |-> FALSE, atn |-> FALSE, ack |-> FALSE,
     cmd_phase |-> CP_DISCONNECTED, count |-> 0, use_dma |-> FALSE,
     target_lun |-> NoByte, dest |-> 0, dma_req |-> FALSE, dma_in_data |-> FALSE, paused |-> FALSE,
     pio_xfer |-> FALSE, pio_done |-> FALSE, pio_ack_held |-> FALSE,
     rst_timer |-> RST_HOLD]
    @@ Result(<<"S_RESET">>)

-----------------------------------------------------------------------------
(* The driver's access.                                                    *)

\* CIP is left as it is.
ResetCommand ==
    [state |-> "ST_IDLE", sel |-> FALSE, atn |-> FALSE, ack |-> FALSE, dbr |-> FALSE,
     cmd_phase |-> CP_DISCONNECTED, count |-> 0, use_dma |-> FALSE,
     target_lun |-> NoByte, dest |-> 0, dma_req |-> FALSE, dma_in_data |-> FALSE, paused |-> FALSE,
     pio_xfer |-> FALSE, pio_ack_held |-> FALSE]
    @@ Result(<<"S_RESET">>)

Select(atn) == [atn |-> atn, cip |-> TRUE, sel_timer |-> 0, state |-> "ST_SEL_ASSERT"]

TransferInfo(sbt, in) ==
    [pio_xfer |-> TRUE, pio_sbt |-> sbt, pio_phase |-> in.phase,
     pio_left |-> IF sbt \/ wd.count = 0 THEN 1 ELSE wd.count,
     pio_settle |-> PIO_SETTLE, pio_ack_held |-> FALSE, ack |-> FALSE, dbr |-> FALSE,
     state |-> "ST_XFER"]

\* The target still holds the bus for the transfer that paused.
Resumes(in) == wd.paused /\ in.bsy

SelectAndTransfer(atn, in) ==
    IF Resumes(in)
    THEN [paused |-> FALSE, cip |-> TRUE, atn |-> FALSE, identify_sent |-> TRUE,
          cdb_sent |-> TRUE, state |-> "ST_SAT_PHASE"]
    \* A vendor's group without a length in OWN ID.
    ELSE IF wd.cdb_len = 0 THEN Result(<<"S_UNKNOWN_GROUP">>)
    ELSE [atn |-> atn, cip |-> TRUE, sel_timer |-> 0, cdb_idx |-> 0,
          dma_in_data |-> FALSE, identify_sent |-> FALSE, cdb_sent |-> FALSE,
          paused |-> FALSE, cmd_phase |-> CP_DISCONNECTED, state |-> "ST_SAT_SEL"]

NegateAck ==
    [ack |-> FALSE]
    @@ When(wd.pio_ack_held,
            [pio_ack_held |-> FALSE, pio_settle |-> PIO_SETTLE, state |-> "ST_NACK"])

Disconnect ==
    [sel |-> FALSE, ack |-> FALSE, atn |-> FALSE, pio_xfer |-> FALSE,
     pio_ack_held |-> FALSE, cmd_phase |-> CP_DISCONNECTED]
    @@ When(wd.state \in PolledStates, [dbr |-> FALSE, state |-> "ST_IDLE"])
    @@ Result(<<"S_DISCONNECT">>)

Abort ==
    [state |-> "ST_IDLE", cip |-> FALSE, sel |-> FALSE, ack |-> FALSE, paused |-> FALSE,
     pio_xfer |-> FALSE, pio_ack_held |-> FALSE, dbr |-> FALSE]

\* Mutant: a command is refused only while another one runs.
RefusesBusyOnly(command) == wd.cip /\ command # "C_RESET"

\* Refused while a command runs or its result waits to be read.
Refuses(command) == (wd.cip \/ wd.int_pending) /\ command # "C_RESET"

Command(command, in) ==
    IF Refuses(command) THEN [lci |-> TRUE]
    ELSE (CASE command = "C_RESET"         -> ResetCommand
            [] command = "C_SELECT"        -> Select(FALSE)
            [] command = "C_SELECT_ATN"    -> Select(TRUE)
            [] command = "C_TRANSFER_INFO" -> TransferInfo(FALSE, in)
            [] command = "C_XFER_INFO_SBT" -> TransferInfo(TRUE, in)
            [] command = "C_SEL_XFER"      -> SelectAndTransfer(FALSE, in)
            [] command = "C_SEL_ATN_XFER"  -> SelectAndTransfer(TRUE, in)
            [] command = "C_NEGATE_ACK"    -> NegateAck
            [] command = "C_ASSERT_ATN"    -> [atn |-> TRUE]
            [] command = "C_DISCONNECT"    -> Disconnect
            [] command = "C_ABORT"         -> Abort
            [] OTHER                       -> Result(<<"S_INVALID_CMD">>))
         @@ [lci |-> FALSE]
         @@ When(command # "C_NEGATE_ACK", [pio_done |-> FALSE])

Access(in) ==
    CASE in.access.kind = "command"     -> Command(in.access.value, in)
      [] in.access.kind = "load"        -> in.access.regs
      [] in.access.kind = "write_data"  -> [data_latch |-> in.access.value, dbr |-> FALSE]
      [] in.access.kind = "read_data"   -> [dbr |-> FALSE]
      [] in.access.kind = "read_status" -> [int_pending |-> FALSE, lci |-> FALSE]
      [] OTHER                          -> Nothing

-----------------------------------------------------------------------------
(* Selection.                                                              *)

TimedOut ==
    [sel |-> FALSE, atn |-> FALSE, cip |-> FALSE, state |-> "ST_IDLE"]
    @@ Result(<<"S_SELECT_TIMEOUT">>)

\* From a free bus.
Asserts(in, waiting, timeout) ==
    (IF ~in.bsy
     THEN [sel |-> TRUE, data_latch |-> SelectionOf(wd.dest), state |-> waiting]
     ELSE When(wd.sel_timer >= SEL_TIMEOUT, timeout))
    @@ [sel_timer |-> wd.sel_timer + 1]

\* Until a target takes the bus: BSY must rise.
Waits(in, selected, timeout) ==
    (IF in.bsy /\ ~wd.bsy_q THEN [sel |-> FALSE] @@ selected
     ELSE When(wd.sel_timer >= SEL_TIMEOUT, timeout))
    @@ [sel_timer |-> wd.sel_timer + 1]

\* The selection's result has been read and the target asks.
PhaseDue(in) == ~wd.int_pending /\ in.req

Selection(in) ==
    CASE wd.state = "ST_SEL_ASSERT" -> Asserts(in, "ST_SEL_WAIT", TimedOut)
      [] wd.state = "ST_SEL_WAIT"   -> Waits(in, [state |-> "ST_SEL_DONE"], TimedOut)
      [] wd.state = "ST_SEL_DONE"   ->
            [cip |-> FALSE, state |-> "ST_SEL_PHASE"] @@ Result(<<"S_SELECT_OK">>)
      [] wd.state = "ST_SEL_PHASE"  ->
            IF ~in.bsy THEN [state |-> "ST_IDLE"]
            ELSE When(PhaseDue(in),
                      [state |-> "ST_IDLE"] @@ Result(<<"S_SERVICE_REQ", in.phase>>))

-----------------------------------------------------------------------------
(* The polled transfer.                                                    *)

PolledEnds(status) ==
    [state |-> "ST_IDLE", dbr |-> FALSE, pio_xfer |-> FALSE, pio_done |-> TRUE] @@ Result(status)
TargetLeft == [cmd_phase |-> CP_DISCONNECT_OK] @@ PolledEnds(<<"S_DISCONNECT">>)

\* The byte due belongs to another phase.
Moved(in) == in.phase # wd.pio_phase
OtherPhase(in) == PolledEnds(<<"S_UNEXPECTED", in.phase>>)

FromTarget(in) == When(wd.pio_phase \notin ToTarget, [data_latch |-> in.din])

PolledLast == wd.pio_left <= 1

\* The byte is the target's; the last one of a message keeps ACK up.
PolledReleases ==
    (IF PolledLast /\ wd.pio_phase = "MSG_IN"
     THEN [pio_ack_held |-> TRUE] @@ PolledEnds(<<"S_XFER_PAUSED">>)
     ELSE [ack |-> FALSE, pio_settle |-> PIO_SETTLE,
           state |-> IF PolledLast THEN "ST_DONE" ELSE "ST_XFER"])
    @@ [pio_left |-> wd.pio_left - 1]
    @@ When(~wd.pio_sbt, [count |-> Down(wd.count)])

PolledSettles == wd.pio_settle # 0 /\ wd.state \in {"ST_XFER", "ST_DONE", "ST_NACK"}

\* The driver's turn, until it has taken the byte or given one.
PolledByte(in) ==
    IF wd.dbr THEN FromTarget(in)
    ELSE [state |-> "ST_XFER_ACK"]
         @@ When(wd.pio_phase = "MSG_OUT" /\ PolledLast,
                 [atn |-> FALSE, cmd_phase |-> CP_IDENTIFY_SENT])

Polled(in) ==
    IF wd.state = "ST_XFER_REL" THEN When(~in.req, PolledReleases)
    ELSE IF PolledSettles THEN [pio_settle |-> wd.pio_settle - 1]
    ELSE IF ~in.bsy
    THEN IF wd.state # "ST_NACK" THEN TargetLeft
         ELSE [cmd_phase |-> CP_DISCONNECT_OK, state |-> "ST_IDLE"] @@ Result(<<"S_DISCONNECT">>)
    ELSE IF wd.state = "ST_XFER_DBR" THEN PolledByte(in)
    ELSE IF ~in.req THEN Nothing
    ELSE CASE wd.state = "ST_XFER" ->
                IF Moved(in) THEN OtherPhase(in)
                ELSE FromTarget(in) @@ [dbr |-> TRUE, state |-> "ST_XFER_DBR"]
           [] wd.state = "ST_XFER_ACK" ->
                IF Moved(in) THEN OtherPhase(in) ELSE [ack |-> TRUE, state |-> "ST_XFER_REL"]
           [] wd.state = "ST_DONE" -> PolledEnds(<<"S_XFER_DONE", in.phase>>)
           [] wd.state = "ST_NACK" ->
                [state |-> "ST_IDLE"] @@ Result(<<"S_SERVICE_REQ", in.phase>>)

-----------------------------------------------------------------------------
(* Select-and-Transfer.                                                    *)

SatTimedOut == [cmd_phase |-> CP_DISCONNECTED] @@ TimedOut

\* Mutant: no wait for the target to end the phase by itself.
PauseAtOnce(in) == TRUE

\* REQ has stood for so long that the target means it.
PauseIsReal(in) == wd.pause_cnt = PAUSE

Pauses(in) ==
    IF in.bsy /\ in.req /\ wd.count = 0 /\ in.phase \in DataPhases
    THEN [pause_cnt |-> IF wd.pause_cnt = PAUSE THEN 0 ELSE wd.pause_cnt + 1]
         @@ When(PauseIsReal(in),
                 [cip |-> FALSE, dbr |-> FALSE, paused |-> TRUE, state |-> "ST_IDLE"]
                 @@ Result(<<IF in.phase = "DATA_IN" THEN "S_PAUSE_READ" ELSE "S_PAUSE_WRITE">>))
    ELSE [pause_cnt |-> 0]

\* The target's request for a byte of the phase.
MessageOut == 
    When(~wd.identify_sent,
         [data_latch |-> Identify, atn |-> FALSE, identify_sent |-> TRUE, state |-> "ST_SAT_ACK"])

CdbByte == When(~wd.cdb_sent, [data_latch |-> wd.cdb[wd.cdb_idx + 1], state |-> "ST_SAT_ACK"])

\* Polled here would be without a wait for the driver.
DataOut ==
    CASE wd.count = 0 -> Nothing
      [] wd.count # 0 /\ wd.use_dma ->
            [dma_req |-> TRUE, dma_dir_in |-> FALSE, dma_in_data |-> TRUE,
             state |-> "ST_SAT_DMA"]
      [] wd.count # 0 /\ ~wd.use_dma -> IF wd.dbr THEN Nothing ELSE [state |-> "ST_SAT_ACK"]

DataIn(in) ==
    CASE wd.count = 0 -> Nothing
      [] wd.count # 0 /\ wd.use_dma ->
            [dma_dir_in |-> TRUE, dma_in_data |-> TRUE]
            @@ IF wd.din_ahead # <<>>
               THEN [data_latch |-> Head(wd.din_ahead), dma_wdata |-> Head(wd.din_ahead),
                     din_ahead |-> Tail(wd.din_ahead), dma_req |-> TRUE,
                     state |-> "ST_SAT_DMA"]
               ELSE [din_settle |-> DIN_SETTLE, din_req_held |-> TRUE, state |-> "ST_SAT_DIN"]
      [] wd.count # 0 /\ ~wd.use_dma ->
            When(~wd.dbr, [data_latch |-> in.din, dbr |-> TRUE, state |-> "ST_SAT_ACK"])

EndsPhase == When(wd.dma_in_data, [dma_eop |-> TRUE, dma_in_data |-> FALSE])

\* The target leads; each phase has its own bound.
Follows(in) ==
    IF ~in.bsy THEN [state |-> "ST_SAT_END"] @@ EndsPhase
    ELSE IF wd.dma_in_data /\ in.phase \notin DataPhases THEN EndsPhase
    ELSE IF ~in.req THEN Nothing
    ELSE CASE in.phase = "MSG_OUT"  -> MessageOut
           [] in.phase = "COMMAND"  -> CdbByte
           [] in.phase = "DATA_OUT" -> DataOut
           [] in.phase = "DATA_IN"  -> DataIn(in)
           [] in.phase = "STATUS"   ->
                [target_lun |-> in.din, cmd_phase |-> CP_RECV_STATUS, state |-> "ST_SAT_ACK"]
           [] in.phase = "MSG_IN"   ->
                [cmd_phase |-> CP_STATUS_RECVD, state |-> "ST_SAT_ACK"]

\* Mutant: the bytes ahead are taken whether or not REQ stood.
AheadAnyway(in) == IF in.ahead_ok THEN in.ahead ELSE <<>>

\* The bytes after this one, if none of them can be an old one.
AheadTaken(in) == IF wd.din_req_held /\ in.req /\ in.ahead_ok THEN in.ahead ELSE <<>>

Settles(in) ==
    (IF wd.din_settle # 0 THEN [din_settle |-> wd.din_settle - 1]
     ELSE [data_latch |-> in.din, dma_wdata |-> in.din, dma_req |-> TRUE,
           din_ahead |-> AheadTaken(in), state |-> "ST_SAT_DMA"])
    @@ When(~in.req, [din_req_held |-> FALSE])

\* Mutant: ACK for a byte the target no longer asks for.
AcksAnyway(in) == TRUE

Acks(in) == in.req

Counted ==
    When(wd.count # 0, [count |-> wd.count - 1])
    @@ When(wd.count = 1, [cmd_phase |-> CP_XFER_COUNT])

Releases(in) ==
    [ack |-> FALSE, state |-> "ST_SAT_PHASE"]
    @@ CASE in.phase = "COMMAND" ->
              [cmd_phase |-> CP_CMD_START + wd.cdb_idx + 1]
              @@ IF wd.cdb_idx + 1 < wd.cdb_len THEN [cdb_idx |-> wd.cdb_idx + 1]
                 ELSE [cdb_sent |-> TRUE]
         [] in.phase \in DataPhases -> Counted
         [] in.phase = "MSG_IN"     -> [cmd_phase |-> CP_COMPLETE_MSG]
         [] OTHER                   -> Nothing

\* Without a status byte the target left before its time.
Outcome == IF wd.cmd_phase < CP_STATUS_RECVD THEN <<"S_DISCONNECT">> ELSE <<"S_SELECT_XFER_OK">>

SatEnds ==
    [cip |-> FALSE, atn |-> FALSE, dbr |-> FALSE, dma_req |-> FALSE, paused |-> FALSE,
     state |-> "ST_IDLE"]
    @@ Result(Outcome)

Transfer(in) ==
    CASE wd.state = "ST_SAT_SEL"   -> Asserts(in, "ST_SAT_WAIT", SatTimedOut)
      [] wd.state = "ST_SAT_WAIT"  ->
            Waits(in, [cmd_phase |-> CP_SELECTED, state |-> "ST_SAT_PHASE"], SatTimedOut)
      [] wd.state = "ST_SAT_PHASE" ->
            Follows(in) @@ Pauses(in)
            @@ When(~in.bsy \/ in.phase # "DATA_IN", [din_ahead |-> <<>>])
      [] wd.state = "ST_SAT_DIN"   -> Settles(in)
      [] wd.state = "ST_SAT_DMA"   ->
            When(in.dma_ack,
                 [dma_req |-> FALSE, state |-> "ST_SAT_ACK"]
                 @@ When(~wd.dma_dir_in, [data_latch |-> in.dma_rdata]))
      [] wd.state = "ST_SAT_ACK"   ->
            When(Acks(in), [ack |-> TRUE, state |-> "ST_SAT_REL"])
      [] wd.state = "ST_SAT_REL"   -> When(~in.req, Releases(in))
      [] wd.state = "ST_SAT_END"   -> SatEnds

-----------------------------------------------------------------------------

Sequencer(in) ==
    CASE wd.state = "ST_IDLE" -> Nothing
      [] wd.state \in {"ST_SEL_ASSERT", "ST_SEL_WAIT", "ST_SEL_DONE", "ST_SEL_PHASE"} ->
            Selection(in)
      [] wd.state \in PolledStates -> Polled(in)
      [] OTHER -> Transfer(in)

Clock(in) ==
    wd' = Sequencer(in) @@ Access(in) @@ When(in.chip_reset, ChipReset) @@ Defaults(in) @@ wd

=============================================================================
