----------------------------- MODULE ScsiTarget -----------------------------
(***************************************************************************)
(* rtl/scsi/scsi.v: a SCSI disk on the bus - its phases, the REQ/ACK       *)
(* handshake, the sector ring and the two write buffers in scsi_dpram, and *)
(* the requests for sectors.                                               *)
(*                                                                         *)
(* One clock edge is one Clock step; in is what the inputs carry:          *)
(*   rst, sel, atn, ack, din     the initiator's side of the bus           *)
(*   io_ack, addr, wr, dout      the block device's (one word a strobe)    *)
(*                                                                         *)
(* A sector has BLOCK bytes.  The code's phases are named from the         *)
(* target's side: its DATA_OUT is the bus's DATA IN.  Of the commands      *)
(* there are one of each kind: READ, WRITE, one that answers from the byte *)
(* counter, one without data, one that is refused and one whose CDB is     *)
(* longer; commands address sector 0.  CD-ROM, Toolbox, pseudo-DMA word    *)
(* mode and a medium that leaves in mid-READ are left out.                 *)
(***************************************************************************)
EXTENDS Naturals

CONSTANTS
    ID,          \* this target's
    BLOCK,       \* bytes of a sector
    RING,        \* sectors of the read ring
    ANSWER,      \* bytes of the answer INQUIRY stands for
    CMD_WAIT,    \* clocks without a CDB byte that free the bus
    NoByte

VARIABLES
    tg,          \* the registers
    ram,         \* the two byte lanes' storage
    pf           \* and their read ports with the look-ahead

targetVars == <<tg, ram, pf>>

Lanes == {0, 1}
HALF == BLOCK \div 2
Entries == 0..(RING * HALF - 1)
Transferring == {"DATA_OUT", "DATA_IN", "STATUS_OUT", "MESSAGE_OUT"}

NoPrefetch == [st |-> "PF_IDLE", valid |-> FALSE, snooped |-> FALSE,
               c_addr |-> RING * HALF - 1, d_addr |-> RING * HALF - 1, c_tgt |-> 0, d_tgt |-> 0,
               q_b |-> NoByte, q_c |-> NoByte, q_d |-> NoByte]

Init ==
    /\ tg = [phase |-> "IDLE", cmd |-> [i \in 0..2 |-> NoByte], cmd_cnt |-> 0,
             msg_byte |-> NoByte, cmd_wait |-> 0, status |-> NoByte, tlen |-> 0, lba |-> 0,
             data_cnt |-> 0, data_complete |-> FALSE, status_sent |-> FALSE,
             message_sent |-> FALSE, old_ack |-> FALSE, stb_ack |-> FALSE,
             stb_adv |-> FALSE, buffer_wr |-> {}, sd_buff_sel |-> 0, rd_hps_blk |-> 0,
             io_rd |-> FALSE, rd_busy |-> FALSE, io_wr |-> FALSE, wr_pending |-> FALSE,
             old_wr |-> FALSE, old_io_ack |-> FALSE]
    /\ ram = [l \in Lanes |-> [e \in Entries |-> NoByte]]
    /\ pf = [l \in Lanes |-> NoPrefetch]

-----------------------------------------------------------------------------
(* The command.                                                            *)

Op == IF tg.cmd[0][1] = "op" THEN tg.cmd[0][2] ELSE "refused"
cmd_read == Op = "read"
cmd_write == Op = "write"
CdbLength == IF Op = "vendor" THEN 3 ELSE 2
cmd_cpl == tg.cmd_cnt = CdbLength
\* The CDB's length field: sectors, or the bytes allowed.
Length == IF tg.cmd[1][1] = "len" THEN tg.cmd[1][2] ELSE 0

data_len ==
    CASE Op \in {"read", "write"} -> tg.tlen * BLOCK
      [] Op = "inquiry" -> IF tg.tlen < ANSWER THEN tg.tlen ELSE ANSWER
      [] OTHER -> 0

-----------------------------------------------------------------------------
(* The bus.                                                                *)

rd_cur_blk == tg.data_cnt \div BLOCK
rd_ahead_blk == (tg.data_cnt + 3) \div BLOCK
Unfilled(blk) == blk >= tg.rd_hps_blk

Flushing(io_ack) == tg.io_wr \/ tg.wr_pending \/ io_ack

\* The half of the write buffer the next byte goes to.
Half == rd_cur_blk % 2

\* The byte is not there yet, or there is no room for it, or the command's
\* sectors are still on their way.
io_busy(io_ack) ==
    \/ /\ tg.phase = "DATA_OUT" /\ cmd_read
       /\ \/ Unfilled(rd_cur_blk)
          \/ rd_ahead_blk < tg.tlen /\ Unfilled(rd_ahead_blk)
    \/ tg.phase = "DATA_IN" /\ Flushing(io_ack) /\ Half = tg.sd_buff_sel
    \/ tg.phase \notin {"DATA_OUT", "DATA_IN"} /\ (tg.io_rd \/ Flushing(io_ack))

data_done == tg.data_complete \/ data_len = 0

Bsy == tg.phase # "IDLE"
Req(ack, io_ack) ==
    /\ Bsy /\ ~ack /\ ~io_busy(io_ack)
    /\ ~(tg.phase \in {"DATA_OUT", "DATA_IN"} /\ data_done)

\* The phase lines; a free bus shows DATA OUT.
BusPhase ==
    CASE tg.phase = "DATA_OUT"    -> "DATA_IN"
      [] tg.phase = "CMD_IN"      -> "COMMAND"
      [] tg.phase = "STATUS_OUT"  -> "STATUS"
      [] tg.phase = "MESSAGE_OUT" -> "MSG_IN"
      [] tg.phase = "MSG_OUT"     -> "MSG_OUT"
      [] OTHER                    -> "DATA_OUT"

Lane == tg.data_cnt % 2

Dout ==
    CASE tg.phase = "STATUS_OUT"  -> tg.status
      [] tg.phase = "MESSAGE_OUT" -> <<"complete", 0>>
      [] tg.phase = "DATA_OUT"    -> IF cmd_read THEN pf[Lane].q_b
                                     ELSE <<"answer", tg.data_cnt>>
      [] OTHER -> NoByte

\* The three bytes after it, from the look-ahead.
Ahead ==
    IF Lane = 0 THEN <<pf[1].q_b, pf[0].q_c, pf[1].q_c>>
    ELSE <<pf[0].q_c, pf[1].q_c, pf[0].q_d>>
AheadOk == tg.phase = "DATA_OUT" /\ cmd_read

-----------------------------------------------------------------------------
(* The buffers.                                                            *)

Position == IF tg.phase = "DATA_IN" THEN (tg.data_cnt \div 2) % BLOCK
            ELSE (tg.data_cnt \div 2) % (RING * HALF)
HpsAddress(addr) ==
    (IF cmd_write THEN tg.sd_buff_sel ELSE tg.rd_hps_blk % RING) * HALF + addr
On(n) == (Position + n) % (RING * HALF)

\* One lane's scsi_dpram: the block device writes port a, the bus port b, and
\* the look-ahead borrows the read of port b for the two entries that follow.
wren_b(l) == l \in tg.buffer_wr
Stale(l) ==
    ~pf[l].valid \/ pf[l].snooped \/ pf[l].c_addr # On(1) \/ pf[l].d_addr # On(2)
StealsC(l) == pf[l].st = "PF_IDLE" /\ Stale(l) /\ ~wren_b(l)
StealsD(l) == pf[l].st = "PF_RDC" /\ ~wren_b(l)
ReadAt(l) == IF StealsC(l) THEN On(1) ELSE IF StealsD(l) THEN pf[l].d_tgt ELSE Position

\* A write to what the look-ahead holds, or is about to.
SnoopHit(l, in) ==
    LET held == {pf[l].c_addr, pf[l].d_addr}
                \cup IF pf[l].st = "PF_IDLE" THEN {} ELSE {pf[l].c_tgt, pf[l].d_tgt}
        a == HpsAddress(in.addr)
    IN  \/ in.wr /\ (a \in held \/ (StealsC(l) /\ a = On(1)))
        \/ wren_b(l) /\ Position \in held

\* What has been written to in the meantime is not believed.
Believed(l, in) ==
    IF pf[l].st = "PF_RDD" THEN ~pf[l].snooped /\ ~SnoopHit(l, in) ELSE pf[l].valid

NextPrefetch(l, in) ==
    LET p == pf[l]
        publishes == p.st = "PF_RDD" /\ ~p.snooped /\ ~SnoopHit(l, in)
    IN
    [st |-> IF StealsC(l) THEN "PF_RDC" ELSE IF StealsD(l) THEN "PF_RDD" ELSE "PF_IDLE",
     snooped |-> p.st # "PF_RDD" /\ (p.snooped \/ SnoopHit(l, in)),
     valid |-> Believed(l, in),
     c_tgt |-> IF StealsC(l) THEN On(1) ELSE p.c_tgt,
     d_tgt |-> IF StealsC(l) THEN On(2) ELSE p.d_tgt,
     c_addr |-> IF publishes THEN p.c_tgt ELSE p.c_addr,
     d_addr |-> IF publishes THEN p.d_tgt ELSE p.d_addr,
     \* A read of what port a writes in the same clock is of no use.
     q_b |-> IF wren_b(l) THEN in.din
             ELSE IF in.wr /\ HpsAddress(in.addr) = ReadAt(l) THEN NoByte
             ELSE ram[l][ReadAt(l)],
     q_c |-> IF p.st = "PF_RDC" THEN p.q_b ELSE p.q_c,
     q_d |-> IF p.st = "PF_RDD" THEN p.q_b ELSE p.q_d]

NextRam(l, in) ==
    [e \in Entries |->
        IF in.wr /\ e = HpsAddress(in.addr) THEN in.dout[l]
        ELSE IF wren_b(l) /\ e = Position THEN in.din ELSE ram[l][e]]

-----------------------------------------------------------------------------
(* The requests for sectors.                                               *)

req_rd ==
    /\ tg.phase = "DATA_OUT" /\ cmd_read /\ data_len # 0 /\ ~tg.data_complete
    /\ tg.rd_hps_blk < tg.tlen
    /\ tg.rd_hps_blk - rd_cur_blk < RING

\* A block has been received, or the command is at its end.
req_wr ==
    /\ \/ tg.phase = "DATA_IN" /\ tg.data_cnt % BLOCK = 0 /\ tg.data_cnt # 0
       \/ tg.phase = "STATUS_OUT"
    /\ cmd_write /\ data_len # 0

AckFalls(in) == tg.old_io_ack /\ ~in.io_ack
IssuesRd(in) == ~in.io_ack /\ req_rd /\ ~tg.io_rd /\ ~tg.rd_busy
IssuesWr(in) == ~in.io_ack /\ tg.wr_pending /\ ~tg.io_wr

-----------------------------------------------------------------------------
(* The phases.                                                             *)

Selected(in) == in.sel /\ in.din = <<"select", ID>>
AbortMessages == {<<"message", "abort">>, <<"message", "reset">>}

AfterCommand ==
    CASE Op \in {"read", "inquiry"} -> "DATA_OUT"
      [] Op = "write" -> "DATA_IN"
      [] OTHER -> "STATUS_OUT"

cmd_timeout == tg.cmd_wait = CMD_WAIT

NextPhase(in) ==
    CASE in.rst -> "IDLE"
      [] ~in.rst /\ tg.phase = "IDLE" ->
            IF ~Selected(in) THEN "IDLE" ELSE IF in.atn THEN "MSG_OUT" ELSE "CMD_IN"
      \* The message ends when the initiator drops ATN.
      [] ~in.rst /\ tg.phase = "MSG_OUT" ->
            IF ~(tg.stb_adv /\ ~in.atn) THEN "MSG_OUT"
            ELSE IF tg.msg_byte \in AbortMessages THEN "IDLE" ELSE "CMD_IN"
      [] ~in.rst /\ tg.phase = "CMD_IN" ->
            IF cmd_timeout THEN "IDLE" ELSE IF cmd_cpl THEN AfterCommand ELSE "CMD_IN"
      [] ~in.rst /\ tg.phase \in {"DATA_OUT", "DATA_IN"} ->
            IF data_done THEN "STATUS_OUT" ELSE tg.phase
      [] ~in.rst /\ tg.phase = "STATUS_OUT" ->
            IF tg.status_sent THEN "MESSAGE_OUT" ELSE "STATUS_OUT"
      [] ~in.rst /\ tg.phase = "MESSAGE_OUT" ->
            IF tg.message_sent THEN "IDLE" ELSE "MESSAGE_OUT"

Accepts == tg.phase = "CMD_IN" /\ cmd_cpl

Counter ==
    IF tg.phase \notin Transferring THEN [cnt |-> 0, complete |-> FALSE]
    ELSE IF ~tg.stb_adv THEN [cnt |-> tg.data_cnt, complete |-> tg.data_complete]
    ELSE [cnt |-> IF tg.data_complete THEN tg.data_cnt ELSE tg.data_cnt + 1,
          complete |-> data_len # 0 /\ tg.data_cnt = data_len - 1]

Registers(in) ==
    tg' = [phase |-> NextPhase(in),
           cmd |-> IF tg.stb_ack /\ tg.phase = "CMD_IN"
                   THEN [tg.cmd EXCEPT ![tg.cmd_cnt] = in.din] ELSE tg.cmd,
           cmd_cnt |-> IF tg.phase = "IDLE" THEN 0
                       ELSE IF tg.stb_adv /\ tg.phase = "CMD_IN" THEN tg.cmd_cnt + 1
                       ELSE tg.cmd_cnt,
           msg_byte |-> IF tg.stb_ack /\ tg.phase = "MSG_OUT" THEN in.din ELSE tg.msg_byte,
           cmd_wait |-> IF in.rst \/ tg.phase # "CMD_IN" \/ tg.stb_adv THEN 0
                        ELSE IF cmd_timeout THEN tg.cmd_wait ELSE tg.cmd_wait + 1,
           status |-> IF ~Accepts \/ cmd_timeout \/ in.rst THEN tg.status
                      ELSE <<"status", IF Op = "refused" THEN "check" ELSE "good">>,
           tlen |-> IF Accepts THEN Length ELSE tg.tlen,
           lba |-> IF Accepts THEN 0 ELSE IF AckFalls(in) THEN tg.lba + 1 ELSE tg.lba,
           data_cnt |-> Counter.cnt, data_complete |-> Counter.complete,
           status_sent |-> tg.phase = "STATUS_OUT" /\ (tg.stb_adv \/ tg.status_sent),
           message_sent |-> tg.phase = "MESSAGE_OUT" /\ (tg.stb_adv \/ tg.message_sent),
           old_ack |-> in.ack,
           stb_ack |-> ~tg.old_ack /\ in.ack, stb_adv |-> tg.old_ack /\ ~in.ack,
           buffer_wr |-> IF tg.stb_ack /\ tg.phase = "DATA_IN" THEN {Lane} ELSE {},
           sd_buff_sel |-> IF tg.phase = "IDLE" THEN 0
                           ELSE IF AckFalls(in) THEN 1 - tg.sd_buff_sel ELSE tg.sd_buff_sel,
           rd_hps_blk |-> IF tg.phase \notin Transferring THEN 0
                          ELSE IF AckFalls(in) /\ cmd_read THEN tg.rd_hps_blk + 1
                          ELSE tg.rd_hps_blk,
           io_rd |-> ~in.rst /\ ~in.io_ack /\ (tg.io_rd \/ IssuesRd(in)),
           rd_busy |-> ~in.rst /\ ~AckFalls(in) /\ (tg.rd_busy \/ IssuesRd(in)),
           io_wr |-> ~in.rst /\ ~in.io_ack /\ (tg.io_wr \/ IssuesWr(in)),
           wr_pending |-> /\ ~in.rst /\ ~IssuesWr(in)
                          /\ tg.wr_pending \/ (~tg.old_wr /\ req_wr),
           old_wr |-> ~in.rst /\ req_wr,
           old_io_ack |-> in.io_ack]

Clock(in) ==
    /\ Registers(in)
    /\ ram' = [l \in Lanes |-> NextRam(l, in)]
    /\ pf' = [l \in Lanes |-> NextPrefetch(l, in)]

=============================================================================
