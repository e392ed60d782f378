---------------------------- MODULE Hpc3ScsiDma ----------------------------
(***************************************************************************)
(* rtl/sgi/hpc3_scsi_dma.sv: the HPC3's SCSI channel, which walks a chain  *)
(* of descriptors in main memory and moves bytes between memory and the    *)
(* WD33C93, a word at a time on the memory side.                           *)
(*                                                                         *)
(* One clock edge is one Clock step; `in` is what the inputs carry:        *)
(*   pio    the access to a register: kind "none", "read" (of control),    *)
(*          "ctrl" with mask, active, reset and flush, "nbdp" with value   *)
(*   ack, rdata              the memory's answer                           *)
(*   req, dir_in, byte, eop  the WD33C93's side                            *)
(*                                                                         *)
(* A descriptor is named, not addressed; rdata carries the view of the     *)
(* word that was read: [bp, count, eox, xie], [next] or a word of bytes.   *)
(* The bits that are only stored (endian, dir, gio, dev, dmacfg, piocfg)   *)
(* and writes of cbp and bc, which the go edge's fetch overwrites, are     *)
(* left out.                                                               *)
(***************************************************************************)
EXTENDS Naturals

CONSTANTS
    LANES,       \* bytes of a word
    FLUSH_IDLE,  \* clocks without a byte before held bytes are written
    LINK_LIMIT,  \* links followed in a row
    NoByte,
    NoDesc

VARIABLES
    cbp, count,          \* current buffer pointer, bc[13:0]
    nbdp, fetch_ptr,
    desc_eox, desc_xie,
    ctrl_int, ctrl_active, ctrl_reset,
    dstate, fl_next, link_count, eop_lat,
    wbuf, wbe, waddr,    \* bytes held for memory, the lanes that hold one, whose word
    rbuf, raddr, rvalid, \* the word read last
    widle,
    dma,                 \* dma_req, dma_we, dma_addr, dma_wdata, dma_be
    dev_ack, dev_rdata, dev_reset

chVars == <<cbp, count, nbdp, fetch_ptr, desc_eox, desc_xie, ctrl_int, ctrl_active,
            ctrl_reset, dstate, fl_next, link_count, eop_lat, wbuf, wbe, waddr, rbuf,
            raddr, rvalid, widle, dma, dev_ack, dev_rdata, dev_reset>>

Lanes == 0..(LANES - 1)
NoBytes == [l \in Lanes |-> NoByte]

Init ==
    /\ cbp = 0 /\ count = 0 /\ nbdp = NoDesc /\ fetch_ptr = NoDesc
    /\ desc_eox = FALSE /\ desc_xie = FALSE
    /\ ctrl_int = FALSE /\ ctrl_active = FALSE /\ ctrl_reset = TRUE
    /\ dstate = "D_IDLE" /\ fl_next = "FN_IDLE" /\ link_count = 0 /\ eop_lat = FALSE
    /\ wbuf = NoBytes /\ wbe = {} /\ waddr = 0
    /\ rbuf = NoBytes /\ raddr = 0 /\ rvalid = FALSE
    /\ widle = 0
    /\ dma = [req |-> FALSE, we |-> FALSE, addr |-> <<"word", 0>>, data |-> NoBytes, be |-> {}]
    /\ dev_ack = FALSE /\ dev_rdata = NoByte /\ dev_reset = FALSE

Word == cbp \div LANES
Lane == cbp % LANES
At(st) == dstate = st
Answered(st, in) == dstate = st /\ in.ack

-----------------------------------------------------------------------------
(* The control register's write.                                           *)

WritesCtrl(in) == in.pio.kind = "ctrl"
Resets(in) == WritesCtrl(in) /\ in.pio.reset
Goes(in) ==
    WritesCtrl(in) /\ ~in.pio.mask /\ in.pio.active /\ ~ctrl_active /\ ~in.pio.reset
Stops(in) ==
    /\ WritesCtrl(in)
    /\ (~in.pio.mask /\ ~in.pio.active) \/ (in.pio.flush /\ ~in.pio.reset)
StopInFlush == dstate \in {"D_FLUSH", "D_FLUSH_W"}

\* Held bytes are written before a stopped channel goes idle; a reset drops
\* them.
PioState(in) ==
    IF Resets(in) THEN "D_IDLE"
    ELSE IF Stops(in)
    THEN IF StopInFlush THEN dstate ELSE IF wbe # {} THEN "D_FLUSH" ELSE "D_IDLE"
    ELSE IF Goes(in) THEN "D_FETCH_LO"
    ELSE dstate

-----------------------------------------------------------------------------
(* The engine.                                                             *)

EndsPhase == At("D_RUN") /\ eop_lat
Takes(in) == At("D_RUN") /\ ~eop_lat /\ in.req

\* Bytes of another word are still held.
OtherWord == wbe # {} /\ Word # waddr

TakesIn(in) == Takes(in) /\ in.dir_in /\ ~OtherWord

\* Mutant: a word is written when it is full, and only then.
WordEndsFull == Lane = LANES - 1

WordEnds == Lane = LANES - 1 \/ count = 1

GivesHeld(in) == Takes(in) /\ ~in.dir_in /\ rvalid /\ raddr = Word

Tires(in) == At("D_RUN") /\ ~eop_lat /\ ~in.req /\ wbe # {} /\ widle = FLUSH_IDLE - 1

EndOfChain == At("D_EVAL") /\ count = 0 /\ (desc_eox \/ link_count = LINK_LIMIT)
Links == At("D_EVAL") /\ count = 0 /\ ~desc_eox /\ link_count # LINK_LIMIT

\* What the engine assigns to dstate in this clock, if it does.
Moves(in) ==
    CASE At("D_FETCH_LO")              -> "D_FETCH_LO_W"
      [] Answered("D_FETCH_LO_W", in)  -> "D_FETCH_HI"
      [] At("D_FETCH_HI")              -> "D_FETCH_HI_W"
      [] Answered("D_FETCH_HI_W", in)  -> "D_EVAL"
      [] EndOfChain                    -> "D_COMPLETE"
      [] Links                         -> "D_FETCH_LO"
      [] At("D_EVAL") /\ count # 0     -> "D_RUN"
      [] EndsPhase                     -> IF wbe # {} THEN "D_FLUSH" ELSE "D_DESC_END"
      [] Takes(in) /\ in.dir_in        ->
            IF OtherWord \/ WordEnds THEN "D_FLUSH" ELSE "D_ADVANCE"
      [] Takes(in) /\ ~in.dir_in       -> IF GivesHeld(in) THEN "D_ADVANCE" ELSE "D_MEM_RD"
      [] Tires(in)                     -> "D_FLUSH"
      [] At("D_MEM_RD")                -> "D_MEM_RD_W"
      [] Answered("D_MEM_RD_W", in)    -> "D_ADVANCE"
      [] At("D_FLUSH")                 -> "D_FLUSH_W"
      [] Answered("D_FLUSH_W", in)     ->
            CASE fl_next = "FN_ADVANCE" -> "D_ADVANCE"
              [] fl_next = "FN_RUN"     -> "D_RUN"
              [] OTHER                  -> "D_IDLE"
      [] At("D_ADVANCE")               -> IF count = 1 THEN "D_DESC_END" ELSE "D_RUN"
      [] At("D_DESC_END")              -> IF desc_eox THEN "D_COMPLETE" ELSE "D_FETCH_LO"
      [] At("D_COMPLETE")              -> "D_IDLE"
      [] OTHER                         -> "stays"

\* Mutant: a stop that has bytes to write goes on as the last write did.
AfterFlushAsBefore(in) ==
    IF TakesIn(in) /\ WordEnds THEN "FN_ADVANCE"
    ELSE IF At("D_RUN") /\ Moves(in) = "D_FLUSH" THEN "FN_RUN"
    ELSE fl_next

\* Where the engine goes when held bytes are written.
AfterFlush(in) ==
    IF TakesIn(in) /\ WordEnds THEN "FN_ADVANCE"
    ELSE IF At("D_RUN") /\ Moves(in) = "D_FLUSH" THEN "FN_RUN"
    ELSE IF Stops(in) /\ (StopInFlush \/ wbe # {}) THEN "FN_IDLE"
    ELSE fl_next

\* The engine's assignments come after the register write's and win.
Sequencer(in) ==
    /\ dstate' = IF Moves(in) = "stays" THEN PioState(in) ELSE Moves(in)
    /\ fl_next' = AfterFlush(in)
    /\ ctrl_active' =
         IF At("D_COMPLETE") \/ Resets(in) \/ Stops(in) THEN FALSE
         ELSE ctrl_active \/ Goes(in)
    /\ ctrl_reset' = IF WritesCtrl(in) THEN in.pio.reset ELSE ctrl_reset
    /\ dev_reset' = (ctrl_reset /\ WritesCtrl(in) /\ ~in.pio.reset)

\* Mutant: a read of the control register clears what is being raised.
IntReadFirst(in, raised) == IF in.pio.kind = "read" THEN FALSE ELSE ctrl_int \/ raised

\* An interrupt that is raised while control is read stays.
Int(in, raised) == raised \/ (ctrl_int /\ in.pio.kind # "read")

\* Mutant: the end of the phase is noticed only by an engine that waits for it.
EopRunningOnly(in) == in.eop /\ dstate = "D_RUN"

\* The end of the phase is latched, whatever the engine is at.
Eop(in) == in.eop \/ eop_lat

Descriptor(in) ==
    /\ cbp' = IF Answered("D_FETCH_LO_W", in) THEN in.rdata.bp
              ELSE IF At("D_ADVANCE") THEN cbp + 1 ELSE cbp
    /\ count' = IF Answered("D_FETCH_LO_W", in) THEN in.rdata.count
                ELSE IF At("D_ADVANCE") THEN count - 1 ELSE count
    /\ desc_eox' = IF Answered("D_FETCH_LO_W", in) THEN in.rdata.eox ELSE desc_eox
    /\ desc_xie' = IF Answered("D_FETCH_LO_W", in) THEN in.rdata.xie ELSE desc_xie
    /\ nbdp' = IF Answered("D_FETCH_HI_W", in) THEN in.rdata.next
               ELSE IF in.pio.kind = "nbdp" THEN in.pio.value ELSE nbdp
    /\ fetch_ptr' = IF Links \/ (At("D_DESC_END") /\ ~desc_eox) \/ Goes(in)
                    THEN nbdp ELSE fetch_ptr
    /\ link_count' = IF Links THEN link_count + 1
                     ELSE IF (At("D_EVAL") /\ count # 0) \/ (At("D_DESC_END") /\ ~desc_eox)
                             \/ Goes(in)
                     THEN 0 ELSE link_count
    /\ ctrl_int' = Int(in, desc_xie /\ (At("D_DESC_END")
                                        \/ (At("D_EVAL") /\ count = 0 /\ desc_eox)))
    /\ eop_lat' = IF (EndsPhase /\ wbe = {}) \/ Goes(in) THEN FALSE ELSE Eop(in)

\* Mutant: the word read last outlives the descriptor it was read for.
ForgetsNever(in) == Resets(in)

\* The word read last is forgotten with the descriptor it was read for.
Forgets(in) == Answered("D_FETCH_LO_W", in) \/ Goes(in) \/ Resets(in)

\* Clocks in D_RUN with bytes held and none arriving.
IdleClocks(in) ==
    IF At("D_RUN")
    THEN IF ~eop_lat /\ ~in.req /\ wbe # {} THEN widle + 1 ELSE 0
    ELSE IF Answered("D_FLUSH_W", in) THEN 0 ELSE widle

Bytes(in) ==
    /\ wbuf' = IF TakesIn(in) THEN [wbuf EXCEPT ![Lane] = in.byte] ELSE wbuf
    /\ wbe' = IF TakesIn(in) THEN wbe \cup {Lane}
              ELSE IF Answered("D_FLUSH_W", in) \/ Resets(in) THEN {} ELSE wbe
    /\ waddr' = IF TakesIn(in) THEN Word ELSE waddr
    /\ rbuf' = IF Answered("D_MEM_RD_W", in) THEN in.rdata.word ELSE rbuf
    /\ raddr' = IF Answered("D_MEM_RD_W", in) THEN Word ELSE raddr
    /\ rvalid' = (Answered("D_MEM_RD_W", in) \/ (rvalid /\ ~Forgets(in)))
    /\ widle' = IdleClocks(in)
    /\ dev_ack' = (TakesIn(in) \/ GivesHeld(in) \/ Answered("D_MEM_RD_W", in))
    /\ dev_rdata' = IF GivesHeld(in) THEN rbuf[Lane]
                    ELSE IF Answered("D_MEM_RD_W", in) THEN in.rdata.word[Lane]
                    ELSE dev_rdata

\* A request is held until it is answered.
Held(in) == dma.req /\ ~in.ack

Master(in) ==
    dma' = CASE At("D_FETCH_LO") -> [dma EXCEPT !.req = TRUE, !.we = FALSE,
                                                !.addr = <<"lo", fetch_ptr>>]
             [] At("D_FETCH_HI") -> [dma EXCEPT !.req = TRUE, !.we = FALSE,
                                                !.addr = <<"hi", fetch_ptr>>]
             [] At("D_MEM_RD")   -> [dma EXCEPT !.req = TRUE, !.we = FALSE,
                                                !.addr = <<"word", Word>>]
             [] At("D_FLUSH")    -> [req |-> TRUE, we |-> TRUE, addr |-> <<"word", waddr>>,
                                     data |-> wbuf, be |-> wbe]
             [] OTHER            -> [dma EXCEPT !.req = Held(in)]

Clock(in) == Sequencer(in) /\ Descriptor(in) /\ Bytes(in) /\ Master(in)

=============================================================================
