----------------------------- MODULE BlockPort ------------------------------
(***************************************************************************)
(* The block port of a SCSI target (rtl/scsi/scsi.v, the request engine):  *)
(* one sector at a time, a request line that falls with the acknowledgment *)
(* and a sector that is done when the acknowledgement falls.               *)
(*                                                                         *)
(* Which sector comes next - the commands, the ring of buffers and the two *)
(* halves of the write buffer - is left out: a target asks for any sector  *)
(* of its image whenever its own engine is free.  `slot` is the slot of    *)
(* the cache the target is on.                                             *)
(***************************************************************************)
EXTENDS Naturals

VARIABLES
    io,          \* per target: "none", "rd" or "wr", the line it holds up
    busy,        \* a sector is outstanding
    lba, writing,
    old_io_ack,
    sd_buff      \* the target's sector buffer

portVars == <<io, busy, lba, writing, old_io_ack, sd_buff>>

\* The sector the target waits for is done.
Ends(s, ack) == busy[s] /\ s \in old_io_ack \ ack

\* The acknowledgement releases the request line.
Released(s, ack) == s \in ack

\* rst is the SCSI bus reset; `asks` says what each target asks for in this
\* clock, if its engine is free: [io, lba, data].
Clock(slots, ack, buff, rst, asks) ==
    LET starts(s) == /\ ~rst /\ s \notin ack /\ io[s] = "none" /\ asks[s].io # "none"
                     /\ ~busy[s] \/ (asks[s].io = "wr" /\ Ends(s, ack))
    IN
    /\ io' = [s \in slots |->
                IF rst \/ Released(s, ack) THEN "none"
                ELSE IF starts(s) THEN asks[s].io ELSE io[s]]
    /\ busy' = [s \in slots |-> ~rst /\ (starts(s) \/ (busy[s] /\ ~Ends(s, ack)))]
    /\ lba' = [s \in slots |-> IF starts(s) THEN asks[s].lba ELSE lba[s]]
    /\ writing' = [s \in slots |-> IF starts(s) THEN asks[s].io = "wr" ELSE writing[s]]
    \* The buffer bus is shared by the targets.
    /\ sd_buff' = [s \in slots |->
                     IF starts(s) THEN asks[s].data
                     ELSE IF buff.wr THEN [sd_buff[s] EXCEPT ![buff.addr] = buff.dout]
                     ELSE sd_buff[s]]
    /\ old_io_ack' = ack

=============================================================================
