------------------------------ MODULE RamPort -------------------------------
(***************************************************************************)
(* The contract of main memory's port, as the masters behind ram_arb see   *)
(* it (the main-memory master of rtl/mister/ddr3_mux.sv on the board,      *)
(* verilator/sim_ram.v in the simulator).  One transaction at a time: a    *)
(* request raised into a transaction is dropped, silently.  A read answers *)
(* one ram_ack per doubleword, in order, ram_last on the final one, after  *)
(* any number of clocks and with any gaps; a write answers once.           *)
(*                                                                         *)
(* A request is a record [who, id, we, beat, words] and the data on the    *)
(* wires is named by what it is: doubleword `word` of the access `id` of   *)
(* the master `who`; without an acknowledgement they carry NoData.         *)
(***************************************************************************)
EXTENDS Naturals

CONSTANT NoRequest

VARIABLES
    cur,         \* the request being answered, NoRequest when there is none
    left,        \* words it is still owed
    ram_ack, ram_last, ram_rdata

portVars == <<cur, left, ram_ack, ram_last, ram_rdata>>

NoData == [who |-> "none", id |-> 0, word |-> 0]

Init ==
    /\ cur = NoRequest /\ left = 0
    /\ ram_ack = FALSE /\ ram_last = TRUE /\ ram_rdata = NoData

\* Acknowledgements a request is owed.
Acks(r) == IF r.we THEN 1 ELSE r.words

\* One clock of the port for request r of which `owed` words are missing:
\* the next word comes, or the memory is not there yet.
Word(r, owed) ==
    /\ owed > 0
    /\ ram_ack' = TRUE /\ ram_last' = (owed = 1) /\ left' = owed - 1
    /\ ram_rdata' = [who |-> r.who, id |-> r.id,
                      word |-> r.beat + (Acks(r) - owed)]
    /\ cur' = IF owed = 1 THEN NoRequest ELSE r

Wait(r, owed) ==
    /\ ram_ack' = FALSE /\ ram_last' = TRUE
    /\ left' = owed /\ cur' = r
    /\ ram_rdata' = NoData

\* A free port takes the request.  In the clock of the last acknowledgement
\* it may still refuse one (ddr3_mux refuses a request that looks like the
\* transaction it has just answered), and a busy port drops it.
Refuses == left > 0 \/ ram_ack

Clock(ram_req, r) ==
    \/ /\ ram_req /\ left = 0
       /\ Word(r, Acks(r)) \/ Wait(r, Acks(r))
    \/ /\ ram_req => Refuses
       /\ Word(cur, left) \/ Wait(cur, left)

=============================================================================
