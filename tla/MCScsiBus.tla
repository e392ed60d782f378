------------------------------ MODULE MCScsiBus ------------------------------
(* ScsiBus with a disk of BLOCK-byte sectors at ID.                         *)
EXTENDS ScsiBus

Sat(op, len, segments) ==
    [kind |-> "sat", op |-> op, len |-> len, dest |-> ID, count |-> segments, room |-> segments]
To(dest, job) == [job EXCEPT !.dest = dest]
WithRoom(room, job) == [job EXCEPT !.room = room]
Polled(op, len) == [kind |-> "polled", op |-> op, len |-> len, dest |-> ID, count |-> <<0>>, room |-> <<0>>]
Disconnect == [kind |-> "disconnect"]
Reset == [kind |-> "reset"]

\* Three sectors out and in again; the same in segments that end within a
\* sector and with one; a bus scan: nobody there, a disconnect whose interrupt
\* is left, a command without data; a CDB the target waits the rest of, and one
\* it refuses; chains that run out, the reset and the command again; the polled
\* sessions.
MCPlans ==
    {<<Reset, Sat("write", 3, <<12>>), Sat("read", 3, <<12>>)>>,
     <<Sat("write", 3, <<5, 7>>), Sat("read", 3, <<1, 11>>)>>,
     <<Sat("write", 2, <<4, 4>>), Sat("read", 2, <<6, 2>>)>>,
     <<To(ID + 1, Sat("none", 0, <<0>>)), Disconnect, Sat("none", 0, <<0>>)>>,
     <<Sat("vendor", 0, <<0>>), Sat("refused", 0, <<0>>), Sat("inquiry", ANSWER, <<ANSWER>>)>>,
     <<WithRoom(<<3>>, Sat("read", 1, <<4>>)), Reset, Sat("read", 1, <<4>>)>>,
     <<WithRoom(<<5>>, Sat("write", 2, <<8>>)), Reset, Sat("write", 2, <<8>>)>>,
     <<Polled("inquiry", ANSWER), Polled("none", 0)>>}

\* Three sectors, the later of which come in while bytes of the first are taken.
MCFillPlans == {<<Sat("read", 3, <<12>>)>>}

\* An answer that is shorter than what the driver allowed for.
MCShortPlans == {<<Sat("inquiry", 8, <<8>>)>>}
=============================================================================
