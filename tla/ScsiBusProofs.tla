---------------------------- MODULE ScsiBusProofs ----------------------------
(***************************************************************************)
(* The SCSI bus with a driver that works through jobs, for any plans, any  *)
(* target, medium and sector size and any timers: no result is written     *)
(* over before the driver has read it, but by its own reset.               *)
(*                                                                         *)
(* First the WD33C93B by itself, in any clock, whatever the bus and the    *)
(* channel: a result that waits to be read is there only while the         *)
(* sequencer rests, so that nothing writes over it.  What the driver adds  *)
(* is when it disconnects and resets: never in a polled transfer, and a    *)
(* reset only to a chip that rests, or waits for a channel that has no     *)
(* more room.                                                              *)
(*                                                                         *)
(* Then the Select-and-Transfers of drivers whose counts are what their    *)
(* commands move: the bytes keep their places, and what the chip reports   *)
(* is the truth.  The invariant names the stage the bus is in, from a bus  *)
(* that is free to the result, and in each of them where every byte is     *)
(* that is on its way; there is a lemma for each stage's clock.            *)
(***************************************************************************)
EXTENDS ScsiBus, TLAPS

(* Where the sequencer waits for the driver, and where a command that      *)
(* selects runs.                                                           *)
Rest == {"ST_IDLE", "ST_SEL_PHASE"}
Busy == {"ST_SEL_ASSERT", "ST_SEL_WAIT", "ST_SEL_DONE",
         "ST_SAT_SEL", "ST_SAT_WAIT", "ST_SAT_PHASE", "ST_SAT_DIN", "ST_SAT_DMA",
         "ST_SAT_ACK", "ST_SAT_REL", "ST_SAT_END"}

\* The registers of the argument, and what holds of them between clocks.
Fields == {"state", "int_pending", "status", "cip"}
ChipInv ==
    /\ Fields \union {"cdb_len"} \subseteq DOMAIN wd
    /\ wd.state \in Rest \union Busy \union Chip!PolledStates
    /\ wd.int_pending => wd.state \in Rest
    /\ wd.state \in Busy => wd.cip

\* A clock in which a result stays, but for a reset's.
Kept == wd.int_pending /\ wd'.int_pending => wd'.status \in {wd.status, <<"S_RESET">>}

\* What the bus can show.
Phases == {"DATA_OUT", "DATA_IN", "COMMAND", "STATUS", "MSG_OUT", "MSG_IN"}

-----------------------------------------------------------------------------
(* Updates: those that touch none of the registers, those that only move   *)
(* the sequencer, and those that send it to rest.                          *)

Silent(u) == Fields \intersect DOMAIN u = {}
Goes(u, states) == Fields \intersect DOMAIN u = {"state"} /\ u.state \in states
Ends(u) == "state" \in DOMAIN u /\ u.state \in Rest
Stays(u) == "cdb_len" \notin DOMAIN u

LEMMA NothingIsSilent == DOMAIN Chip!Nothing = {} /\ Silent(Chip!Nothing) /\ Stays(Chip!Nothing)
  BY DEF Chip!Nothing, Silent, Stays

LEMMA SilentMerge ==
    ASSUME NEW u, NEW v, Silent(u), Silent(v)
    PROVE  Silent(Chip!@@(u, v))
  BY DEF Chip!@@, Silent

LEMMA GoesMerge ==
    ASSUME NEW u, NEW v, NEW states,
           (Goes(u, states) /\ Silent(v)) \/ (Silent(u) /\ Goes(v, states))
    PROVE  Goes(Chip!@@(u, v), states)
<1>1. Fields \intersect DOMAIN Chip!@@(u, v) = {"state"}
  BY DEF Chip!@@, Silent, Goes
<1>2. Chip!@@(u, v)["state"] \in states
  <2>1. CASE Goes(u, states)
    BY <2>1 DEF Chip!@@, Goes, Fields
  <2>2. CASE Silent(u) /\ Goes(v, states)
    BY <2>2 DEF Chip!@@, Silent, Goes, Fields
  <2>3. QED BY <2>1, <2>2
<1>3. QED BY <1>1, <1>2 DEF Goes

LEMMA EndsMerge ==
    ASSUME NEW u, NEW v, Ends(u) \/ (Silent(u) /\ Ends(v))
    PROVE  Ends(Chip!@@(u, v))
<1>1. CASE Ends(u)
  BY <1>1 DEF Chip!@@, Ends
<1>2. CASE Silent(u) /\ Ends(v)
  BY <1>2 DEF Chip!@@, Silent, Ends, Fields
<1>3. QED BY <1>1, <1>2

LEMMA StaysMerge ==
    ASSUME NEW u, NEW v, Stays(u), Stays(v)
    PROVE  Stays(Chip!@@(u, v))
  BY DEF Chip!@@, Stays

LEMMA WhenOr ==
    ASSUME NEW p \in BOOLEAN, NEW u
    PROVE  Chip!When(p, u) = u \/ Chip!When(p, u) = Chip!Nothing
  BY DEF Chip!When

-----------------------------------------------------------------------------
(* The sequencer.                                                          *)

\* At rest it reports a phase when no result is in the way.
LEMMA SequencerAtRest ==
    ASSUME NEW in, wd.state \in Rest
    PROVE  LET u == Chip!Sequencer(in)
           IN  /\ Stays(u)
               /\ \/ Silent(u)
                  \/ Ends(u) /\ ({"int_pending", "status"} \intersect DOMAIN u # {} => ~wd.int_pending)
<1>1. CASE wd.state = "ST_IDLE"
  <2>1. Chip!Sequencer(in) = Chip!Nothing
    BY <1>1 DEF Chip!Sequencer, Chip!PolledStates
  <2>2. QED BY <2>1, NothingIsSilent
<1>2. CASE wd.state = "ST_SEL_PHASE"
  <2>1. Chip!Sequencer(in) = IF ~in.bsy THEN [state |-> "ST_IDLE"]
                        ELSE Chip!When(Chip!PhaseDue(in),
                                  Chip!@@([state |-> "ST_IDLE"], Chip!Result(<<"S_SERVICE_REQ", in.phase>>)))
    BY <1>2 DEF Chip!Sequencer, Chip!Selection, Chip!PolledStates
  <2>2. CASE ~in.bsy
    BY <2>1, <2>2 DEF Ends, Stays, Rest
  <2>3. CASE in.bsy /\ ~Chip!PhaseDue(in)
    BY <2>1, <2>3, NothingIsSilent DEF Chip!When
  <2>4. CASE in.bsy /\ Chip!PhaseDue(in)
    <3>1. Chip!Sequencer(in) = Chip!@@([state |-> "ST_IDLE"], Chip!Result(<<"S_SERVICE_REQ", in.phase>>))
      BY <2>1, <2>4 DEF Chip!When
    <3>2. DOMAIN Chip!Sequencer(in) = {"state", "status", "int_pending"}
          /\ Chip!Sequencer(in).state = "ST_IDLE"
      BY <3>1 DEF Chip!@@, Chip!Result
    <3>3. QED BY <2>4, <3>2 DEF Ends, Stays, Rest, Chip!PhaseDue
  <2>5. QED BY <2>2, <2>3, <2>4
<1>3. QED BY <1>1, <1>2 DEF Rest

\* A result of a command that selects comes with the way back to rest.
LEMMA SelectionRuns ==
    ASSUME NEW in, wd.state \in {"ST_SEL_ASSERT", "ST_SEL_WAIT", "ST_SEL_DONE"}
    PROVE  LET u == Chip!Sequencer(in)
           IN  Stays(u) /\ (Silent(u) \/ Goes(u, Busy) \/ Ends(u))
<1>1. Chip!Sequencer(in) = Chip!Selection(in)
  BY DEF Chip!Sequencer, Chip!PolledStates
<1>2. CASE wd.state = "ST_SEL_ASSERT"
  <2>1. Chip!Sequencer(in) = Chip!Asserts(in, "ST_SEL_WAIT", Chip!TimedOut)
    BY <1>1, <1>2 DEF Chip!Selection
  <2>2. QED BY <2>1 DEF Chip!Asserts, Chip!TimedOut, Chip!Result, Chip!When, Chip!Nothing,
                        Chip!@@, Stays, Silent, Goes, Ends, Fields, Busy, Rest
<1>3. CASE wd.state = "ST_SEL_WAIT"
  <2>1. Chip!Sequencer(in) = Chip!Waits(in, [state |-> "ST_SEL_DONE"], Chip!TimedOut)
    BY <1>1, <1>3 DEF Chip!Selection
  <2>2. QED BY <2>1 DEF Chip!Waits, Chip!TimedOut, Chip!Result, Chip!When, Chip!Nothing, Chip!@@,
                        Stays, Silent, Goes, Ends, Fields, Busy, Rest
<1>4. CASE wd.state = "ST_SEL_DONE"
  <2>1. Chip!Sequencer(in) = Chip!@@([cip |-> FALSE, state |-> "ST_SEL_PHASE"], Chip!Result(<<"S_SELECT_OK">>))
    BY <1>1, <1>4 DEF Chip!Selection
  <2>2. QED BY <2>1 DEF Chip!Result, Chip!@@, Stays, Ends, Rest
<1>5. QED BY <1>2, <1>3, <1>4

\* A polled transfer goes on among its own states until its result.
LEMMA PolledRuns ==
    ASSUME NEW in, wd.state \in Chip!PolledStates
    PROVE  LET u == Chip!Sequencer(in)
           IN  Stays(u) /\ (Silent(u) \/ Goes(u, Chip!PolledStates) \/ Ends(u))
<1>1. Chip!Sequencer(in) = Chip!Polled(in)
  BY DEF Chip!Sequencer, Chip!PolledStates
<1>2. \A status : Stays(Chip!PolledEnds(status)) /\ Ends(Chip!PolledEnds(status))
  BY DEF Chip!PolledEnds, Chip!Result, Chip!@@, Stays, Ends, Rest
<1>3. Stays(Chip!TargetLeft) /\ Ends(Chip!TargetLeft)
  BY DEF Chip!TargetLeft, Chip!PolledEnds, Chip!Result, Chip!@@, Stays, Ends, Rest
<1>4. Stays(Chip!OtherPhase(in)) /\ Ends(Chip!OtherPhase(in))
  BY <1>2 DEF Chip!OtherPhase
<1>5. Stays(Chip!FromTarget(in)) /\ Silent(Chip!FromTarget(in))
  <2>1. DOMAIN Chip!FromTarget(in) \subseteq {"data_latch"}
    BY DEF Chip!FromTarget, Chip!When, Chip!Nothing
  <2>2. QED BY <2>1 DEF Stays, Silent, Fields
<1>6. CASE wd.state = "ST_XFER_REL"
  <2>1. Chip!Polled(in) = Chip!When(~in.req, Chip!PolledReleases)
    BY <1>6 DEF Chip!Polled
  <2>2. Stays(Chip!PolledReleases)
          /\ (Goes(Chip!PolledReleases, Chip!PolledStates) \/ Ends(Chip!PolledReleases))
    <3> DEFINE one_less == [pio_left |-> wd.pio_left - 1]
               counts == Chip!When(~wd.pio_sbt, [count |-> Chip!Down(wd.count)])
    <3>1. Stays(one_less) /\ Silent(one_less)
      BY DEF Stays, Silent, Fields
    <3>2. Stays(counts) /\ Silent(counts)
      <4>1. DOMAIN counts \subseteq {"count"}
        BY DEF Chip!When, Chip!Nothing
      <4>2. QED BY <4>1 DEF Stays, Silent, Fields
    <3>3. CASE Chip!PolledLast /\ wd.pio_phase = "MSG_IN"
      <4> DEFINE paused == Chip!@@([pio_ack_held |-> TRUE], Chip!PolledEnds(<<"S_XFER_PAUSED">>))
      <4>1. Stays(paused) /\ Ends(paused)
        BY DEF Chip!PolledEnds, Chip!Result, Chip!@@, Stays, Ends, Rest
      <4>2. Chip!PolledReleases = Chip!@@(Chip!@@(paused, one_less), counts)
        BY <3>3 DEF Chip!PolledReleases
      <4> HIDE DEF paused, one_less, counts
      <4>3. QED BY <3>1, <3>2, <4>1, <4>2, StaysMerge, EndsMerge
    <3>4. CASE ~(Chip!PolledLast /\ wd.pio_phase = "MSG_IN")
      <4> DEFINE next == [ack |-> FALSE, pio_settle |-> PIO_SETTLE,
                          state |-> IF Chip!PolledLast THEN "ST_DONE" ELSE "ST_XFER"]
      <4>1. Stays(next) /\ Goes(next, Chip!PolledStates)
        BY DEF Chip!PolledStates, Stays, Goes, Fields
      <4>2. Chip!PolledReleases = Chip!@@(Chip!@@(next, one_less), counts)
        BY <3>4 DEF Chip!PolledReleases
      <4> HIDE DEF next, one_less, counts
      <4>3. QED BY <3>1, <3>2, <4>1, <4>2, StaysMerge, GoesMerge
    <3>5. QED BY <3>3, <3>4
  <2>3. QED BY <1>1, <2>1, <2>2, NothingIsSilent DEF Chip!When
<1>7. CASE Chip!PolledSettles
  BY <1>1, <1>7 DEF Chip!Polled, Chip!PolledSettles, Stays, Silent, Fields
<1>8. CASE wd.state # "ST_XFER_REL" /\ ~Chip!PolledSettles /\ ~in.bsy
  <2> DEFINE left == Chip!@@([cmd_phase |-> Chip!CP_DISCONNECT_OK, state |-> "ST_IDLE"],
                        Chip!Result(<<"S_DISCONNECT">>))
  <2>1. Chip!Polled(in) \in {Chip!TargetLeft, left}
    BY <1>8 DEF Chip!Polled
  <2>2. Stays(left) /\ Ends(left)
    BY DEF Chip!Result, Chip!@@, Stays, Ends, Rest
  <2> HIDE DEF left
  <2>3. QED BY <1>1, <1>3, <2>1, <2>2
<1>9. CASE wd.state # "ST_XFER_REL" /\ ~Chip!PolledSettles /\ in.bsy /\ wd.state = "ST_XFER_DBR"
  <2> DEFINE drops == Chip!When(wd.pio_phase = "MSG_OUT" /\ Chip!PolledLast,
                           [atn |-> FALSE, cmd_phase |-> Chip!CP_IDENTIFY_SENT])
             next == [state |-> "ST_XFER_ACK"]
  <2>1. Chip!Polled(in) \in {Chip!FromTarget(in), Chip!@@(next, drops)}
    BY <1>9 DEF Chip!Polled, Chip!PolledByte
  <2>2. Stays(drops) /\ Silent(drops)
    BY DEF Chip!When, Chip!Nothing, Stays, Silent, Fields
  <2>3. Stays(next) /\ Goes(next, Chip!PolledStates)
    BY DEF Stays, Goes, Fields, Chip!PolledStates
  <2> HIDE DEF drops, next
  <2>4. QED BY <1>1, <1>5, <2>1, <2>2, <2>3, StaysMerge, GoesMerge
<1>10. CASE /\ wd.state \notin {"ST_XFER_REL", "ST_XFER_DBR"}
            /\ ~Chip!PolledSettles /\ in.bsy
  <2> DEFINE asks == Chip!@@([state |-> "ST_IDLE"], Chip!Result(<<"S_SERVICE_REQ", in.phase>>))
             byte == [dbr |-> TRUE, state |-> "ST_XFER_DBR"]
             acks == [ack |-> TRUE, state |-> "ST_XFER_REL"]
             done == Chip!PolledEnds(<<"S_XFER_DONE", in.phase>>)
  <2>1. Chip!Polled(in)
            \in {Chip!Nothing, Chip!OtherPhase(in), Chip!@@(Chip!FromTarget(in), byte), acks, done, asks}
    BY <1>10 DEF Chip!Polled, Chip!PolledStates
  <2>2. Stays(asks) /\ Ends(asks)
    BY DEF Chip!Result, Chip!@@, Stays, Ends, Rest
  <2>3. Stays(byte) /\ Goes(byte, Chip!PolledStates) /\ Stays(acks) /\ Goes(acks, Chip!PolledStates)
    BY DEF Stays, Goes, Fields, Chip!PolledStates
  <2> HIDE DEF asks, byte, acks
  <2>4. QED
    BY <1>1, <1>2, <1>4, <1>5, <2>1, <2>2, <2>3, NothingIsSilent, StaysMerge, GoesMerge
<1>11. QED BY <1>6, <1>7, <1>8, <1>9, <1>10

\* What a Select-and-Transfer does with the target's request moves it on, and
\* does so only while bytes are left, if the phase is one of data.
LEMMA FollowingRuns ==
    ASSUME NEW in, in.phase \in Phases
    PROVE  /\ Stays(Chip!Follows(in))
           /\ Silent(Chip!Follows(in)) \/ Goes(Chip!Follows(in), Busy)
           /\ in.bsy /\ wd.count = 0 /\ in.phase \in Chip!DataPhases => Silent(Chip!Follows(in))
<1>1. CASE ~in.bsy
  BY <1>1 DEF Chip!Follows, Chip!EndsPhase, Chip!When, Chip!Nothing, Chip!@@, Stays, Silent,
              Goes, Fields, Busy
<1>2. CASE in.bsy /\ wd.dma_in_data /\ in.phase \notin Chip!DataPhases
  BY <1>2 DEF Chip!Follows, Chip!EndsPhase, Chip!When, Chip!Nothing, Stays, Silent, Fields
<1>3. CASE in.bsy /\ ~(wd.dma_in_data /\ in.phase \notin Chip!DataPhases) /\ ~in.req
  BY <1>3, NothingIsSilent DEF Chip!Follows
<1>4. CASE in.bsy /\ ~(wd.dma_in_data /\ in.phase \notin Chip!DataPhases) /\ in.req
  <2> DEFINE u == Chip!Follows(in)
  <2>1. CASE in.phase = "MSG_OUT"
    <3>1. u = Chip!MessageOut
      BY <1>4, <2>1 DEF Chip!Follows
    <3>2. QED
      BY <2>1, <3>1 DEF Chip!MessageOut, Chip!When, Chip!Nothing, Stays, Silent, Goes, Fields,
                        Busy, Chip!DataPhases
  <2>2. CASE in.phase = "COMMAND"
    <3>1. u = Chip!CdbByte
      BY <1>4, <2>2 DEF Chip!Follows
    <3>2. QED
      BY <2>2, <3>1 DEF Chip!CdbByte, Chip!When, Chip!Nothing, Stays, Silent, Goes, Fields, Busy,
                        Chip!DataPhases
  <2>3. CASE in.phase = "DATA_OUT"
    <3>1. u = Chip!DataOut
      BY <1>4, <2>3 DEF Chip!Follows
    <3>2. QED
      BY <3>1 DEF Chip!DataOut, Chip!Nothing, Stays, Silent, Goes, Fields, Busy
  <2>4. CASE in.phase = "DATA_IN"
    <3>1. u = Chip!DataIn(in)
      BY <1>4, <2>4 DEF Chip!Follows
    <3>2. QED
      BY <3>1 DEF Chip!DataIn, Chip!When, Chip!Nothing, Chip!@@, Stays, Silent, Goes, Fields, Busy
  <2>5. CASE in.phase \in {"STATUS", "MSG_IN"}
    BY <1>4, <2>5 DEF Chip!Follows, Stays, Silent, Goes, Fields, Busy, Chip!DataPhases
  <2>6. QED BY <2>1, <2>2, <2>3, <2>4, <2>5 DEF Phases
<1>5. QED BY <1>1, <1>2, <1>3, <1>4

\* A Select-and-Transfer goes on among its own states until its result.
LEMMA TransferRuns ==
    ASSUME NEW in, in.phase \in Phases,
           wd.state \in Busy, wd.state \notin {"ST_SEL_ASSERT", "ST_SEL_WAIT", "ST_SEL_DONE"}
    PROVE  LET u == Chip!Sequencer(in)
           IN  Stays(u) /\ (Silent(u) \/ Goes(u, Busy) \/ Ends(u))
<1>1. Chip!Sequencer(in) = Chip!Transfer(in)
  BY DEF Chip!Sequencer, Chip!PolledStates, Busy
<1>2. Stays(Chip!SatTimedOut) /\ Ends(Chip!SatTimedOut)
  BY DEF Chip!SatTimedOut, Chip!TimedOut, Chip!Result, Chip!@@, Stays, Ends, Rest
<1> DEFINE timer == [sel_timer |-> wd.sel_timer + 1]
<1>3. Stays(timer) /\ Silent(timer)
  BY DEF Stays, Silent, Fields
<1>4. CASE wd.state = "ST_SAT_SEL"
  <2> DEFINE asserts == [sel |-> TRUE, data_latch |-> Chip!SelectionOf(wd.dest),
                         state |-> "ST_SAT_WAIT"]
  <2>1. Chip!Transfer(in) = Chip!Asserts(in, "ST_SAT_WAIT", Chip!SatTimedOut)
    BY <1>4 DEF Chip!Transfer
  <2>2. Chip!Asserts(in, "ST_SAT_WAIT", Chip!SatTimedOut)
            \in {Chip!@@(asserts, timer), Chip!@@(Chip!SatTimedOut, timer), Chip!@@(Chip!Nothing, timer)}
    BY DEF Chip!Asserts, Chip!When
  <2>3. Stays(asserts) /\ Goes(asserts, Busy)
    BY DEF Stays, Goes, Fields, Busy
  <2> HIDE DEF asserts, timer
  <2>4. QED
    BY <1>1, <1>2, <1>3, <2>1, <2>2, <2>3, NothingIsSilent,
       SilentMerge, GoesMerge, EndsMerge, StaysMerge
<1>5. CASE wd.state = "ST_SAT_WAIT"
  <2> DEFINE selected == Chip!@@([sel |-> FALSE], [cmd_phase |-> Chip!CP_SELECTED, state |-> "ST_SAT_PHASE"])
  <2>1. Chip!Transfer(in) = Chip!Waits(in, [cmd_phase |-> Chip!CP_SELECTED, state |-> "ST_SAT_PHASE"], Chip!SatTimedOut)
    BY <1>5 DEF Chip!Transfer
  <2>2. Chip!Transfer(in)
            \in {Chip!@@(selected, timer), Chip!@@(Chip!SatTimedOut, timer), Chip!@@(Chip!Nothing, timer)}
    BY <2>1 DEF Chip!Waits, Chip!When
  <2>3. Stays(selected) /\ Goes(selected, Busy)
    BY DEF Chip!@@, Stays, Goes, Fields, Busy
  <2> HIDE DEF selected, timer
  <2>4. QED
    BY <1>1, <1>2, <1>3, <2>2, <2>3, NothingIsSilent,
       SilentMerge, GoesMerge, EndsMerge, StaysMerge
<1>6. CASE wd.state = "ST_SAT_PHASE"
  <2> DEFINE drops == Chip!When(~in.bsy \/ in.phase # "DATA_IN", [din_ahead |-> <<>>])
             settles == [pause_cnt |-> IF wd.pause_cnt = PAUSE THEN 0 ELSE wd.pause_cnt + 1]
             pause == Chip!@@([cip |-> FALSE, dbr |-> FALSE, paused |-> TRUE, state |-> "ST_IDLE"],
                      Chip!Result(<<IF in.phase = "DATA_IN" THEN "S_PAUSE_READ" ELSE "S_PAUSE_WRITE">>))
  <2>1. Chip!Transfer(in) = Chip!@@(Chip!@@(Chip!Follows(in), Chip!Pauses(in)), drops)
    BY <1>6 DEF Chip!Transfer
  <2>2. Stays(drops) /\ Silent(drops)
    BY DEF Chip!When, Chip!Nothing, Stays, Silent, Fields
  <2>3. Stays(settles) /\ Silent(settles)
    BY DEF Stays, Silent, Fields
  <2>4. Stays(pause) /\ Ends(pause)
    BY DEF Chip!Result, Chip!@@, Stays, Ends, Rest
  <2>5. CASE in.bsy /\ in.req /\ wd.count = 0 /\ in.phase \in Chip!DataPhases
    <3>1. Chip!Pauses(in) \in {Chip!@@(settles, pause), Chip!@@(settles, Chip!Nothing)}
      BY <2>5 DEF Chip!Pauses, Chip!When
    <3>2. Stays(Chip!Follows(in)) /\ Silent(Chip!Follows(in))
      BY <2>5, FollowingRuns
    <3> HIDE DEF drops, settles, pause
    <3>3. Stays(Chip!Pauses(in)) /\ (Silent(Chip!Pauses(in)) \/ Ends(Chip!Pauses(in)))
      BY <2>3, <2>4, <3>1, NothingIsSilent, SilentMerge, EndsMerge, StaysMerge
    <3>4. QED BY <1>1, <2>1, <2>2, <3>2, <3>3, SilentMerge, EndsMerge, StaysMerge
  <2>6. CASE ~(in.bsy /\ in.req /\ wd.count = 0 /\ in.phase \in Chip!DataPhases)
    <3>1. Chip!Pauses(in) = [pause_cnt |-> 0]
      BY <2>6 DEF Chip!Pauses
    <3>2. Stays(Chip!Pauses(in)) /\ Silent(Chip!Pauses(in))
      BY <3>1 DEF Stays, Silent, Fields
    <3>3. Stays(Chip!Follows(in)) /\ (Silent(Chip!Follows(in)) \/ Goes(Chip!Follows(in), Busy))
      BY FollowingRuns
    <3> HIDE DEF drops
    <3>4. QED BY <1>1, <2>1, <2>2, <3>2, <3>3, SilentMerge, GoesMerge, StaysMerge
  <2>7. QED BY <2>5, <2>6
<1>7. CASE wd.state = "ST_SAT_DIN"
  <2> DEFINE settles == [din_settle |-> wd.din_settle - 1]
             takes == [data_latch |-> in.din, dma_wdata |-> in.din, dma_req |-> TRUE,
                       din_ahead |-> Chip!AheadTaken(in), state |-> "ST_SAT_DMA"]
             loses == Chip!When(~in.req, [din_req_held |-> FALSE])
  <2>1. Chip!Transfer(in) \in {Chip!@@(settles, loses), Chip!@@(takes, loses)}
    BY <1>7 DEF Chip!Transfer, Chip!Settles
  <2>2. Stays(settles) /\ Silent(settles)
    BY DEF Stays, Silent, Fields
  <2>3. Stays(takes) /\ Goes(takes, Busy)
    BY DEF Stays, Goes, Fields, Busy
  <2>4. Stays(loses) /\ Silent(loses)
    BY DEF Chip!When, Chip!Nothing, Stays, Silent, Fields
  <2> HIDE DEF settles, takes, loses
  <2>5. QED BY <1>1, <2>1, <2>2, <2>3, <2>4, SilentMerge, GoesMerge, StaysMerge
<1>8. CASE wd.state = "ST_SAT_DMA"
  <2> DEFINE drops == [dma_req |-> FALSE, state |-> "ST_SAT_ACK"]
             takes == Chip!When(~wd.dma_dir_in, [data_latch |-> in.dma_rdata])
  <2>1. Chip!Transfer(in) \in {Chip!Nothing, Chip!@@(drops, takes)}
    BY <1>8 DEF Chip!Transfer, Chip!When
  <2>2. Stays(drops) /\ Goes(drops, Busy)
    BY DEF Stays, Goes, Fields, Busy
  <2>3. Stays(takes) /\ Silent(takes)
    BY DEF Chip!When, Chip!Nothing, Stays, Silent, Fields
  <2> HIDE DEF drops, takes
  <2>4. QED BY <1>1, <2>1, <2>2, <2>3, NothingIsSilent, GoesMerge, StaysMerge
<1>9. CASE wd.state = "ST_SAT_ACK"
  <2>1. Chip!Transfer(in) \in {Chip!Nothing, [ack |-> TRUE, state |-> "ST_SAT_REL"]}
    BY <1>9 DEF Chip!Transfer, Chip!When
  <2>2. QED BY <1>1, <2>1, NothingIsSilent DEF Stays, Goes, Fields, Busy
<1>10. CASE wd.state = "ST_SAT_REL"
  <2> DEFINE next == [ack |-> FALSE, state |-> "ST_SAT_PHASE"]
             counts == CASE in.phase = "COMMAND" ->
                              Chip!@@([cmd_phase |-> Chip!CP_CMD_START + wd.cdb_idx + 1],
                                 IF wd.cdb_idx + 1 < wd.cdb_len THEN [cdb_idx |-> wd.cdb_idx + 1]
                                 ELSE [cdb_sent |-> TRUE])
                         [] in.phase \in Chip!DataPhases -> Chip!Counted
                         [] in.phase = "MSG_IN"     -> [cmd_phase |-> Chip!CP_COMPLETE_MSG]
                         [] OTHER                   -> Chip!Nothing
  <2>1. Chip!Transfer(in) \in {Chip!Nothing, Chip!@@(next, counts)}
    BY <1>10 DEF Chip!Transfer, Chip!Releases, Chip!When
  <2>2. Stays(next) /\ Goes(next, Busy)
    BY DEF Stays, Goes, Fields, Busy
  <2>3. Stays(counts) /\ Silent(counts)
    <3>1. DOMAIN Chip!Counted \subseteq {"count", "cmd_phase"}
      BY DEF Chip!Counted, Chip!When, Chip!Nothing, Chip!@@
    <3>2. DOMAIN counts \subseteq {"count", "cmd_phase", "cdb_idx", "cdb_sent"}
      BY <3>1 DEF Chip!Nothing, Chip!@@, Chip!DataPhases, Phases
    <3>3. QED BY <3>2 DEF Stays, Silent, Fields
  <2> HIDE DEF next, counts
  <2>4. QED BY <1>1, <2>1, <2>2, <2>3, NothingIsSilent, GoesMerge, StaysMerge
<1>11. CASE wd.state = "ST_SAT_END"
  <2>1. Chip!Transfer(in) = Chip!SatEnds
    BY <1>11 DEF Chip!Transfer
  <2>2. Stays(Chip!SatEnds) /\ Ends(Chip!SatEnds)
    BY DEF Chip!SatEnds, Chip!Result, Chip!@@, Stays, Ends, Rest
  <2>3. QED BY <1>1, <2>1, <2>2
<1>12. QED
  BY <1>4, <1>5, <1>6, <1>7, <1>8, <1>9, <1>10, <1>11 DEF Busy

LEMMA SequencerRuns ==
    ASSUME NEW in, in.phase \in Phases, ChipInv
    PROVE  LET u == Chip!Sequencer(in)
           IN  /\ Stays(u)
               /\ Silent(u) \/ Goes(u, Busy) \/ Goes(u, Chip!PolledStates) \/ Ends(u)
               /\ Goes(u, Busy) => wd.state \in Busy
               /\ Goes(u, Chip!PolledStates) => wd.state \in Chip!PolledStates
               /\ wd.int_pending => "status" \notin DOMAIN u /\ "int_pending" \notin DOMAIN u
<1> DEFINE u == Chip!Sequencer(in)
<1>1. /\ Goes(u, Busy) => ~Goes(u, Chip!PolledStates)
      /\ Ends(u) => ~Goes(u, Busy) /\ ~Goes(u, Chip!PolledStates)
  BY DEF Goes, Ends, Rest, Busy, Chip!PolledStates
<1>2. Silent(u) => "state" \notin DOMAIN u /\ "status" \notin DOMAIN u /\ "int_pending" \notin DOMAIN u
  BY DEF Silent, Fields
<1>3. (Goes(u, Busy) \/ Goes(u, Chip!PolledStates)) => "state" \in DOMAIN u
  BY DEF Goes
<1>4. CASE wd.state \in Rest
  <2>1. Stays(u) /\ (Silent(u) \/ Ends(u))
    BY <1>4, SequencerAtRest
  <2>2. wd.int_pending => "status" \notin DOMAIN u /\ "int_pending" \notin DOMAIN u
    BY <1>2, <1>4, SequencerAtRest
  <2>3. QED BY <1>1, <1>2, <1>3, <2>1, <2>2
<1>5. CASE wd.state \in Busy
  <2>1. ~wd.int_pending
    BY <1>5 DEF ChipInv, Rest, Busy
  <2>2. Stays(u) /\ (Silent(u) \/ Goes(u, Busy) \/ Ends(u))
    BY <1>5, SelectionRuns, TransferRuns
  <2>3. QED BY <1>1, <1>2, <1>3, <1>5, <2>1, <2>2
<1>6. CASE wd.state \in Chip!PolledStates
  <2>1. ~wd.int_pending
    BY <1>6 DEF ChipInv, Rest, Chip!PolledStates
  <2>2. Stays(u) /\ (Silent(u) \/ Goes(u, Chip!PolledStates) \/ Ends(u))
    BY <1>6, PolledRuns
  <2>3. QED BY <1>1, <1>2, <1>3, <1>6, <2>1, <2>2
<1>7. QED BY <1>4, <1>5, <1>6 DEF ChipInv

\* A transfer waits for the channel.
LEMMA WaitsForChannel ==
    ASSUME NEW in, wd.state = "ST_SAT_DMA", ~in.dma_ack
    PROVE  Silent(Chip!Sequencer(in))
<1>1. Chip!Sequencer(in) = Chip!Transfer(in)
  BY DEF Chip!Sequencer, Chip!PolledStates
<1>2. Chip!Transfer(in) = Chip!Nothing
  BY DEF Chip!Transfer, Chip!When
<1>3. QED BY <1>1, <1>2, NothingIsSilent

-----------------------------------------------------------------------------
(* The registers after a clock.                                            *)

LEMMA View ==
    ASSUME ChipInv, NEW in, Chip!Clock(in), NEW f \in Fields \union {"cdb_len"}
    PROVE  /\ f \in DOMAIN wd'
           /\ f \in DOMAIN Chip!Sequencer(in) => wd'[f] = Chip!Sequencer(in)[f]
           /\ f \notin DOMAIN Chip!Sequencer(in) /\ f \in DOMAIN Chip!Access(in) => wd'[f] = Chip!Access(in)[f]
           /\ /\ f \notin DOMAIN Chip!Sequencer(in) /\ f \notin DOMAIN Chip!Access(in)
              /\ ~in.chip_reset
              => wd'[f] = wd[f]
           /\ /\ f \notin DOMAIN Chip!Sequencer(in) /\ f \notin DOMAIN Chip!Access(in)
              /\ in.chip_reset /\ f \in DOMAIN Chip!ChipReset
              => wd'[f] = Chip!ChipReset[f]
<1> DEFINE u == Chip!Sequencer(in)
           a == Chip!Access(in)
           rst == Chip!When(in.chip_reset, Chip!ChipReset)
           d == Chip!Defaults(in)
<1>1. wd' = Chip!@@(Chip!@@(Chip!@@(Chip!@@(u, a), rst), d), wd)
  BY DEF Chip!Clock
<1>2. f \notin DOMAIN d
  <2>1. DOMAIN d \subseteq {"bsy_q", "dma_eop", "rst_timer", "pio_done", "din_ahead"}
    BY DEF Chip!Defaults, Chip!When, Chip!Nothing, Chip!@@
  <2>2. QED BY <2>1 DEF Fields
<1>3. rst = (IF in.chip_reset THEN Chip!ChipReset ELSE Chip!Nothing) /\ DOMAIN Chip!Nothing = {}
  BY NothingIsSilent DEF Chip!When
<1>4. f \in DOMAIN wd
  BY DEF ChipInv
<1> HIDE DEF rst, d
<1>5. QED BY <1>1, <1>2, <1>3, <1>4 DEF Chip!@@

-----------------------------------------------------------------------------
(* The driver's access.                                                    *)

LoadsLength(in) == in.access.kind = "load" /\ "cdb_len" \in DOMAIN in.access.regs

\* One that gives no command, and loads none of the registers.
Plain(in) ==
    /\ in.access.kind # "command"
    /\ in.access.kind = "load" => Silent(in.access.regs)

LEMMA PlainAccess ==
    ASSUME NEW in, Plain(in)
    PROVE  LET u == Chip!Access(in)
           IN  /\ Fields \intersect DOMAIN u \subseteq {"int_pending"}
               /\ "int_pending" \in DOMAIN u => u.int_pending = FALSE
               /\ ~LoadsLength(in) => Stays(u)
               /\ LoadsLength(in) => "cdb_len" \in DOMAIN u /\ u.cdb_len = in.access.regs.cdb_len
<1>1. CASE in.access.kind = "load"
  <2>1. Chip!Access(in) = in.access.regs
    BY <1>1 DEF Chip!Access
  <2>2. QED BY <1>1, <2>1 DEF Plain, Silent, Fields, LoadsLength, Stays
<1>2. CASE in.access.kind = "read_status"
  BY <1>2 DEF Chip!Access, Fields, Stays, LoadsLength
<1>3. CASE in.access.kind = "write_data"
  BY <1>3 DEF Chip!Access, Fields, Stays, LoadsLength
<1>4. CASE in.access.kind = "read_data"
  BY <1>4 DEF Chip!Access, Fields, Stays, LoadsLength
<1>5. CASE in.access.kind \notin {"load", "read_status", "write_data", "read_data"}
  <2>1. Chip!Access(in) = Chip!Nothing
    BY <1>5 DEF Chip!Access, Plain
  <2>2. QED BY <1>5, <2>1, NothingIsSilent DEF Silent, LoadsLength
<1>6. QED BY <1>1, <1>2, <1>3, <1>4, <1>5

\* The commands the driver gives.
Selects == {"C_SEL_ATN_XFER", "C_SELECT_ATN"}
Issued == Selects \union {"C_TRANSFER_INFO", "C_XFER_INFO_SBT", "C_NEGATE_ACK", "C_DISCONNECT"}

\* A command that is refused touches nothing.  One that is taken starts from a
\* chip without a result; only C_DISCONNECT gives one at once.
LEMMA CommandAccess ==
    ASSUME NEW in, in.access.kind = "command", in.access.value \in Issued,
           in.access.value = "C_SEL_ATN_XFER" => wd.cdb_len # 0, wd.state \notin Busy,
           in.access.value = "C_DISCONNECT" => wd.state \notin Chip!PolledStates
    PROVE  LET u == Chip!Access(in)
           IN  /\ Stays(u)
               /\ Silent(u) \/ ~wd.int_pending
               /\ "state" \in DOMAIN u => "int_pending" \notin DOMAIN u
               /\ "state" \in DOMAIN u => u.state \in Busy \union Chip!PolledStates
               /\ "state" \in DOMAIN u /\ u.state \in Busy => "cip" \in DOMAIN u /\ u.cip
               /\ in.access.value = "C_DISCONNECT" => "state" \notin DOMAIN u
               /\ in.access.value # "C_DISCONNECT" =>
                      "int_pending" \notin DOMAIN u /\ "status" \notin DOMAIN u
<1> DEFINE c == in.access.value
           ends == Chip!When(c # "C_NEGATE_ACK", [pio_done |-> FALSE])
           taken == [lci |-> FALSE]
<1>1. Chip!Access(in) = Chip!Command(c, in)
  BY DEF Chip!Access
<1>2. CASE Chip!Refuses(c)
  <2>1. Chip!Access(in) = [lci |-> TRUE]
    BY <1>1, <1>2 DEF Chip!Command
  <2>2. QED BY <2>1 DEF Stays, Silent, Fields
<1>3. CASE ~Chip!Refuses(c)
  <2>1. ~wd.int_pending
    BY <1>3 DEF Chip!Refuses, Issued, Selects
  <2>2. DOMAIN ends \subseteq {"pio_done"} /\ DOMAIN taken = {"lci"}
    BY DEF Chip!When, Chip!Nothing
  <2>3. CASE c = "C_SELECT_ATN"
    <3>1. Chip!Access(in) = Chip!@@(Chip!@@(Chip!Select(TRUE), taken), ends)
      BY <1>1, <1>3, <2>3 DEF Chip!Command
    <3> HIDE DEF taken, ends
    <3>2. QED
      BY <2>1, <2>2, <2>3, <3>1 DEF Chip!Select, Chip!@@, Stays, Busy, Chip!PolledStates
  <2>4. CASE c \in {"C_TRANSFER_INFO", "C_XFER_INFO_SBT"}
    <3>1. \E sbt \in BOOLEAN : Chip!Access(in) = Chip!@@(Chip!@@(Chip!TransferInfo(sbt, in), taken), ends)
      BY <1>1, <1>3, <2>4 DEF Chip!Command
    <3> HIDE DEF taken, ends
    <3>2. QED
      BY <2>1, <2>2, <2>4, <3>1 DEF Chip!TransferInfo, Chip!@@, Stays, Busy, Chip!PolledStates
  <2>5. CASE c = "C_SEL_ATN_XFER"
    <3>1. Chip!Access(in) = Chip!@@(Chip!@@(Chip!SelectAndTransfer(TRUE, in), taken), ends)
      BY <1>1, <1>3, <2>5 DEF Chip!Command
    <3> HIDE DEF taken, ends
    <3>2. QED
      BY <2>1, <2>2, <2>5, <3>1 DEF Chip!SelectAndTransfer, Chip!@@, Stays, Busy, Chip!PolledStates
  <2>6. CASE c = "C_NEGATE_ACK"
    <3>1. Chip!Access(in) = Chip!@@(Chip!@@(Chip!NegateAck, taken), ends)
      BY <1>1, <1>3, <2>6 DEF Chip!Command
    <3> HIDE DEF taken, ends
    <3>2. QED
      BY <2>1, <2>2, <2>6, <3>1 DEF Chip!NegateAck, Chip!When, Chip!Nothing, Chip!@@, Stays,
                                    Busy, Chip!PolledStates
  <2>7. CASE c = "C_DISCONNECT"
    <3>1. Chip!Access(in) = Chip!@@(Chip!@@(Chip!Disconnect, taken), ends)
      BY <1>1, <1>3, <2>7 DEF Chip!Command
    <3>2. Chip!Disconnect = Chip!@@(Chip!@@([sel |-> FALSE, ack |-> FALSE, atn |-> FALSE, pio_xfer |-> FALSE,
                        pio_ack_held |-> FALSE, cmd_phase |-> Chip!CP_DISCONNECTED],
                       Chip!Nothing), Chip!Result(<<"S_DISCONNECT">>))
      BY <2>7 DEF Chip!Disconnect, Chip!When
    <3> HIDE DEF taken, ends
    <3>3. QED
      BY <2>1, <2>2, <2>7, <3>1, <3>2, NothingIsSilent DEF Chip!Result, Chip!@@, Stays
  <2>8. QED BY <2>3, <2>4, <2>5, <2>6, <2>7 DEF Issued, Selects
<1>4. QED BY <1>2, <1>3

-----------------------------------------------------------------------------
(* The clock.                                                              *)

LEMMA PlainClock ==
    ASSUME ChipInv, NEW in, in.phase \in Phases, Chip!Clock(in), Plain(in), ~in.chip_reset
    PROVE  /\ ChipInv' /\ Kept
           /\ wd.state \in Rest => wd'.state \in Rest
           /\ wd.state \notin Chip!PolledStates => wd'.state \notin Chip!PolledStates
           /\ wd.state = "ST_SAT_DMA" /\ ~in.dma_ack => wd'.state = "ST_SAT_DMA"
           /\ wd'.cdb_len = IF LoadsLength(in) THEN in.access.regs.cdb_len ELSE wd.cdb_len
<1> DEFINE u == Chip!Sequencer(in)
           a == Chip!Access(in)
<1>1. /\ "state" \notin DOMAIN a /\ "status" \notin DOMAIN a /\ "cip" \notin DOMAIN a
      /\ "int_pending" \in DOMAIN a => a.int_pending = FALSE
      /\ ~LoadsLength(in) => "cdb_len" \notin DOMAIN a
      /\ LoadsLength(in) => "cdb_len" \in DOMAIN a /\ a.cdb_len = in.access.regs.cdb_len
  <2>1. /\ Fields \intersect DOMAIN a \subseteq {"int_pending"}
        /\ "int_pending" \in DOMAIN a => a.int_pending = FALSE
        /\ ~LoadsLength(in) => Stays(a)
        /\ LoadsLength(in) => "cdb_len" \in DOMAIN a /\ a.cdb_len = in.access.regs.cdb_len
    BY PlainAccess
  <2>2. QED BY <2>1 DEF Fields, Stays
<1>2. Fields \union {"cdb_len"} \subseteq DOMAIN wd'
  BY View DEF Fields
<1>3. /\ "state" \in DOMAIN u => wd'.state = u.state
      /\ "state" \notin DOMAIN u => wd'.state = wd.state
  BY <1>1, View DEF Fields
<1>4. "status" \notin DOMAIN u => wd'.status = wd.status
  BY <1>1, View DEF Fields
<1>5. "int_pending" \notin DOMAIN u /\ wd'.int_pending => wd.int_pending
  BY <1>1, View DEF Fields
<1>6. "cip" \notin DOMAIN u => wd'.cip = wd.cip
  BY <1>1, View DEF Fields
<1>7. wd'.cdb_len = IF LoadsLength(in) THEN in.access.regs.cdb_len ELSE wd.cdb_len
  BY <1>1, View, SequencerRuns DEF Stays
<1>8. CASE Silent(u)
  BY <1>2, <1>3, <1>4, <1>5, <1>6, <1>7, <1>8 DEF Silent, Fields, ChipInv, Kept
<1>9. CASE Goes(u, Busy)
  <2>1. wd.state \in Busy
    BY <1>9, SequencerRuns
  <2>2. ~wd.int_pending
    BY <2>1 DEF ChipInv, Rest, Busy
  <2>3. wd'.state \in Busy /\ ~wd'.int_pending /\ wd'.cip
    BY <1>3, <1>5, <1>6, <1>9, <2>1, <2>2 DEF Goes, Fields, ChipInv
  <2>4. wd.state # "ST_SAT_DMA" \/ in.dma_ack
    BY <1>9, WaitsForChannel DEF Goes, Silent
  <2>5. QED
    BY <1>2, <1>7, <2>1, <2>2, <2>3, <2>4 DEF ChipInv, Kept, Rest, Busy, Chip!PolledStates
<1>10. CASE Goes(u, Chip!PolledStates)
  <2>1. wd.state \in Chip!PolledStates
    BY <1>10, SequencerRuns
  <2>2. ~wd.int_pending
    BY <2>1 DEF ChipInv, Rest, Chip!PolledStates
  <2>3. wd'.state \in Chip!PolledStates /\ ~wd'.int_pending
    BY <1>3, <1>5, <1>10, <2>2 DEF Goes, Fields
  <2>4. QED
    BY <1>2, <1>7, <2>1, <2>2, <2>3 DEF ChipInv, Kept, Rest, Busy, Chip!PolledStates
<1>11. CASE Ends(u)
  <2>1. wd'.state \in Rest
    BY <1>3, <1>11 DEF Ends
  <2>2. wd.state # "ST_SAT_DMA" \/ in.dma_ack
    BY <1>11, WaitsForChannel DEF Ends, Silent, Fields
  <2>3. Kept
    BY <1>4, SequencerRuns DEF Kept
  <2>4. QED
    BY <1>2, <1>7, <2>1, <2>2, <2>3 DEF ChipInv, Rest, Busy, Chip!PolledStates
<1>12. QED BY <1>8, <1>9, <1>10, <1>11, SequencerRuns

\* A command: it is given when CIP is down, a disconnect only to a chip in no
\* polled transfer.
LEMMA CommandClock ==
    ASSUME ChipInv, NEW in, in.phase \in Phases, Chip!Clock(in), ~in.chip_reset,
           in.access.kind = "command", in.access.value \in Issued,
           ~wd.cip, in.access.value = "C_SEL_ATN_XFER" => wd.cdb_len # 0,
           in.access.value = "C_DISCONNECT" => wd.state \notin Chip!PolledStates
    PROVE  /\ ChipInv' /\ Kept
           /\ in.access.value = "C_DISCONNECT" => wd'.state \in Rest
           /\ wd'.cdb_len = wd.cdb_len
<1> DEFINE u == Chip!Sequencer(in)
           a == Chip!Access(in)
           c == in.access.value
<1>1. wd.state \in Rest \union Chip!PolledStates /\ wd.state \notin Busy
  BY DEF ChipInv, Rest, Busy, Chip!PolledStates
<1>2. /\ Stays(a)
      /\ Silent(a) \/ ~wd.int_pending
      /\ "state" \in DOMAIN a => "int_pending" \notin DOMAIN a
      /\ "state" \in DOMAIN a => a.state \in Busy \union Chip!PolledStates
      /\ "state" \in DOMAIN a /\ a.state \in Busy => "cip" \in DOMAIN a /\ a.cip
      /\ c = "C_DISCONNECT" => "state" \notin DOMAIN a
      /\ c # "C_DISCONNECT" => "int_pending" \notin DOMAIN a /\ "status" \notin DOMAIN a
  BY <1>1, CommandAccess
<1>3. /\ Stays(u)
      /\ Silent(u) \/ Goes(u, Chip!PolledStates) \/ Ends(u)
      /\ Goes(u, Chip!PolledStates) => wd.state \in Chip!PolledStates
      /\ wd.int_pending => "status" \notin DOMAIN u /\ "int_pending" \notin DOMAIN u
  BY <1>1, SequencerRuns
<1>4. Fields \union {"cdb_len"} \subseteq DOMAIN wd'
  BY View DEF Fields
<1>5. wd'.cdb_len = wd.cdb_len
  BY <1>2, <1>3, View DEF Stays
<1>6. /\ "state" \in DOMAIN u => wd'.state = u.state
      /\ "state" \notin DOMAIN u /\ "state" \in DOMAIN a => wd'.state = a.state
      /\ "state" \notin DOMAIN u /\ "state" \notin DOMAIN a => wd'.state = wd.state
  BY View DEF Fields
<1>7. "int_pending" \notin DOMAIN u /\ "int_pending" \notin DOMAIN a
      => wd'.int_pending = wd.int_pending
  BY View DEF Fields
<1>8. "cip" \notin DOMAIN u /\ "cip" \in DOMAIN a => wd'.cip = a.cip
  BY View DEF Fields
<1>9. Kept
  <2>1. SUFFICES ASSUME wd.int_pending PROVE wd'.status = wd.status
    BY DEF Kept
  <2>2. "status" \notin DOMAIN u /\ "status" \notin DOMAIN a
    BY <1>2, <1>3, <2>1 DEF Silent, Fields
  <2>3. QED BY <2>2, View DEF Fields
<1>10. CASE Silent(u)
  <2>1. /\ "state" \notin DOMAIN u /\ "int_pending" \notin DOMAIN u /\ "cip" \notin DOMAIN u
    BY <1>10 DEF Silent, Fields
  <2>2. CASE "state" \in DOMAIN a
    <3>1. ~wd.int_pending
      BY <1>2, <2>2 DEF Silent, Fields
    <3>2. ~wd'.int_pending
      BY <1>2, <1>7, <2>1, <2>2, <3>1
    <3>3. wd'.state \in Busy \union Chip!PolledStates /\ (wd'.state \in Busy => wd'.cip)
      BY <1>2, <1>6, <1>8, <2>1, <2>2
    <3>4. QED BY <1>2, <1>4, <1>5, <1>9, <2>2, <3>2, <3>3 DEF ChipInv
  <2>3. CASE "state" \notin DOMAIN a
    <3>1. wd'.state = wd.state
      BY <1>6, <2>1, <2>3
    <3>2. c = "C_DISCONNECT" => wd.state \in Rest
      BY <1>1
    <3>3. wd'.int_pending => wd'.state \in Rest
      BY <1>2, <1>7, <2>1, <3>1, <3>2 DEF ChipInv
    <3>4. QED BY <1>1, <1>4, <1>5, <1>9, <3>1, <3>2, <3>3 DEF ChipInv
  <2>4. QED BY <2>2, <2>3
<1>11. CASE Goes(u, Chip!PolledStates)
  <2>1. wd.state \in Chip!PolledStates /\ c # "C_DISCONNECT"
    BY <1>3, <1>11
  <2>2. ~wd.int_pending
    BY <2>1 DEF ChipInv, Rest, Chip!PolledStates
  <2>3. wd'.state \in Chip!PolledStates /\ ~wd'.int_pending
    BY <1>2, <1>6, <1>7, <1>11, <2>1, <2>2 DEF Goes, Fields
  <2>4. QED BY <1>4, <1>5, <1>9, <2>1, <2>3 DEF ChipInv, Busy, Chip!PolledStates
<1>12. CASE Ends(u)
  <2>1. wd'.state \in Rest
    BY <1>6, <1>12 DEF Ends
  <2>2. QED BY <1>4, <1>5, <1>9, <2>1 DEF ChipInv, Rest, Busy
<1>13. QED BY <1>3, <1>10, <1>11, <1>12

\* The channel's reset, of a chip that rests or waits for the channel.
LEMMA ResetClock ==
    ASSUME ChipInv, NEW in, in.phase \in Phases, Chip!Clock(in),
           in.access.kind = "none", in.chip_reset,
           wd.state \in Rest \/ (wd.state = "ST_SAT_DMA" /\ ~in.dma_ack)
    PROVE  ChipInv' /\ Kept /\ wd'.state \in Rest /\ wd'.cdb_len = wd.cdb_len
<1> DEFINE u == Chip!Sequencer(in)
           a == Chip!Access(in)
<1>1. a = Chip!Nothing /\ DOMAIN a = {}
  BY NothingIsSilent DEF Chip!Access
<1>2. /\ "cdb_len" \notin DOMAIN u
      /\ Silent(u) \/ Ends(u)
      /\ wd.int_pending => "status" \notin DOMAIN u
  BY SequencerRuns, SequencerAtRest, WaitsForChannel DEF Stays
<1>3. /\ {"state", "status"} \subseteq DOMAIN Chip!ChipReset /\ "cdb_len" \notin DOMAIN Chip!ChipReset
      /\ Chip!ChipReset.state = "ST_IDLE" /\ Chip!ChipReset.status = <<"S_RESET">>
  BY DEF Chip!ChipReset, Chip!Result, Chip!@@
<1>4. Fields \union {"cdb_len"} \subseteq DOMAIN wd'
  BY View DEF Fields
<1>5. wd'.state \in Rest
  BY <1>1, <1>2, <1>3, View DEF Silent, Ends, Fields, Rest
<1>6. Kept
  BY <1>1, <1>2, <1>3, View DEF Kept, Fields
<1>7. wd'.cdb_len = wd.cdb_len
  <2>1. wd' = Chip!@@(Chip!@@(Chip!@@(Chip!@@(u, a), Chip!ChipReset), Chip!Defaults(in)), wd)
    BY DEF Chip!Clock, Chip!When
  <2>2. DOMAIN Chip!Defaults(in) \subseteq {"bsy_q", "dma_eop", "rst_timer", "pio_done", "din_ahead"}
    BY DEF Chip!Defaults, Chip!When, Chip!Nothing, Chip!@@
  <2>3. "cdb_len" \in DOMAIN wd
    BY DEF ChipInv
  <2>4. QED BY <1>1, <1>2, <1>3, <2>1, <2>2, <2>3 DEF Chip!@@
<1>8. QED BY <1>4, <1>5, <1>6, <1>7 DEF ChipInv, Rest, Busy

-----------------------------------------------------------------------------
(* The inductive invariant.                                                *)

Polling == Chip!PolledStates

\* Nothing moves in the chip until the driver, or more room, makes it.
Quiet ==
    \/ wd.state \in Rest
    \/ wd.state = "ST_SAT_DMA" /\ ~chan.ack /\ ~(chan.moved < chan.room)

ChanInv == {"ack", "moved", "room"} \subseteq DOMAIN chan /\ chan.moved \in Nat

Giving == {"issue", "check"}

\* Where the driver is, and what it does after a command.
DrvOk(d) ==
    /\ DOMAIN d = {"pc", "jobs", "seg", "cmd", "then", "phase", "out"}
    /\ d.jobs \in Seq(Jobs)
    /\ d.pc \in Giving \union {"job", "result", "segment", "selected", "phase", "serve", "bytes"}
    /\ d.pc # "job" => d.cmd \in Issued
    /\ d.pc \in Giving => d.then \in {"result", "selected", "phase", "bytes", "next"}
    /\ d.pc \in Giving => (d.then = "next" <=> d.cmd = "C_DISCONNECT")
    /\ d.pc \notin Giving \union {"job"} => d.cmd # "C_DISCONNECT"
DrvInv == DrvOk(drv)

\* What it may rely on there.
Relies ==
    /\ drv.cmd = "C_SEL_ATN_XFER" => wd.cdb_len # 0
    /\ drv.pc = "job" => Quiet
    /\ drv.pc = "issue" /\ drv.cmd = "C_DISCONNECT" => wd.state \notin Polling
    /\ drv.pc = "check" /\ drv.cmd = "C_DISCONNECT" => wd.state \in Rest

IInv == ChipInv /\ ChanInv /\ DrvInv /\ Relies

LEMMA InitInv == Init => IInv
<1> SUFFICES ASSUME Init PROVE IInv
  OBVIOUS
<1>1. ChipInv /\ wd.state = "ST_IDLE"
  BY DEF Init, Chip!Init, ChipInv, Fields, Rest, Busy, Chip!PolledStates
<1>2. ChanInv
  BY DEF Init, Armed, ChanInv
<1>3. DrvInv /\ drv.pc = "job" /\ drv.cmd = ""
  <2>1. drv \in [pc : {"job"}, jobs : Plans, seg : {1}, cmd : {""}, then : {""},
                 phase : {""}, out : {<<>>}]
    BY DEF Init
  <2>2. drv.jobs \in Seq(Jobs)
    BY <2>1, PlanAssumption
  <2>3. QED BY <2>1, <2>2 DEF DrvInv, DrvOk, Giving
<1>4. Relies
  BY <1>1, <1>3 DEF Relies, Quiet, Rest, Rest
<1>5. QED BY <1>1, <1>2, <1>3, <1>4 DEF IInv

-----------------------------------------------------------------------------
(* A clock of the bus.                                                     *)

\* What the chip sees of it.
Seen(step) ==
    [chip_reset |-> step.reset, access |-> step.access,
     bsy |-> Target!Bsy, req |-> Target!Req(wd.ack, io_ack),
     phase |-> Target!BusPhase, din |-> Target!Dout,
     ahead |-> Target!Ahead, ahead_ok |-> Target!AheadOk,
     dma_ack |-> chan.ack, dma_rdata |-> <<"mem", chan.moved>>]

LEMMA ClockSeen ==
    ASSUME NEW d, NEW c, NEW step, ClockWith(d, c, step)
    PROVE  /\ Chip!Clock(Seen(step))
           /\ Seen(step).phase \in Phases
           /\ Seen(step).chip_reset = step.reset /\ Seen(step).access = step.access
           /\ Seen(step).dma_ack = chan.ack
           /\ drv' = step.next /\ ChanClock(c, step.arms)
<1>1. Chip!Clock(Seen(step)) /\ drv' = step.next /\ ChanClock(c, step.arms)
  BY DEF ClockWith, Seen
<1>2. Target!BusPhase \in Phases
  BY DEF Target!BusPhase, Phases
<1>3. /\ Seen(step).phase = Target!BusPhase
      /\ Seen(step).chip_reset = step.reset /\ Seen(step).access = step.access
      /\ Seen(step).dma_ack = chan.ack
  BY DEF Seen
<1>4. QED BY <1>1, <1>2, <1>3

\* What the driver arms the channel with.
Arms(step) ==
    \/ step.arms = {}
    \/ \E a : /\ step.arms = {a}
             /\ {"ack", "moved", "room"} \subseteq DOMAIN a /\ a.moved \in Nat

LEMMA ChanStep ==
    ASSUME ChanInv, NEW c \in BOOLEAN, c => ChanCanMove,
           NEW step, Arms(step), ChanClock(c, step.arms)
    PROVE  /\ ChanInv'
           /\ step.arms = {} /\ ~chan.ack /\ ~(chan.moved < chan.room)
              => ~chan'.ack /\ ~(chan'.moved < chan'.room)
<1>1. CASE step.arms = {}
  <2> DEFINE next == [chan EXCEPT
                        !.ack = c,
                        !.moved = IF c THEN @ + 1 ELSE @,
                        !.got = IF c /\ wd.dma_dir_in THEN Append(@, wd.dma_wdata) ELSE @,
                        !.ended = @ \/ wd.dma_eop]
  <2>1. chan' = next
    BY <1>1 DEF ChanClock
  <2>2. /\ DOMAIN next = DOMAIN chan /\ next.room = chan.room
        /\ next.ack = c /\ next.moved = IF c THEN chan.moved + 1 ELSE chan.moved
    BY DEF ChanInv
  <2> HIDE DEF next
  <2>3. QED BY <2>1, <2>2 DEF ChanInv, ChanCanMove
<1>2. CASE step.arms # {}
  <2>1. PICK a : /\ step.arms = {a}
                 /\ {"ack", "moved", "room"} \subseteq DOMAIN a /\ a.moved \in Nat
    BY <1>2 DEF Arms
  <2>2. chan' = CHOOSE armed \in step.arms : TRUE
    BY <1>2 DEF ChanClock
  <2>3. chan' = a
    BY <2>1, <2>2
  <2>4. QED BY <1>2, <2>1, <2>3 DEF ChanInv
<1>3. QED BY <1>1, <1>2

\* A clock without a command or a reset.
LEMMA PlainStep ==
    ASSUME IInv, NEW d, NEW c \in BOOLEAN, c => ChanCanMove,
           NEW step, ClockWith(d, c, step), Arms(step),
           ~step.reset, Plain(Seen(step))
    PROVE  /\ ChipInv' /\ Kept /\ ChanInv' /\ drv' = step.next
           /\ wd.state \in Rest => wd'.state \in Rest
           /\ wd.state \notin Polling => wd'.state \notin Polling
           /\ Quiet /\ step.arms = {} => Quiet'
           /\ wd'.cdb_len = IF LoadsLength(Seen(step)) THEN step.access.regs.cdb_len
                            ELSE wd.cdb_len
<1> DEFINE in == Seen(step)
<1>1. /\ Chip!Clock(in) /\ in.phase \in Phases
      /\ ~in.chip_reset /\ in.access = step.access /\ in.dma_ack = chan.ack
      /\ drv' = step.next /\ ChanClock(c, step.arms)
  BY ClockSeen
<1>2. /\ ChipInv' /\ Kept
      /\ wd.state \in Rest => wd'.state \in Rest
      /\ wd.state \notin Chip!PolledStates => wd'.state \notin Chip!PolledStates
      /\ wd.state = "ST_SAT_DMA" /\ ~in.dma_ack => wd'.state = "ST_SAT_DMA"
      /\ wd'.cdb_len = IF LoadsLength(in) THEN in.access.regs.cdb_len ELSE wd.cdb_len
  BY <1>1, PlainClock DEF IInv
<1>3. /\ ChanInv'
      /\ step.arms = {} /\ ~chan.ack /\ ~(chan.moved < chan.room)
         => ~chan'.ack /\ ~(chan'.moved < chan'.room)
  BY <1>1, ChanStep DEF IInv
<1>4. QED BY <1>1, <1>2, <1>3 DEF Rest, Polling, Quiet

-----------------------------------------------------------------------------
(* The driver's steps.                                                     *)

LEMMA JobsLeft ==
    ASSUME DrvInv, drv.jobs # <<>>
    PROVE  Job \in Jobs /\ DrvOk(NextJob) /\ NextJob.pc = "job" /\ NextJob.cmd = drv.cmd
<1>1. Head(drv.jobs) \in Jobs /\ Tail(drv.jobs) \in Seq(Jobs)
  BY DEF DrvInv, DrvOk
<1>2. /\ DOMAIN NextJob = DOMAIN drv /\ NextJob.pc = "job" /\ NextJob.cmd = drv.cmd
      /\ NextJob.jobs = Tail(drv.jobs)
  BY DEF NextJob, DrvInv, DrvOk
<1>3. QED BY <1>1, <1>2 DEF Job, DrvInv, DrvOk, Giving

\* The driver goes on with its job, after an access that is none or reads.
LEMMA ReadOn ==
    ASSUME IInv, NEW d, NEW c \in BOOLEAN, c => ChanCanMove,
           NEW step, ClockWith(d, c, step), Arms(step), ~step.reset,
           step.access.kind \in {"none", "read_status", "read_data", "write_data"},
           DrvOk(step.next),
           step.next.cmd = "C_SEL_ATN_XFER" => drv.cmd = "C_SEL_ATN_XFER",
           step.next.pc = "job" => wd.state \in Rest \/ (Quiet /\ step.arms = {}),
           step.next.pc = "issue" /\ step.next.cmd = "C_DISCONNECT" => wd.state \notin Polling,
           step.next.pc = "check" /\ step.next.cmd = "C_DISCONNECT" => wd.state \in Rest
    PROVE  IInv' /\ Kept
<1>1. Plain(Seen(step)) /\ ~LoadsLength(Seen(step))
  BY ClockSeen DEF Plain, LoadsLength
<1>2. /\ ChipInv' /\ Kept /\ ChanInv' /\ drv' = step.next
      /\ wd.state \in Rest => wd'.state \in Rest
      /\ wd.state \notin Polling => wd'.state \notin Polling
      /\ Quiet /\ step.arms = {} => Quiet'
      /\ wd'.cdb_len = wd.cdb_len
  BY <1>1, PlainStep
<1>3. DrvInv'
  BY <1>2 DEF DrvInv
<1>4. Relies'
  BY <1>2 DEF IInv, Relies, Quiet
<1>5. QED BY <1>2, <1>3, <1>4 DEF IInv

\* The driver starts a command: after loading registers, maybe, and giving the
\* channel room.
LEMMA LoadOn ==
    ASSUME IInv, NEW d, NEW c \in BOOLEAN, c => ChanCanMove,
           NEW regs, NEW step, ClockWith(d, c, step), Arms(step), ~step.reset,
           step.access = Load(regs), Fields \intersect DOMAIN regs = {},
           "cdb_len" \in DOMAIN regs => regs.cdb_len # 0,
           DrvOk(step.next), step.next.pc = "issue", step.next.cmd # "C_DISCONNECT",
           \/ step.next.cmd # "C_SEL_ATN_XFER"
           \/ drv.cmd = "C_SEL_ATN_XFER"
           \/ "cdb_len" \in DOMAIN regs
    PROVE  IInv' /\ Kept
<1>1. /\ Seen(step).access = Load(regs)
      /\ Load(regs).kind = "load" /\ Load(regs).regs = regs
  BY ClockSeen DEF Load
<1>2. Plain(Seen(step)) /\ (LoadsLength(Seen(step)) <=> "cdb_len" \in DOMAIN regs)
  BY <1>1 DEF Plain, Silent, LoadsLength
<1>3. /\ ChipInv' /\ Kept /\ ChanInv' /\ drv' = step.next
      /\ wd'.cdb_len = IF "cdb_len" \in DOMAIN regs THEN regs.cdb_len ELSE wd.cdb_len
  BY <1>1, <1>2, PlainStep
<1>4. DrvInv'
  BY <1>3 DEF DrvInv
<1>5. Relies'
  BY <1>3 DEF IInv, Relies
<1>6. QED BY <1>3, <1>4, <1>5 DEF IInv

\* A command is given.
LEMMA Issuing ==
    ASSUME IInv, NEW d, NEW c \in BOOLEAN, c => ChanCanMove,
           ClockWith(d, c, Issues), drv.pc = "issue", ~wd.cip
    PROVE  IInv' /\ Kept
<1> DEFINE in == Seen(Issues)
<1>1. /\ Issues.access = [kind |-> "command", value |-> drv.cmd]
      /\ Issues.next = At("check") /\ Issues.arms = {} /\ ~Issues.reset
  BY DEF Issues, Step
<1>2. /\ Chip!Clock(in) /\ in.phase \in Phases
      /\ ~in.chip_reset /\ in.access = Issues.access
      /\ drv' = At("check") /\ ChanClock(c, {})
  BY <1>1, ClockSeen
<1>3. in.access.kind = "command" /\ in.access.value = drv.cmd
  BY <1>1, <1>2
<1>4. /\ ChipInv' /\ Kept
      /\ drv.cmd = "C_DISCONNECT" => wd'.state \in Rest
      /\ wd'.cdb_len = wd.cdb_len
  BY <1>2, <1>3, CommandClock DEF IInv, Relies, DrvInv, DrvOk, Polling
<1>5. ChanInv'
  BY <1>1, <1>2, ChanStep DEF IInv, Arms
<1>6. /\ DOMAIN drv' = DOMAIN drv /\ drv'.pc = "check"
      /\ drv'.jobs = drv.jobs /\ drv'.cmd = drv.cmd /\ drv'.then = drv.then
  BY <1>2 DEF At, IInv, DrvInv, DrvOk
<1>7. DrvInv'
  BY <1>6 DEF IInv, DrvInv, DrvOk, Giving
<1>8. Relies'
  BY <1>4, <1>6 DEF IInv, Relies, Rest
<1>9. QED BY <1>4, <1>5, <1>7, <1>8 DEF IInv

\* The driver resets the channel, and the chip with it.
LEMMA Resetting ==
    ASSUME IInv, NEW d, NEW c \in BOOLEAN, c => ChanCanMove,
           ClockWith(d, c, Resets), drv.pc = "job", drv.jobs # <<>>
    PROVE  IInv' /\ Kept
<1> DEFINE in == Seen(Resets)
<1>1. /\ Resets.access = Idle /\ Resets.next = NextJob
      /\ Resets.reset = TRUE /\ Resets.arms = {Armed("none", 0)}
  BY DEF Resets, Step
<1>2. /\ Chip!Clock(in) /\ in.phase \in Phases
      /\ in.chip_reset /\ in.access = Idle /\ in.dma_ack = chan.ack
      /\ drv' = NextJob /\ ChanClock(c, Resets.arms)
  BY <1>1, ClockSeen
<1>3. wd.state \in Rest \/ (wd.state = "ST_SAT_DMA" /\ ~in.dma_ack)
  BY <1>2 DEF IInv, Relies, Quiet, Rest
<1>4. in.access.kind = "none"
  BY <1>2 DEF Idle
<1>5. /\ ChipInv' /\ Kept /\ wd'.state \in Rest
      /\ wd'.cdb_len = wd.cdb_len
  BY <1>2, <1>3, <1>4, ResetClock DEF IInv
<1>6. Arms(Resets)
  <2>1. {"ack", "moved", "room"} \subseteq DOMAIN Armed("none", 0) /\ Armed("none", 0).moved \in Nat
    BY DEF Armed
  <2>2. QED BY <1>1, <2>1 DEF Arms
<1>7. ChanInv'
  BY <1>2, <1>6, ChanStep DEF IInv
<1>8. DrvInv' /\ drv'.pc = "job" /\ drv'.cmd = drv.cmd
  BY <1>2, JobsLeft DEF IInv, DrvInv
<1>9. Relies'
  BY <1>5, <1>8 DEF IInv, Relies, Quiet, Rest
<1>10. QED BY <1>5, <1>7, <1>8, <1>9 DEF IInv

-----------------------------------------------------------------------------
(* Each of the driver's steps.                                             *)

\* A disk command, a polled session, a disconnect: the driver is where no
\* polled transfer runs.
LEMMA Starting ==
    ASSUME IInv, NEW d, NEW c \in BOOLEAN, c => ChanCanMove,
           drv.pc = "job", drv.jobs # <<>>
    PROVE  /\ ClockWith(d, c, StartsSat) => IInv' /\ Kept
           /\ ClockWith(d, c, StartsPolled) => IInv' /\ Kept
           /\ ClockWith(d, c, StartsDisconnect) => IInv' /\ Kept
<1> DEFINE sat == [At("issue") EXCEPT !.cmd = "C_SEL_ATN_XFER", !.then = "result"]
           polled == [At("issue") EXCEPT !.cmd = "C_SELECT_ATN", !.then = "selected"]
           disconnect == [At("issue") EXCEPT !.cmd = "C_DISCONNECT", !.then = "next"]
<1>1. /\ DrvOk(sat) /\ sat.pc = "issue" /\ sat.cmd = "C_SEL_ATN_XFER"
      /\ DrvOk(polled) /\ polled.pc = "issue" /\ polled.cmd = "C_SELECT_ATN"
      /\ DrvOk(disconnect) /\ disconnect.pc = "issue" /\ disconnect.cmd = "C_DISCONNECT"
  BY DEF At, IInv, DrvInv, DrvOk, Giving, Issued, Selects
<1> HIDE DEF sat, polled, disconnect
<1>2. \A op, room : {"ack", "moved", "room"} \subseteq DOMAIN Armed(op, room)
          /\ Armed(op, room).moved \in Nat
  BY DEF Armed
<1>3. /\ Fields \intersect DOMAIN JobRegisters = {}
      /\ "cdb_len" \in DOMAIN JobRegisters /\ JobRegisters.cdb_len # 0
  BY DEF JobRegisters, Fields
<1>4. ASSUME ClockWith(d, c, StartsSat) PROVE IInv' /\ Kept
  <2>1. /\ StartsSat.access = Load(JobRegisters) /\ StartsSat.next = sat
        /\ StartsSat.arms = {Armed(Job.op, Job.room[1])} /\ ~StartsSat.reset
    BY DEF StartsSat, sat, Step
  <2>2. Arms(StartsSat)
    BY <1>2, <2>1 DEF Arms
  <2>3. QED BY <1>1, <1>3, <1>4, <2>1, <2>2, LoadOn
<1>5. ASSUME ClockWith(d, c, StartsPolled) PROVE IInv' /\ Kept
  <2>1. /\ StartsPolled.access = Load(JobRegisters) /\ StartsPolled.next = polled
        /\ StartsPolled.arms = {Armed(Job.op, 0)} /\ ~StartsPolled.reset
    BY DEF StartsPolled, polled, Step
  <2>2. Arms(StartsPolled)
    BY <1>2, <2>1 DEF Arms
  <2>3. QED BY <1>1, <1>3, <1>5, <2>1, <2>2, LoadOn
<1>6. ASSUME ClockWith(d, c, StartsDisconnect) PROVE IInv' /\ Kept
  <2>1. /\ StartsDisconnect.access = Idle /\ StartsDisconnect.next = disconnect
        /\ StartsDisconnect.arms = {} /\ ~StartsDisconnect.reset
    BY DEF StartsDisconnect, disconnect, Step
  <2>2. Arms(StartsDisconnect) /\ StartsDisconnect.access.kind = "none"
    BY <2>1 DEF Arms, Idle
  <2>3. wd.state \notin Polling
    BY DEF IInv, Relies, Quiet, Rest, Polling, Rest, Chip!PolledStates
  <2>4. QED BY <1>1, <1>6, <2>1, <2>2, <2>3, ReadOn
<1>7. QED BY <1>4, <1>5, <1>6

\* The chip took the command, or the driver reads the status and tries again.
LEMMA Checking ==
    ASSUME IInv, NEW d, NEW c \in BOOLEAN, c => ChanCanMove,
           ClockWith(d, c, Checks), drv.pc = "check", drv.jobs # <<>>
    PROVE  IInv' /\ Kept
<1>1. \A pc : /\ DOMAIN At(pc) = DOMAIN drv /\ At(pc).pc = pc /\ At(pc).jobs = drv.jobs
              /\ At(pc).cmd = drv.cmd /\ At(pc).then = drv.then
  BY DEF At, IInv, DrvInv, DrvOk
<1>2. drv.cmd = "C_DISCONNECT" => wd.state \in Rest /\ wd.state \notin Polling
  BY DEF IInv, Relies, Rest, Polling, Rest, Chip!PolledStates
<1>3. CASE wd.lci
  <2>1. /\ Checks.access = ReadStatus /\ Checks.next = At("issue")
        /\ Checks.arms = {} /\ ~Checks.reset
    BY <1>3 DEF Checks, Step
  <2>2. Arms(Checks) /\ Checks.access.kind = "read_status"
    BY <2>1 DEF Arms, ReadStatus
  <2>3. DrvOk(At("issue"))
    BY <1>1 DEF IInv, DrvInv, DrvOk, Giving
  <2>4. QED BY <1>1, <1>2, <2>1, <2>2, <2>3, ReadOn
<1>4. CASE ~wd.lci /\ drv.then = "next"
  <2>1. /\ Checks.access = Idle /\ Checks.next = NextJob /\ Checks.arms = {} /\ ~Checks.reset
    BY <1>4 DEF Checks, Step
  <2>2. Arms(Checks) /\ Checks.access.kind = "none"
    BY <2>1 DEF Arms, Idle
  <2>3. wd.state \in Rest
    BY <1>2, <1>4 DEF IInv, DrvInv, DrvOk, Giving
  <2>4. DrvOk(NextJob) /\ NextJob.pc = "job" /\ NextJob.cmd = drv.cmd
    BY JobsLeft DEF IInv
  <2>5. QED BY <2>1, <2>2, <2>3, <2>4, ReadOn
<1>5. CASE ~wd.lci /\ drv.then # "next"
  <2>1. /\ Checks.access = Idle /\ Checks.next = At(drv.then) /\ Checks.arms = {} /\ ~Checks.reset
    BY <1>5 DEF Checks, Step
  <2>2. Arms(Checks) /\ Checks.access.kind = "none"
    BY <2>1 DEF Arms, Idle
  <2>3. DrvOk(At(drv.then)) /\ drv.then \notin {"job", "issue", "check"}
    BY <1>1, <1>5 DEF IInv, DrvInv, DrvOk, Giving
  <2>4. QED BY <1>1, <2>1, <2>2, <2>3, ReadOn
<1>6. QED BY <1>3, <1>4, <1>5

\* A result is there only while the chip rests.
LEMMA ResultAtRest ==
    ASSUME IInv, wd.int_pending
    PROVE  wd.state \in Rest /\ wd.state \notin Polling
  BY DEF IInv, ChipInv, Rest, Polling, Rest, Chip!PolledStates

\* The result of a Select-and-Transfer, and the next segment.
LEMMA TakingResult ==
    ASSUME IInv, NEW d, NEW c \in BOOLEAN, c => ChanCanMove,
           ClockWith(d, c, TakesResult), drv.pc = "result", drv.jobs # <<>>, wd.int_pending
    PROVE  IInv' /\ Kept
<1> DEFINE segment == [At("segment") EXCEPT !.seg = @ + 1]
<1>1. DrvOk(segment) /\ segment.pc = "segment" /\ segment.cmd = drv.cmd
  BY DEF At, IInv, DrvInv, DrvOk, Giving
<1>2. DrvOk(NextJob) /\ NextJob.pc = "job" /\ NextJob.cmd = drv.cmd
  BY JobsLeft DEF IInv
<1>3. /\ TakesResult.access = ReadStatus /\ TakesResult.next \in {segment, NextJob}
      /\ TakesResult.arms = {} /\ ~TakesResult.reset
  BY DEF TakesResult, Step
<1>4. Arms(TakesResult) /\ TakesResult.access.kind = "read_status"
  BY <1>3 DEF Arms, ReadStatus
<1> HIDE DEF segment
<1>5. QED BY <1>1, <1>2, <1>3, <1>4, ResultAtRest, ReadOn

\* A chain that has run out: the transfer waits for good.
LEMMA Stopping ==
    ASSUME IInv, NEW d, NEW c \in BOOLEAN, c => ChanCanMove,
           ClockWith(d, c, Step(Idle, NextJob)), drv.jobs # <<>>, Stopped
    PROVE  IInv' /\ Kept
<1> DEFINE step == Step(Idle, NextJob)
<1>1. /\ step.access = Idle /\ step.next = NextJob /\ step.arms = {} /\ ~step.reset
  BY DEF Step
<1>2. Arms(step) /\ step.access.kind = "none"
  BY <1>1 DEF Arms, Idle
<1>3. DrvOk(NextJob) /\ NextJob.pc = "job" /\ NextJob.cmd = drv.cmd
  BY JobsLeft DEF IInv
<1>4. Quiet
  BY DEF Stopped, Quiet, IInv, ChanInv
<1> HIDE DEF step
<1>5. QED BY <1>1, <1>2, <1>3, <1>4, ReadOn DEF step

LEMMA LoadingSegment ==
    ASSUME IInv, NEW d, NEW c \in BOOLEAN, c => ChanCanMove,
           ClockWith(d, c, LoadsSegment), drv.pc = "segment"
    PROVE  IInv' /\ Kept
<1> DEFINE next == [At("issue") EXCEPT !.then = "result"]
           regs == [count |-> Job.count[drv.seg]]
           more == MoreRoom(Job.room[drv.seg])
<1>1. DrvOk(next) /\ next.pc = "issue" /\ next.cmd = drv.cmd /\ next.cmd # "C_DISCONNECT"
  BY DEF At, IInv, DrvInv, DrvOk, Giving
<1>2. Fields \intersect DOMAIN regs = {} /\ "cdb_len" \notin DOMAIN regs
  BY DEF Fields
<1>3. {"ack", "moved", "room"} \subseteq DOMAIN more /\ more.moved \in Nat
  BY DEF MoreRoom, IInv, ChanInv
<1>4. /\ LoadsSegment.access = Load(regs) /\ LoadsSegment.next = next
      /\ LoadsSegment.arms = {more} /\ ~LoadsSegment.reset
  BY DEF LoadsSegment, Step
<1> HIDE DEF next, regs, more
<1>5. Arms(LoadsSegment)
  BY <1>3, <1>4 DEF Arms
<1>6. QED BY <1>1, <1>2, <1>4, <1>5, LoadOn

LEMMA TakingSelected ==
    ASSUME IInv, NEW d, NEW c \in BOOLEAN, c => ChanCanMove,
           ClockWith(d, c, TakesSelected), drv.pc = "selected"
    PROVE  IInv' /\ Kept
<1>1. DrvOk(At("phase")) /\ At("phase").pc = "phase" /\ At("phase").cmd = drv.cmd
  BY DEF At, IInv, DrvInv, DrvOk, Giving
<1>2. /\ TakesSelected.access = ReadStatus /\ TakesSelected.next = At("phase")
      /\ TakesSelected.arms = {} /\ ~TakesSelected.reset
  BY DEF TakesSelected, Step
<1>3. Arms(TakesSelected) /\ TakesSelected.access.kind = "read_status"
  BY <1>2 DEF Arms, ReadStatus
<1>4. QED BY <1>1, <1>2, <1>3, ReadOn

\* The phase the chip reports, at the end of a polled phase or of a wait for
\* one.
LEMMA TakingPhase ==
    ASSUME IInv, NEW d, NEW c \in BOOLEAN, c => ChanCanMove,
           ClockWith(d, c, TakesPhase), drv.pc \in {"phase", "bytes"}, drv.jobs # <<>>,
           wd.int_pending
    PROVE  IInv' /\ Kept
<1> DEFINE serve == [At("serve") EXCEPT !.phase = wd.status[2], !.out = BytesOf(wd.status[2])]
           negate == [At("issue") EXCEPT !.cmd = "C_NEGATE_ACK", !.then = "phase"]
<1>1. DrvOk(serve) /\ serve.pc = "serve" /\ serve.cmd = drv.cmd
  BY DEF At, IInv, DrvInv, DrvOk, Giving
<1>2. DrvOk(negate) /\ negate.pc = "issue" /\ negate.cmd = "C_NEGATE_ACK"
  BY DEF At, IInv, DrvInv, DrvOk, Giving, Issued
<1>3. DrvOk(NextJob) /\ NextJob.pc = "job" /\ NextJob.cmd = drv.cmd
  BY JobsLeft DEF IInv
<1>4. /\ TakesPhase.access = ReadStatus /\ TakesPhase.next \in {serve, negate, NextJob}
      /\ TakesPhase.arms = {} /\ ~TakesPhase.reset
  BY DEF TakesPhase, Step
<1>5. Arms(TakesPhase) /\ TakesPhase.access.kind = "read_status"
  BY <1>4 DEF Arms, ReadStatus
<1> HIDE DEF serve, negate
<1>6. QED BY <1>1, <1>2, <1>3, <1>4, <1>5, ResultAtRest, ReadOn

LEMMA Serving ==
    ASSUME IInv, NEW d, NEW c \in BOOLEAN, c => ChanCanMove,
           ClockWith(d, c, Serves), drv.pc = "serve"
    PROVE  IInv' /\ Kept
<1> DEFINE next == [At("issue") EXCEPT !.then = "bytes",
                      !.cmd = IF drv.phase \in {"STATUS", "MSG_IN"} THEN "C_XFER_INFO_SBT"
                              ELSE "C_TRANSFER_INFO"]
           regs == [count |-> CountOf(drv.phase)]
<1>1. /\ DrvOk(next) /\ next.pc = "issue"
      /\ next.cmd \notin {"C_DISCONNECT", "C_SEL_ATN_XFER"}
  BY DEF At, IInv, DrvInv, DrvOk, Giving, Issued
<1>2. Fields \intersect DOMAIN regs = {} /\ "cdb_len" \notin DOMAIN regs
  BY DEF Fields
<1>3. Serves.access = Load(regs) /\ Serves.next = next /\ Serves.arms = {} /\ ~Serves.reset
  BY DEF Serves, Step
<1>4. Arms(Serves)
  BY <1>3 DEF Arms
<1> HIDE DEF next, regs
<1>5. QED BY <1>1, <1>2, <1>3, <1>4, LoadOn

\* A byte of a polled phase, or the phase's result.
LEMMA MovingByte ==
    ASSUME IInv, NEW d, NEW c \in BOOLEAN, c => ChanCanMove,
           ClockWith(d, c, MovesByte), drv.pc = "bytes", drv.jobs # <<>>
    PROVE  IInv' /\ Kept
<1>1. CASE wd.int_pending
  BY <1>1, TakingPhase DEF MovesByte
<1>2. CASE ~wd.int_pending /\ drv.out # <<>>
  <2> DEFINE next == [drv EXCEPT !.out = Tail(@)]
  <2>1. DrvOk(next) /\ next.pc = "bytes" /\ next.cmd = drv.cmd
    BY DEF IInv, DrvInv, DrvOk, Giving
  <2>2. /\ MovesByte.access.kind = "write_data" /\ MovesByte.next = next
        /\ MovesByte.arms = {} /\ ~MovesByte.reset
    BY <1>2 DEF MovesByte, Step
  <2> HIDE DEF next
  <2>3. Arms(MovesByte)
    BY <2>2 DEF Arms
  <2>4. QED BY <2>1, <2>2, <2>3, ReadOn
<1>3. CASE ~wd.int_pending /\ drv.out = <<>>
  <2> DEFINE got == [chan EXCEPT !.got = Append(@, wd.data_latch), !.moved = @ + 1]
  <2>1. {"ack", "moved", "room"} \subseteq DOMAIN got /\ got.moved \in Nat
    BY DEF IInv, ChanInv
  <2>2. /\ MovesByte.access.kind = "read_data" /\ MovesByte.next = drv
        /\ MovesByte.arms \in {{got}, {}} /\ ~MovesByte.reset
    BY <1>3 DEF MovesByte, Step
  <2> HIDE DEF got
  <2>3. Arms(MovesByte)
    BY <2>1, <2>2 DEF Arms
  <2>4. DrvOk(drv)
    BY DEF IInv, DrvInv
  <2>5. QED BY <2>2, <2>3, <2>4, ReadOn
<1>4. QED BY <1>1, <1>2, <1>3

LEMMA Waiting ==
    ASSUME IInv, NEW d, NEW c \in BOOLEAN, c => ChanCanMove, ClockWith(d, c, Waits)
    PROVE  IInv' /\ Kept
<1>1. Waits.access = Idle /\ Waits.next = drv /\ Waits.arms = {} /\ ~Waits.reset
  BY DEF Waits, Step
<1>2. Arms(Waits) /\ Waits.access.kind = "none"
  BY <1>1 DEF Arms, Idle
<1>3. DrvOk(drv)
  BY DEF IInv, DrvInv
<1>4. /\ drv.pc = "job" => Quiet
      /\ drv.pc = "issue" /\ drv.cmd = "C_DISCONNECT" => wd.state \notin Polling
      /\ drv.pc = "check" /\ drv.cmd = "C_DISCONNECT" => wd.state \in Rest
  BY DEF IInv, Relies
<1>5. QED BY <1>1, <1>2, <1>3, <1>4, ReadOn

-----------------------------------------------------------------------------

LEMMA InvStep ==
    ASSUME IInv, Next
    PROVE  IInv' /\ Kept
<1>1. PICK d \in BOOLEAN, c \in BOOLEAN, s \in BOOLEAN : ClockOf(d, c, s)
  BY DEF Next
<1>2. c => ChanCanMove
  BY <1>1 DEF ClockOf
<1>3. CASE ~s
  BY <1>1, <1>2, <1>3, Waiting DEF ClockOf
<1>4. CASE s
  <2>1. PICK step \in DrvSteps : ClockWith(d, c, step)
    BY <1>1, <1>4 DEF ClockOf
  <2>2. drv.jobs # <<>>
    BY <2>1 DEF DrvSteps
  <2>3. CASE drv.pc = "job"
    <3>1. Job.kind \in {"sat", "polled", "disconnect", "reset"}
      BY <2>2, JobsLeft, PlanAssumption DEF IInv
    <3>2. step \in {StartsSat, StartsPolled, StartsDisconnect, Resets}
      BY <2>1, <2>2, <2>3, <3>1 DEF DrvSteps
    <3>3. QED BY <1>2, <2>1, <2>2, <2>3, <3>2, Starting, Resetting
  <2>4. CASE drv.pc = "issue"
    <3>1. step = Issues /\ ~wd.cip
      BY <2>1, <2>2, <2>4 DEF DrvSteps
    <3>2. QED BY <1>2, <2>1, <2>4, <3>1, Issuing
  <2>5. CASE drv.pc = "check"
    <3>1. step = Checks
      BY <2>1, <2>2, <2>5 DEF DrvSteps
    <3>2. QED BY <1>2, <2>1, <2>2, <2>5, <3>1, Checking
  <2>6. CASE drv.pc = "result"
    <3>1. \/ step = TakesResult /\ wd.int_pending
          \/ step = Step(Idle, NextJob) /\ Stopped
      BY <2>1, <2>2, <2>6 DEF DrvSteps
    <3>2. QED BY <1>2, <2>1, <2>2, <2>6, <3>1, TakingResult, Stopping
  <2>7. CASE drv.pc = "segment"
    <3>1. step = LoadsSegment
      BY <2>1, <2>2, <2>7 DEF DrvSteps
    <3>2. QED BY <1>2, <2>1, <2>7, <3>1, LoadingSegment
  <2>8. CASE drv.pc = "selected"
    <3>1. step = TakesSelected
      BY <2>1, <2>2, <2>8 DEF DrvSteps
    <3>2. QED BY <1>2, <2>1, <2>8, <3>1, TakingSelected
  <2>9. CASE drv.pc = "phase"
    <3>1. step = TakesPhase /\ wd.int_pending
      BY <2>1, <2>2, <2>9 DEF DrvSteps
    <3>2. QED BY <1>2, <2>1, <2>2, <2>9, <3>1, TakingPhase
  <2>10. CASE drv.pc = "serve"
    <3>1. step = Serves
      BY <2>1, <2>2, <2>10 DEF DrvSteps
    <3>2. QED BY <1>2, <2>1, <2>10, <3>1, Serving
  <2>11. CASE drv.pc = "bytes"
    <3>1. step = MovesByte
      BY <2>1, <2>2, <2>11 DEF DrvSteps
    <3>2. QED BY <1>2, <2>1, <2>2, <2>11, <3>1, MovingByte
  <2>12. QED
    BY <2>3, <2>4, <2>5, <2>6, <2>7, <2>8, <2>9, <2>10, <2>11 DEF IInv, DrvInv, DrvOk, Giving
<1>5. QED BY <1>3, <1>4

\* A result that waits to be read - the status beside INT - is the one the
\* driver will read: neither what runs on in the chip, nor a command it is
\* given, nor the target, writes another one there (wd33c93.sv:700).
THEOREM ResultsKept == Spec => ResultKept
<1>1. Init => IInv
  BY InitInv
<1>2. IInv /\ [Next]_vars => IInv'
  <2>1. CASE Next
    BY <2>1, InvStep
  <2>2. CASE UNCHANGED vars
    BY <2>2 DEF vars, IInv, ChipInv, ChanInv, DrvInv, Relies, Quiet
  <2>3. QED BY <2>1, <2>2
<1>3. IInv /\ [Next]_vars
      => [wd.int_pending /\ wd'.int_pending => wd'.status \in {wd.status, <<"S_RESET">>}]_vars
  BY InvStep DEF Kept
<1>4. QED BY <1>1, <1>2, <1>3, PTL DEF Spec, ResultKept

\* What a job's data phase moves, and how much of it is done after each of the
\* segments.
DataLength(j) ==
    CASE j.op \in {"read", "write"} -> j.len * BLOCK
      [] j.op = "inquiry" -> IF j.len < ANSWER THEN j.len ELSE ANSWER
      [] OTHER -> 0
Totals(j) ==
    {t \in [0..Len(j.count) -> 0..DataLength(j)] :
        /\ t[0] = 0 /\ t[Len(j.count)] = DataLength(j)
        /\ \A i \in 1..Len(j.count) : t[i] = t[i - 1] + j.count[i]}
Upto(j) == CHOOSE t \in Totals(j) : TRUE

\* A job IRIX gives: its segments are what the command moves, the channel has
\* room for no more than each of them, and a write ends on the medium.
Sound(j) ==
    /\ j.kind \in {"sat", "disconnect", "reset"}
    /\ j.kind = "sat" =>
         /\ j.len \in Nat /\ (j.op = "write" => j.len <= 4)
         /\ Len(j.count) \in Nat \ {0} /\ Totals(j) # {}
         /\ \A i \in 1..Len(j.count) :
               j.count[i] \in Nat /\ j.room[i] \in 0..j.count[i]
Ample(j) == \A i \in 1..Len(j.count) : j.room[i] = j.count[i]

\* After a chain that runs out there is nothing but the reset.
SoundJobs(jobs) ==
    \A i \in 1..Len(jobs) :
        /\ Sound(jobs[i])
        /\ jobs[i].kind = "sat" /\ ~Ample(jobs[i]) /\ i < Len(jobs) => jobs[i + 1].kind = "reset"

-----------------------------------------------------------------------------
Bit(b) == IF b THEN 1 ELSE 0
Late == tg.stb_ack \/ tg.stb_adv
Settled == ~tg.old_ack /\ ~tg.stb_ack /\ ~tg.stb_adv

Following == {"ST_SAT_PHASE", "ST_SAT_ACK", "ST_SAT_REL"}
Moving == Following \union {"ST_SAT_DIN", "ST_SAT_DMA"}
SatStates == Moving \union {"ST_SAT_SEL", "ST_SAT_WAIT", "ST_SAT_END"}
DataStages == {"DATA_OUT", "DATA_IN"}

\* The registers of the argument.
Regs ==
    {"state", "cip", "int_pending", "status", "cmd_phase", "count", "cdb", "cdb_len", "target_lun",
     "use_dma", "sel", "atn", "ack", "data_latch", "dma_req", "dma_eop", "dma_dir_in", "dma_in_data",
     "identify_sent", "cdb_sent", "cdb_idx", "pause_cnt", "paused", "lci", "pio_done", "pio_xfer",
     "rst_timer"}
ChipSat ==
    /\ Regs \subseteq DOMAIN wd
    /\ wd.state \in {"ST_IDLE"} \union SatStates
    /\ wd.ack = (wd.state = "ST_SAT_REL") /\ wd.dma_req = (wd.state = "ST_SAT_DMA")
    /\ wd.sel = (wd.state = "ST_SAT_WAIT") /\ wd.cip = (wd.state # "ST_IDLE")
    /\ wd.int_pending \/ wd.paused => wd.state = "ST_IDLE"
    /\ wd.pause_cnt \in Nat /\ (wd.state # "ST_SAT_PHASE" => wd.pause_cnt = 0)
    /\ wd.count \in Nat /\ wd.cmd_phase \in Nat /\ wd.rst_timer \in Nat
    /\ wd.pio_done = FALSE /\ wd.pio_xfer = FALSE

\* The handshake: ACK stands for one clock, the target sees it rise in the next
\* and advances in the one after.
Pipe ==
    /\ wd.ack => Settled
    /\ tg.old_ack <=> tg.stb_ack
    /\ tg.stb_ack => wd.state = "ST_SAT_PHASE" /\ ~tg.stb_adv /\ wd.pause_cnt = 0
    /\ tg.stb_adv => /\ wd.state \in Moving \union {"ST_SAT_END"}
                     /\ wd.pause_cnt <= 1

ChanSat ==
    /\ chan.moved \in Nat /\ chan.room \in Nat /\ chan.moved <= chan.room
    /\ chan.ack => wd.state = "ST_SAT_DMA" /\ ~tg.stb_adv

DrvSat ==
    /\ drv.pc \in {"job", "issue", "check", "result", "segment"}
    /\ drv.pc = "job" => drv.seg = 1
    /\ SoundJobs(drv.jobs)

\* What the records and functions of the rest of the bus are defined on.
Shapes ==
    /\ DOMAIN tg.cmd = 0..2 /\ DOMAIN image = 0..(BLOCK * 4 - 1)
    /\ {"does", "k", "pair", "settled", "lba"} \subseteq DOMAIN dev
    /\ {"op", "ack", "room", "moved", "got", "ended"} \subseteq DOMAIN chan

\* No request to the block device, and none of its answers.
DevIdle ==
    /\ dev.does = "idle" /\ ~tg.io_rd /\ ~tg.io_wr
    /\ ~tg.wr_pending /\ ~tg.rd_busy /\ ~tg.old_io_ack

\* The job the chip runs: its registers, and what the channel is armed with.
Sent == IF drv.pc = "segment" THEN Upto(Job)[drv.seg - 1] ELSE Upto(Job)[drv.seg]
Given ==
    /\ drv.jobs # <<>> /\ Job.kind = "sat"
    /\ drv.seg \in 1..Len(Job.count)
    /\ wd.use_dma /\ wd.cdb = <<<<"op", Job.op>>, <<"len", Job.len>>>> /\ wd.cdb_len = 2
    /\ chan.op = Job.op
    /\ chan.room <= Sent /\ (Ample(Job) => chan.room = Sent)
    /\ drv.cmd = "C_SEL_ATN_XFER" /\ (drv.pc \in Giving => drv.then = "result")
Running == Given /\ (drv.pc = "result" \/ (drv.pc = "check" /\ ~wd.lci))
Fresh == chan.moved = 0 /\ wd.count = Sent /\ ~wd.dma_in_data

Preparing ==
    \/ drv.pc = "job"
    \/ /\ drv.pc \in {"issue", "check"} /\ drv.jobs # <<>> /\ Job.kind = "disconnect"
       /\ drv.cmd = "C_DISCONNECT" /\ drv.then = "next"
    \/ /\ drv.pc = "issue" \/ (drv.pc = "check" /\ wd.lci)
       /\ Given /\ chan.moved = 0 /\ wd.count = Sent
OldResult == wd.int_pending => wd.status \in {<<"S_RESET">>, <<"S_DISCONNECT">>}

Free ==
    /\ tg.phase = "IDLE" /\ wd.state = "ST_IDLE" /\ ~wd.paused
    /\ Settled /\ DevIdle /\ Preparing /\ OldResult
Selecting ==
    /\ tg.phase = "IDLE" /\ wd.state \in {"ST_SAT_SEL", "ST_SAT_WAIT"}
    /\ Settled /\ DevIdle /\ Running /\ Fresh
    /\ wd.atn /\ ~wd.identify_sent /\ ~wd.cdb_sent /\ wd.cdb_idx = 0 /\ wd.cmd_phase = 0
Selected ==
    /\ tg.phase = "MSG_OUT" /\ wd.state = "ST_SAT_WAIT" /\ wd.rst_timer = 0
    /\ tg.cmd_cnt = 0 /\ tg.sd_buff_sel = 0
    /\ Settled /\ DevIdle /\ Running /\ Fresh
    /\ wd.atn /\ ~wd.identify_sent /\ ~wd.cdb_sent /\ wd.cdb_idx = 0 /\ wd.cmd_phase = 0
Stray ==
    /\ tg.phase = "MSG_OUT" /\ wd.state = "ST_IDLE" /\ ~wd.paused /\ wd.rst_timer = 0
    /\ wd.int_pending /\ wd.status = <<"S_SELECT_TIMEOUT">>
    /\ Settled /\ DevIdle /\ Running
Identifying ==
    /\ tg.phase = "MSG_OUT" /\ wd.state \in Following /\ wd.rst_timer = 0
    /\ tg.cmd_cnt = 0 /\ tg.sd_buff_sel = 0
    /\ DevIdle /\ Running /\ Fresh
    /\ wd.identify_sent => ~wd.atn
    /\ ~wd.identify_sent => wd.state = "ST_SAT_PHASE" /\ Settled
    /\ wd.state # "ST_SAT_PHASE" => Settled
    /\ ~wd.cdb_sent /\ wd.cdb_idx = 0 /\ wd.cmd_phase < 71
Commanding ==
    /\ tg.phase = "CMD_IN" /\ wd.state \in Following /\ wd.rst_timer = 0
    /\ tg.sd_buff_sel = 0
    /\ DevIdle /\ Running /\ Fresh /\ wd.cmd_phase < 71
    /\ wd.cdb_idx \in 0..1 /\ tg.cmd_cnt \in 0..2
    /\ (IF wd.cdb_sent THEN 2 ELSE wd.cdb_idx) = tg.cmd_cnt + Bit(Late)
    /\ wd.state # "ST_SAT_PHASE" => ~wd.cdb_sent /\ wd.data_latch = wd.cdb[wd.cdb_idx + 1]
    /\ tg.stb_ack => wd.data_latch = wd.cdb[tg.cmd_cnt + 1]
    /\ \A i \in 0..1 : i < tg.cmd_cnt + Bit(tg.stb_adv) => tg.cmd[i] = wd.cdb[i + 1]

\* The command the target got, and its answer to it.
Accepted ==
    /\ Target!Op = Job.op /\ tg.tlen = Job.len /\ tg.status[1] = "status"

\* The writes: the blocks received are those on the medium, one that is on its
\* way and one that waits; buffers and pairs hold the bytes of their places.
Edge == Target!req_wr /\ ~tg.old_wr
Flying == tg.io_wr \/ io_ack \/ tg.old_io_ack
BufferAt(p) == ram[p % 2][(p \div 2) % BLOCK]
Stored == tg.lba * BLOCK +
    (IF dev.does = "write" THEN 2 * dev.k ELSE IF tg.old_io_ack THEN BLOCK ELSE 0)
Writes ==
    /\ tg.lba \in Nat /\ tg.data_cnt \in Nat
    /\ tg.data_cnt \div BLOCK = tg.lba + Bit(Edge) + Bit(tg.wr_pending) + Bit(Flying)
    /\ ~(Edge /\ tg.wr_pending)
    /\ tg.sd_buff_sel = tg.lba % 2
    /\ ~tg.io_rd /\ ~tg.rd_busy /\ dev.does \in {"idle", "write"}
    /\ tg.buffer_wr = IF tg.stb_adv THEN {tg.data_cnt % 2} ELSE {}
    /\ \A p \in 0..(tg.data_cnt - 1) : p >= tg.lba * BLOCK => BufferAt(p) = <<"mem", p + 1>>
    /\ dev.does = "write" =>
          /\ dev.lba = tg.lba /\ dev.k \in 0..HALF
          /\ dev.settled /\ dev.k < HALF =>
                \A l \in {0, 1} : dev.pair[l] = <<"mem", dev.lba * BLOCK + 2 * dev.k + l + 1>>
          /\ tg.io_wr => dev.k = 0 /\ ~dev.settled
          /\ ~tg.io_wr => tg.old_io_ack
    /\ ~(tg.old_io_ack /\ tg.io_wr)
    /\ \A p \in 0..(Stored - 1) : image[p] = <<"mem", p + 1>>
Sends ==
    /\ tg.phase = "DATA_IN"
    /\ wd.state \in {"ST_SAT_ACK", "ST_SAT_REL"} \/ Late => wd.data_latch = <<"mem", tg.data_cnt + 1>>
    /\ wd.state = "ST_SAT_DMA" => ~wd.dma_dir_in
    /\ wd.state # "ST_SAT_DIN"
    /\ wd.ack \/ Late => tg.data_cnt \div BLOCK <= tg.lba + 1
    /\ Edge => Settled /\ ~wd.ack
    /\ Writes

\* The reads: no more sectors are asked for than the command has, and no byte is
\* taken before its sector.
Receives ==
    /\ tg.phase = "DATA_OUT"
    /\ tg.rd_hps_blk \in Nat
    /\ tg.rd_hps_blk + Bit(tg.rd_busy) <= tg.tlen
    /\ tg.rd_busy <=> (tg.io_rd \/ io_ack \/ tg.old_io_ack)
    /\ ~tg.io_wr /\ ~tg.wr_pending
    /\ dev.does \in {"idle", "read"}
    /\ dev.does = "read" /\ ~tg.io_rd => tg.old_io_ack
    /\ ~(tg.old_io_ack /\ tg.io_rd)
    /\ tg.data_cnt + Bit(wd.ack \/ Late) <= tg.rd_hps_blk * BLOCK

\* The data phase, and what has been moved in it.
Counts ==
    /\ Accepted /\ tg.phase \in DataStages /\ wd.rst_timer = 0
    /\ tg.data_cnt \in Nat /\ tg.data_cnt <= DataLength(Job)
    /\ tg.data_complete <=> (tg.data_cnt = DataLength(Job) /\ DataLength(Job) # 0)
    /\ Target!data_done => wd.state = "ST_SAT_PHASE" /\ Settled
    /\ wd.count + tg.data_cnt + Bit(Late) = Sent
    /\ chan.moved = tg.data_cnt + Bit(Late) + Bit(chan.ack \/ wd.state \in {"ST_SAT_ACK", "ST_SAT_REL"})
    /\ wd.state \in Moving \ {"ST_SAT_PHASE"} => wd.count # 0 /\ wd.dma_in_data
    /\ chan.moved > 0 => wd.dma_in_data
    /\ wd.state = "ST_SAT_ACK" \/ chan.ack => Settled
    /\ wd.cmd_phase < 71
Side ==
    /\ Job.op = "write" => Sends
    /\ Job.op = "read" => Receives
    /\ Job.op \notin {"read", "write"} => DevIdle /\ tg.phase = "DATA_OUT" /\ Job.op = "inquiry"

Data == wd.state \in Moving /\ Running /\ Counts /\ Side
Paused ==
    /\ wd.state = "ST_IDLE" /\ wd.paused /\ Given /\ Counts /\ Side
    /\ Settled /\ ~Target!data_done
    /\ \/ Running /\ wd.count = 0 /\ wd.int_pending /\ wd.status \in Pauses
       \/ drv.pc = "segment" /\ drv.seg > 1 /\ wd.count = 0 /\ ~wd.int_pending
       \/ drv.pc = "issue" /\ ~wd.int_pending

\* A chain ran out, and the reset of it.
Still ==
    /\ tg.phase \in DataStages /\ TargetRests /\ Settled /\ ~Target!data_done /\ ~tg.rd_busy
Stuck ==
    /\ wd.state = "ST_SAT_DMA" /\ Still /\ drv.pc = "job" /\ wd.rst_timer = 0
    /\ ~chan.ack /\ chan.moved = chan.room
    /\ drv.jobs # <<>> => Job.kind = "reset"
Resetted ==
    /\ wd.state = "ST_IDLE" /\ ~wd.paused /\ wd.rst_timer # 0
    /\ Still /\ drv.pc = "job" /\ OldResult

Ending ==
    /\ Running /\ chan.moved = DataLength(Job) /\ chan.moved = chan.room
EopDone == chan.moved > 0 => chan.ended \/ wd.dma_eop
Written == Job.op = "write" => \A p \in 0..(Job.len * BLOCK - 1) : image[p] = <<"mem", p + 1>>
Done == Ending /\ ~wd.dma_in_data /\ EopDone /\ wd.target_lun[1] = "status" /\ Written

Statusing ==
    /\ tg.phase = "STATUS_OUT" /\ wd.state \in Following /\ wd.rst_timer = 0
    /\ Accepted /\ Ending /\ wd.cmd_phase < 80
    /\ ~wd.dma_in_data => EopDone
    /\ \/ DevIdle /\ Written /\ (Target!req_wr => tg.old_wr)
       \/ /\ Job.op = "write" /\ Job.len # 0 /\ tg.old_wr
          /\ tg.data_cnt = Job.len * BLOCK /\ Writes
          /\ wd.state = "ST_SAT_PHASE" /\ Settled /\ ~tg.status_sent
    /\ (wd.state # "ST_SAT_PHASE" \/ Late \/ tg.status_sent) => Done
Messaging ==
    /\ tg.phase = "MESSAGE_OUT" /\ wd.state \in Following /\ wd.rst_timer = 0 /\ DevIdle /\ Done
Leaving ==
    /\ tg.phase = "IDLE" /\ wd.state \in Following \union {"ST_SAT_END"} /\ DevIdle /\ Running
    /\ wd.cmd_phase >= 80 => Done
Ended ==
    /\ tg.phase = "IDLE" /\ wd.state = "ST_IDLE" /\ ~wd.paused /\ DevIdle /\ Settled /\ Running
    /\ wd.int_pending
    /\ \/ wd.status \in {<<"S_DISCONNECT">>, <<"S_SELECT_TIMEOUT">>}
       \/ wd.status = <<"S_SELECT_XFER_OK">> /\ Done /\ (chan.moved > 0 => chan.ended)

Stage ==
    \/ Free \/ Selecting \/ Selected \/ Stray \/ Identifying \/ Commanding
    \/ Data \/ Paused \/ Stuck \/ Resetted
    \/ Statusing \/ Messaging \/ Leaving \/ Ended
SatInv == ChipSat /\ Pipe /\ ChanSat /\ DrvSat /\ Shapes /\ BytesInPlace /\ Stage

-----------------------------------------------------------------------------
(* The WD33C93B in a Select-and-Transfer, clock by clock.                  *)

\* A clock without the driver.
Alone(in) == Chip!Clock(in) /\ in.access.kind = "none" /\ ~in.chip_reset

Special == {"rst_timer", "dma_eop", "pio_done"}

LEMMA Clocked ==
    ASSUME ChipSat, NEW in, Alone(in)
    PROVE  LET u == Chip!Sequencer(in)
           IN  /\ Regs \subseteq DOMAIN wd'
               /\ \A f \in Regs \ Special : wd'[f] = IF f \in DOMAIN u THEN u[f] ELSE wd[f]
               /\ "rst_timer" \notin DOMAIN u => wd'.rst_timer = Chip!Down(wd.rst_timer)
               /\ wd'.dma_eop = IF "dma_eop" \in DOMAIN u THEN u.dma_eop ELSE FALSE
               /\ "pio_done" \notin DOMAIN u => wd'.pio_done = FALSE
               /\ "rst_timer" \in DOMAIN u => wd'.rst_timer = u.rst_timer
               /\ "pio_done" \in DOMAIN u => wd'.pio_done = u.pio_done
<1> DEFINE u == Chip!Sequencer(in)
           a == Chip!Access(in)
           rst == Chip!When(in.chip_reset, Chip!ChipReset)
           free == Chip!When(~in.bsy, [pio_done |-> FALSE])
           ahead == Chip!When(wd.state \notin Chip!LoopStates, [din_ahead |-> <<>>])
           always == [bsy_q |-> in.bsy, dma_eop |-> FALSE, rst_timer |-> Chip!Down(wd.rst_timer)]
           d == Chip!Defaults(in)
<1>1. wd' = Chip!@@(Chip!@@(Chip!@@(Chip!@@(u, a), rst), d), wd)
  BY DEF Alone, Chip!Clock
<1>2. DOMAIN a = {} /\ DOMAIN rst = {}
  BY NothingIsSilent DEF Alone, Chip!Access, Chip!When
<1>3. /\ DOMAIN free \subseteq {"pio_done"} /\ ("pio_done" \in DOMAIN free => free.pio_done = FALSE)
      /\ DOMAIN ahead \subseteq {"din_ahead"}
  BY DEF Chip!When, Chip!Nothing
<1>4. /\ DOMAIN always = {"bsy_q", "dma_eop", "rst_timer"}
      /\ always.dma_eop = FALSE /\ always.rst_timer = Chip!Down(wd.rst_timer)
  OBVIOUS
<1>5. d = Chip!@@(Chip!@@(always, free), ahead)
  BY DEF Chip!Defaults
<1> HIDE DEF always, free, ahead, rst
<1>6. /\ DOMAIN d \subseteq {"bsy_q", "dma_eop", "rst_timer", "pio_done", "din_ahead"}
      /\ {"dma_eop", "rst_timer"} \subseteq DOMAIN d
      /\ d.dma_eop = FALSE /\ d.rst_timer = Chip!Down(wd.rst_timer)
      /\ "pio_done" \in DOMAIN d => d.pio_done = FALSE
  BY <1>3, <1>4, <1>5 DEF Chip!@@
<1> HIDE DEF d
<1>7. Regs \subseteq DOMAIN wd /\ wd.pio_done = FALSE
  BY DEF ChipSat
<1>8. \A f \in Regs \ Special : f \notin DOMAIN d
  BY <1>6 DEF Regs, Special
<1>9. \A f : /\ f \in DOMAIN wd' <=> f \in DOMAIN u \/ f \in DOMAIN d \/ f \in DOMAIN wd
             /\ f \in DOMAIN u => wd'[f] = u[f]
             /\ f \notin DOMAIN u /\ f \in DOMAIN d => wd'[f] = d[f]
             /\ f \notin DOMAIN u /\ f \notin DOMAIN d /\ f \in DOMAIN wd => wd'[f] = wd[f]
  BY <1>1, <1>2 DEF Chip!@@
<1> HIDE DEF u
<1>10. Regs \subseteq DOMAIN wd' /\ \A f \in Regs \ Special : wd'[f] = IF f \in DOMAIN u THEN u[f] ELSE wd[f]
  BY <1>7, <1>8, <1>9
<1>11. /\ "rst_timer" \notin DOMAIN u => wd'.rst_timer = Chip!Down(wd.rst_timer)
       /\ wd'.dma_eop = IF "dma_eop" \in DOMAIN u THEN u.dma_eop ELSE FALSE
  BY <1>6, <1>9
<1>12. "pio_done" \notin DOMAIN u => wd'.pio_done = FALSE
  <2>1. "pio_done" \in DOMAIN wd
    BY <1>7 DEF Regs
  <2>2. QED BY <1>6, <1>7, <1>9, <2>1
<1>13. /\ "rst_timer" \in DOMAIN u => wd'.rst_timer = u.rst_timer
       /\ "pio_done" \in DOMAIN u => wd'.pio_done = u.pio_done
  BY <1>9
<1>14. QED BY <1>10, <1>11, <1>12, <1>13 DEF u

\* What a sequencer that runs leaves alone, whatever it does.
KeepsJob ==
    /\ wd'.cdb = wd.cdb /\ wd'.cdb_len = wd.cdb_len /\ wd'.use_dma = wd.use_dma
    /\ wd'.lci = wd.lci /\ wd'.rst_timer = Chip!Down(wd.rst_timer)
KeepsCommand ==
    /\ wd'.atn = wd.atn /\ wd'.identify_sent = wd.identify_sent
    /\ wd'.cdb_sent = wd.cdb_sent /\ wd'.cdb_idx = wd.cdb_idx
KeepsData ==
    /\ wd'.count = wd.count /\ wd'.dma_in_data = wd.dma_in_data /\ wd'.dma_dir_in = wd.dma_dir_in
KeepsEnd == wd'.cmd_phase = wd.cmd_phase /\ wd'.target_lun = wd.target_lun
KeepsLatch == wd'.data_latch = wd.data_latch
KeepsResult ==
    wd'.int_pending = wd.int_pending /\ wd'.status = wd.status /\ wd'.paused = wd.paused

\* The registers after the clock, by name.
Assigned(u) ==
    /\ wd'.state = IF "state" \in DOMAIN u THEN u.state ELSE wd.state
    /\ wd'.cip = IF "cip" \in DOMAIN u THEN u.cip ELSE wd.cip
    /\ wd'.int_pending = IF "int_pending" \in DOMAIN u THEN u.int_pending ELSE wd.int_pending
    /\ wd'.status = IF "status" \in DOMAIN u THEN u.status ELSE wd.status
    /\ wd'.cmd_phase = IF "cmd_phase" \in DOMAIN u THEN u.cmd_phase ELSE wd.cmd_phase
    /\ wd'.count = IF "count" \in DOMAIN u THEN u.count ELSE wd.count
    /\ wd'.cdb = IF "cdb" \in DOMAIN u THEN u.cdb ELSE wd.cdb
    /\ wd'.cdb_len = IF "cdb_len" \in DOMAIN u THEN u.cdb_len ELSE wd.cdb_len
    /\ wd'.target_lun = IF "target_lun" \in DOMAIN u THEN u.target_lun ELSE wd.target_lun
    /\ wd'.use_dma = IF "use_dma" \in DOMAIN u THEN u.use_dma ELSE wd.use_dma
    /\ wd'.sel = IF "sel" \in DOMAIN u THEN u.sel ELSE wd.sel
    /\ wd'.atn = IF "atn" \in DOMAIN u THEN u.atn ELSE wd.atn
    /\ wd'.ack = IF "ack" \in DOMAIN u THEN u.ack ELSE wd.ack
    /\ wd'.data_latch = IF "data_latch" \in DOMAIN u THEN u.data_latch ELSE wd.data_latch
    /\ wd'.dma_req = IF "dma_req" \in DOMAIN u THEN u.dma_req ELSE wd.dma_req
    /\ wd'.dma_dir_in = IF "dma_dir_in" \in DOMAIN u THEN u.dma_dir_in ELSE wd.dma_dir_in
    /\ wd'.dma_in_data = IF "dma_in_data" \in DOMAIN u THEN u.dma_in_data ELSE wd.dma_in_data
    /\ wd'.identify_sent = IF "identify_sent" \in DOMAIN u THEN u.identify_sent ELSE wd.identify_sent
    /\ wd'.cdb_sent = IF "cdb_sent" \in DOMAIN u THEN u.cdb_sent ELSE wd.cdb_sent
    /\ wd'.cdb_idx = IF "cdb_idx" \in DOMAIN u THEN u.cdb_idx ELSE wd.cdb_idx
    /\ wd'.pause_cnt = IF "pause_cnt" \in DOMAIN u THEN u.pause_cnt ELSE wd.pause_cnt
    /\ wd'.paused = IF "paused" \in DOMAIN u THEN u.paused ELSE wd.paused
    /\ wd'.lci = IF "lci" \in DOMAIN u THEN u.lci ELSE wd.lci
    /\ wd'.pio_xfer = IF "pio_xfer" \in DOMAIN u THEN u.pio_xfer ELSE wd.pio_xfer
    /\ wd'.dma_eop = IF "dma_eop" \in DOMAIN u THEN u.dma_eop ELSE FALSE
    /\ "rst_timer" \notin DOMAIN u => wd'.rst_timer = Chip!Down(wd.rst_timer)
    /\ "pio_done" \notin DOMAIN u => wd'.pio_done = FALSE
    /\ "rst_timer" \in DOMAIN u => wd'.rst_timer = u.rst_timer
    /\ "pio_done" \in DOMAIN u => wd'.pio_done = u.pio_done
    /\ Regs \subseteq DOMAIN wd'

LEMMA ByName ==
    ASSUME NEW u, Regs \subseteq DOMAIN wd',
           \A f \in Regs \ Special : wd'[f] = IF f \in DOMAIN u THEN u[f] ELSE wd[f],
           "rst_timer" \notin DOMAIN u => wd'.rst_timer = Chip!Down(wd.rst_timer),
           wd'.dma_eop = (IF "dma_eop" \in DOMAIN u THEN u.dma_eop ELSE FALSE),
           "pio_done" \notin DOMAIN u => wd'.pio_done = FALSE,
           "rst_timer" \in DOMAIN u => wd'.rst_timer = u.rst_timer,
           "pio_done" \in DOMAIN u => wd'.pio_done = u.pio_done
    PROVE  Assigned(u)
<1>1. \A f \in Regs \ Special : wd'[f] = IF f \in DOMAIN u THEN u[f] ELSE wd[f]
  OBVIOUS
<1>2. /\ wd'.state = IF "state" \in DOMAIN u THEN u.state ELSE wd.state
      /\ wd'.cip = IF "cip" \in DOMAIN u THEN u.cip ELSE wd.cip
      /\ wd'.int_pending = IF "int_pending" \in DOMAIN u THEN u.int_pending ELSE wd.int_pending
      /\ wd'.status = IF "status" \in DOMAIN u THEN u.status ELSE wd.status
      /\ wd'.cmd_phase = IF "cmd_phase" \in DOMAIN u THEN u.cmd_phase ELSE wd.cmd_phase
      /\ wd'.count = IF "count" \in DOMAIN u THEN u.count ELSE wd.count
  BY <1>1 DEF Regs, Special
<1>3. /\ wd'.cdb = IF "cdb" \in DOMAIN u THEN u.cdb ELSE wd.cdb
      /\ wd'.cdb_len = IF "cdb_len" \in DOMAIN u THEN u.cdb_len ELSE wd.cdb_len
      /\ wd'.target_lun = IF "target_lun" \in DOMAIN u THEN u.target_lun ELSE wd.target_lun
      /\ wd'.use_dma = IF "use_dma" \in DOMAIN u THEN u.use_dma ELSE wd.use_dma
      /\ wd'.sel = IF "sel" \in DOMAIN u THEN u.sel ELSE wd.sel
      /\ wd'.atn = IF "atn" \in DOMAIN u THEN u.atn ELSE wd.atn
  BY <1>1 DEF Regs, Special
<1>4. /\ wd'.ack = IF "ack" \in DOMAIN u THEN u.ack ELSE wd.ack
      /\ wd'.data_latch = IF "data_latch" \in DOMAIN u THEN u.data_latch ELSE wd.data_latch
      /\ wd'.dma_req = IF "dma_req" \in DOMAIN u THEN u.dma_req ELSE wd.dma_req
      /\ wd'.dma_dir_in = IF "dma_dir_in" \in DOMAIN u THEN u.dma_dir_in ELSE wd.dma_dir_in
      /\ wd'.dma_in_data = IF "dma_in_data" \in DOMAIN u THEN u.dma_in_data ELSE wd.dma_in_data
      /\ wd'.identify_sent = IF "identify_sent" \in DOMAIN u THEN u.identify_sent ELSE wd.identify_sent
  BY <1>1 DEF Regs, Special
<1>5. /\ wd'.cdb_sent = IF "cdb_sent" \in DOMAIN u THEN u.cdb_sent ELSE wd.cdb_sent
      /\ wd'.cdb_idx = IF "cdb_idx" \in DOMAIN u THEN u.cdb_idx ELSE wd.cdb_idx
      /\ wd'.pause_cnt = IF "pause_cnt" \in DOMAIN u THEN u.pause_cnt ELSE wd.pause_cnt
      /\ wd'.paused = IF "paused" \in DOMAIN u THEN u.paused ELSE wd.paused
      /\ wd'.lci = IF "lci" \in DOMAIN u THEN u.lci ELSE wd.lci
      /\ wd'.pio_xfer = IF "pio_xfer" \in DOMAIN u THEN u.pio_xfer ELSE wd.pio_xfer
  BY <1>1 DEF Regs, Special
<1>6. QED BY <1>2, <1>3, <1>4, <1>5 DEF Assigned

LEMMA Assignments ==
    ASSUME ChipSat, NEW in, Alone(in)
    PROVE  Assigned(Chip!Sequencer(in))
  BY Clocked, ByName

LEMMA Transferred ==
    ASSUME NEW in, wd.state \in SatStates
    PROVE  Chip!Sequencer(in) = Chip!Transfer(in)
  BY DEF Chip!Sequencer, Chip!PolledStates, SatStates, Moving, Following

\* A clock in which nothing of it changes but the timers.
LEMMA Stands ==
    ASSUME ChipSat, NEW in, Alone(in),
           DOMAIN Chip!Sequencer(in) \subseteq {"sel_timer", "din_settle", "din_req_held", "din_ahead"}
    PROVE  /\ ChipSat' /\ KeepsJob /\ KeepsCommand /\ KeepsData /\ KeepsEnd /\ KeepsLatch /\ KeepsResult
           /\ wd'.state = wd.state /\ wd'.pause_cnt = wd.pause_cnt /\ wd'.dma_eop = FALSE
<1> DEFINE u == Chip!Sequencer(in)
<1>1. /\ Regs \subseteq DOMAIN wd'
      /\ \A f \in Regs \ Special : wd'[f] = wd[f]
      /\ wd'.rst_timer = Chip!Down(wd.rst_timer) /\ wd'.dma_eop = FALSE /\ wd'.pio_done = FALSE
  <2>1. \A f \in Regs : f \notin DOMAIN u
    BY DEF Regs
  <2>2. {"rst_timer", "dma_eop", "pio_done"} \subseteq Regs
    BY DEF Regs
  <2>3. QED BY <2>1, <2>2, Clocked DEF Special
<1>2. /\ KeepsJob /\ KeepsCommand /\ KeepsData /\ KeepsEnd /\ KeepsLatch /\ KeepsResult
      /\ wd'.state = wd.state /\ wd'.pause_cnt = wd.pause_cnt
      /\ wd'.ack = wd.ack /\ wd'.dma_req = wd.dma_req /\ wd'.sel = wd.sel /\ wd'.cip = wd.cip
      /\ wd'.pio_xfer = wd.pio_xfer
  BY <1>1 DEF Regs, Special, KeepsJob, KeepsCommand, KeepsData, KeepsEnd, KeepsLatch, KeepsResult
<1>3. wd'.rst_timer \in Nat
  BY <1>1 DEF ChipSat, Chip!Down
<1>4. ChipSat'
  BY <1>1, <1>2, <1>3 DEF ChipSat, KeepsEnd, KeepsResult, KeepsData
<1>5. QED BY <1>1, <1>2, <1>4

LEMMA Reshaped ==
    ASSUME ChipSat, NEW u, Assigned(u), {"rst_timer", "pio_done", "pio_xfer"} \intersect DOMAIN u = {},
           wd'.state \in {"ST_IDLE"} \union SatStates,
           wd'.ack = (wd'.state = "ST_SAT_REL"), wd'.dma_req = (wd'.state = "ST_SAT_DMA"),
           wd'.sel = (wd'.state = "ST_SAT_WAIT"), wd'.cip = (wd'.state # "ST_IDLE"),
           wd'.int_pending \/ wd'.paused => wd'.state = "ST_IDLE",
           wd'.pause_cnt \in Nat, wd'.state # "ST_SAT_PHASE" => wd'.pause_cnt = 0,
           wd'.count \in Nat, wd'.cmd_phase \in Nat
    PROVE  ChipSat'
<1>1. /\ wd'.rst_timer = Chip!Down(wd.rst_timer) /\ wd'.pio_done = FALSE
      /\ wd'.pio_xfer = wd.pio_xfer /\ Regs \subseteq DOMAIN wd'
  BY DEF Assigned
<1>2. wd'.rst_timer \in Nat
  BY <1>1 DEF ChipSat, Chip!Down
<1>3. QED BY <1>1, <1>2 DEF ChipSat

\* The bus is free: SEL and the IDs.
LEMMA SelAsserts ==
    ASSUME ChipSat, NEW in, Alone(in),
           wd.state = "ST_SAT_SEL", ~in.bsy
    PROVE  /\ ChipSat' /\ KeepsJob /\ wd'.state = "ST_SAT_WAIT" /\ KeepsCommand /\ KeepsData
           /\ KeepsEnd /\ wd'.data_latch = Chip!SelectionOf(wd.dest) /\ KeepsResult
           /\ wd'.pause_cnt = wd.pause_cnt /\ wd'.dma_eop = FALSE
<1> DEFINE u == Chip!Sequencer(in)
<1>1. u = Chip!@@([sel |-> TRUE, data_latch |-> Chip!SelectionOf(wd.dest), state |-> "ST_SAT_WAIT"],
             [sel_timer |-> wd.sel_timer + 1])
  BY Transferred DEF Chip!Transfer, Chip!Asserts, SatStates, Moving, Following
<1>2. /\ {"sel", "data_latch", "state"} \subseteq DOMAIN u
      /\ DOMAIN u \subseteq {"sel", "data_latch", "state", "sel_timer"} /\ u.sel = TRUE
      /\ u.data_latch = Chip!SelectionOf(wd.dest) /\ u.state = "ST_SAT_WAIT"
  BY <1>1 DEF Chip!@@
<1>3. Assigned(u)
  BY Assignments
<1> HIDE DEF u
<1>4. /\ KeepsJob /\ wd'.state = "ST_SAT_WAIT" /\ KeepsCommand /\ KeepsData /\ KeepsEnd
      /\ wd'.data_latch = Chip!SelectionOf(wd.dest) /\ KeepsResult /\ wd'.pause_cnt = wd.pause_cnt
      /\ wd'.dma_eop = FALSE
  BY <1>2, <1>3 DEF Assigned, KeepsJob, KeepsCommand, KeepsData, KeepsEnd, KeepsResult
<1>5. /\ wd'.ack = wd.ack /\ wd'.dma_req = wd.dma_req /\ wd'.sel = TRUE /\ wd'.cip = wd.cip
  BY <1>2, <1>3 DEF Assigned
<1>6. ChipSat'
  <2>1. /\ wd'.ack = (wd'.state = "ST_SAT_REL") /\ wd'.dma_req = (wd'.state = "ST_SAT_DMA")
        /\ wd'.sel = (wd'.state = "ST_SAT_WAIT") /\ wd'.cip = (wd'.state # "ST_IDLE")
    BY <1>4, <1>5 DEF ChipSat
  <2>2. /\ wd'.state \in {"ST_IDLE"} \union SatStates
        /\ wd'.int_pending \/ wd'.paused => wd'.state = "ST_IDLE"
    BY <1>4 DEF ChipSat, KeepsResult, SatStates, Moving, Following
  <2>3. /\ wd'.pause_cnt \in Nat /\ (wd'.state # "ST_SAT_PHASE" => wd'.pause_cnt = 0)
        /\ wd'.count \in Nat /\ wd'.cmd_phase \in Nat
    BY <1>4 DEF ChipSat, KeepsData, KeepsEnd
  <2>4. QED BY <1>2, <1>3, <2>1, <2>2, <2>3, Reshaped
<1>7. QED BY <1>4, <1>6

\* Nobody answers.
LEMMA TimesOut ==
    ASSUME ChipSat, NEW in, Alone(in),
           \/ wd.state = "ST_SAT_SEL" /\ in.bsy
           \/ wd.state = "ST_SAT_WAIT" /\ ~(in.bsy /\ ~wd.bsy_q),
           wd.sel_timer >= SEL_TIMEOUT
    PROVE  /\ ChipSat' /\ KeepsJob /\ wd'.state = "ST_IDLE" /\ wd'.atn = FALSE
           /\ wd'.identify_sent = wd.identify_sent /\ wd'.cdb_sent = wd.cdb_sent
           /\ wd'.cdb_idx = wd.cdb_idx /\ KeepsData /\ wd'.cmd_phase = 0
           /\ wd'.target_lun = wd.target_lun /\ KeepsLatch /\ wd'.int_pending = TRUE
           /\ wd'.status = <<"S_SELECT_TIMEOUT">> /\ wd'.paused = wd.paused
           /\ wd'.pause_cnt = wd.pause_cnt /\ wd'.dma_eop = FALSE
<1> DEFINE u == Chip!Sequencer(in)
<1>1. u = Chip!@@(Chip!SatTimedOut, [sel_timer |-> wd.sel_timer + 1])
  BY Transferred DEF Chip!Transfer, Chip!Asserts, Chip!Waits, Chip!When, SatStates, Moving, Following
<1>2. /\ {"sel", "atn", "cip", "state", "status", "int_pending", "cmd_phase"} \subseteq DOMAIN u
      /\ DOMAIN u \subseteq {"sel", "atn", "cip", "state", "status", "int_pending", "cmd_phase", "sel_timer"}
      /\ u.sel = FALSE /\ u.atn = FALSE /\ u.cip = FALSE /\ u.state = "ST_IDLE"
      /\ u.status = <<"S_SELECT_TIMEOUT">> /\ u.int_pending = TRUE /\ u.cmd_phase = 0
  BY <1>1 DEF Chip!@@, Chip!SatTimedOut, Chip!TimedOut, Chip!Result, Chip!CP_DISCONNECTED
<1>3. Assigned(u)
  BY Assignments
<1> HIDE DEF u
<1>4. /\ KeepsJob /\ wd'.state = "ST_IDLE" /\ wd'.atn = FALSE
      /\ wd'.identify_sent = wd.identify_sent /\ wd'.cdb_sent = wd.cdb_sent
      /\ wd'.cdb_idx = wd.cdb_idx /\ KeepsData /\ wd'.cmd_phase = 0
      /\ wd'.target_lun = wd.target_lun /\ KeepsLatch /\ wd'.int_pending = TRUE
      /\ wd'.status = <<"S_SELECT_TIMEOUT">> /\ wd'.paused = wd.paused
      /\ wd'.pause_cnt = wd.pause_cnt /\ wd'.dma_eop = FALSE
  BY <1>2, <1>3 DEF Assigned, KeepsJob, KeepsData, KeepsLatch
<1>5. /\ wd'.ack = wd.ack /\ wd'.dma_req = wd.dma_req /\ wd'.sel = FALSE /\ wd'.cip = FALSE
  BY <1>2, <1>3 DEF Assigned
<1>6. ChipSat'
  <2>1. /\ wd'.ack = (wd'.state = "ST_SAT_REL") /\ wd'.dma_req = (wd'.state = "ST_SAT_DMA")
        /\ wd'.sel = (wd'.state = "ST_SAT_WAIT") /\ wd'.cip = (wd'.state # "ST_IDLE")
    BY <1>4, <1>5 DEF ChipSat
  <2>2. /\ wd'.state \in {"ST_IDLE"} \union SatStates
        /\ wd'.int_pending \/ wd'.paused => wd'.state = "ST_IDLE"
    BY <1>4 DEF ChipSat, KeepsResult, SatStates, Moving, Following
  <2>3. /\ wd'.pause_cnt \in Nat /\ (wd'.state # "ST_SAT_PHASE" => wd'.pause_cnt = 0)
        /\ wd'.count \in Nat /\ wd'.cmd_phase \in Nat
    BY <1>4 DEF ChipSat, KeepsData, KeepsEnd
  <2>4. QED BY <1>2, <1>3, <2>1, <2>2, <2>3, Reshaped
<1>7. QED BY <1>4, <1>6

\* A target took the bus.
LEMMA WaitSelected ==
    ASSUME ChipSat, NEW in, Alone(in),
           wd.state = "ST_SAT_WAIT", in.bsy, ~wd.bsy_q
    PROVE  /\ ChipSat' /\ KeepsJob /\ wd'.state = "ST_SAT_PHASE" /\ KeepsCommand /\ KeepsData
           /\ wd'.cmd_phase = 16 /\ wd'.target_lun = wd.target_lun /\ KeepsLatch /\ KeepsResult
           /\ wd'.pause_cnt = wd.pause_cnt /\ wd'.dma_eop = FALSE
<1> DEFINE u == Chip!Sequencer(in)
<1>1. u = Chip!@@(Chip!@@([sel |-> FALSE], [cmd_phase |-> Chip!CP_SELECTED, state |-> "ST_SAT_PHASE"]),
             [sel_timer |-> wd.sel_timer + 1])
  BY Transferred DEF Chip!Transfer, Chip!Waits, SatStates, Moving, Following
<1>2. /\ {"sel", "cmd_phase", "state"} \subseteq DOMAIN u
      /\ DOMAIN u \subseteq {"sel", "cmd_phase", "state", "sel_timer"} /\ u.sel = FALSE
      /\ u.cmd_phase = 16 /\ u.state = "ST_SAT_PHASE"
  BY <1>1 DEF Chip!@@, Chip!CP_SELECTED
<1>3. Assigned(u)
  BY Assignments
<1> HIDE DEF u
<1>4. /\ KeepsJob /\ wd'.state = "ST_SAT_PHASE" /\ KeepsCommand /\ KeepsData /\ wd'.cmd_phase = 16
      /\ wd'.target_lun = wd.target_lun /\ KeepsLatch /\ KeepsResult
      /\ wd'.pause_cnt = wd.pause_cnt /\ wd'.dma_eop = FALSE
  BY <1>2, <1>3 DEF Assigned, KeepsJob, KeepsCommand, KeepsData, KeepsLatch, KeepsResult
<1>5. /\ wd'.ack = wd.ack /\ wd'.dma_req = wd.dma_req /\ wd'.sel = FALSE /\ wd'.cip = wd.cip
  BY <1>2, <1>3 DEF Assigned
<1>6. ChipSat'
  <2>1. /\ wd'.ack = (wd'.state = "ST_SAT_REL") /\ wd'.dma_req = (wd'.state = "ST_SAT_DMA")
        /\ wd'.sel = (wd'.state = "ST_SAT_WAIT") /\ wd'.cip = (wd'.state # "ST_IDLE")
    BY <1>4, <1>5 DEF ChipSat
  <2>2. /\ wd'.state \in {"ST_IDLE"} \union SatStates
        /\ wd'.int_pending \/ wd'.paused => wd'.state = "ST_IDLE"
    BY <1>4 DEF ChipSat, KeepsResult, SatStates, Moving, Following
  <2>3. /\ wd'.pause_cnt \in Nat /\ (wd'.state # "ST_SAT_PHASE" => wd'.pause_cnt = 0)
        /\ wd'.count \in Nat /\ wd'.cmd_phase \in Nat
    BY <1>4 DEF ChipSat, KeepsData, KeepsEnd
  <2>4. QED BY <1>2, <1>3, <2>1, <2>2, <2>3, Reshaped
<1>7. QED BY <1>4, <1>6

\* The target let go of the bus, and the channel was told.
LEMMA PhaseLeft ==
    ASSUME ChipSat, NEW in, Alone(in),
           wd.state = "ST_SAT_PHASE", ~in.bsy, ~wd.dma_in_data
    PROVE  /\ ChipSat' /\ KeepsJob /\ wd'.state = "ST_SAT_END" /\ KeepsCommand /\ KeepsData
           /\ KeepsEnd /\ KeepsLatch /\ KeepsResult /\ wd'.pause_cnt = 0 /\ wd'.dma_eop = FALSE
<1> DEFINE u == Chip!Sequencer(in)
<1>1. u = Chip!@@(Chip!@@(Chip!@@([state |-> "ST_SAT_END"], Chip!Nothing), [pause_cnt |-> 0]),
             Chip!When(~in.bsy \/ in.phase # "DATA_IN", [din_ahead |-> <<>>]))
  BY Transferred DEF Chip!Transfer, Chip!Follows, Chip!Pauses, SatStates, Moving, Following, Chip!EndsPhase, Chip!When
<1>2. /\ {"state", "pause_cnt"} \subseteq DOMAIN u
      /\ DOMAIN u \subseteq {"state", "pause_cnt", "din_ahead"} /\ u.state = "ST_SAT_END"
      /\ u.pause_cnt = 0
  BY <1>1 DEF Chip!@@, Chip!When, Chip!Nothing
<1>3. Assigned(u)
  BY Assignments
<1> HIDE DEF u
<1>4. /\ KeepsJob /\ wd'.state = "ST_SAT_END" /\ KeepsCommand /\ KeepsData /\ KeepsEnd
      /\ KeepsLatch /\ KeepsResult /\ wd'.pause_cnt = 0 /\ wd'.dma_eop = FALSE
  BY <1>2, <1>3 DEF Assigned, KeepsJob, KeepsCommand, KeepsData, KeepsEnd, KeepsLatch, KeepsResult
<1>5. /\ wd'.ack = wd.ack /\ wd'.dma_req = wd.dma_req /\ wd'.sel = wd.sel /\ wd'.cip = wd.cip
  BY <1>2, <1>3 DEF Assigned
<1>6. ChipSat'
  <2>1. /\ wd'.ack = (wd'.state = "ST_SAT_REL") /\ wd'.dma_req = (wd'.state = "ST_SAT_DMA")
        /\ wd'.sel = (wd'.state = "ST_SAT_WAIT") /\ wd'.cip = (wd'.state # "ST_IDLE")
    BY <1>4, <1>5 DEF ChipSat
  <2>2. /\ wd'.state \in {"ST_IDLE"} \union SatStates
        /\ wd'.int_pending \/ wd'.paused => wd'.state = "ST_IDLE"
    BY <1>4 DEF ChipSat, KeepsResult, SatStates, Moving, Following
  <2>3. /\ wd'.pause_cnt \in Nat /\ (wd'.state # "ST_SAT_PHASE" => wd'.pause_cnt = 0)
        /\ wd'.count \in Nat /\ wd'.cmd_phase \in Nat
    BY <1>4 DEF ChipSat, KeepsData, KeepsEnd
  <2>4. QED BY <1>2, <1>3, <2>1, <2>2, <2>3, Reshaped
<1>7. QED BY <1>4, <1>6

\* It was not.
LEMMA PhaseLeftTells ==
    ASSUME ChipSat, NEW in, Alone(in),
           wd.state = "ST_SAT_PHASE", ~in.bsy, wd.dma_in_data
    PROVE  /\ ChipSat' /\ KeepsJob /\ wd'.state = "ST_SAT_END" /\ KeepsCommand
           /\ wd'.count = wd.count /\ wd'.dma_in_data = FALSE /\ wd'.dma_dir_in = wd.dma_dir_in
           /\ KeepsEnd /\ KeepsLatch /\ KeepsResult /\ wd'.pause_cnt = 0 /\ wd'.dma_eop = TRUE
<1> DEFINE u == Chip!Sequencer(in)
<1>1. u = Chip!@@(Chip!@@(Chip!@@([state |-> "ST_SAT_END"], [dma_eop |-> TRUE, dma_in_data |-> FALSE]), [pause_cnt |-> 0]),
             Chip!When(~in.bsy \/ in.phase # "DATA_IN", [din_ahead |-> <<>>]))
  BY Transferred DEF Chip!Transfer, Chip!Follows, Chip!Pauses, SatStates, Moving, Following, Chip!EndsPhase, Chip!When
<1>2. /\ {"state", "dma_eop", "dma_in_data", "pause_cnt"} \subseteq DOMAIN u
      /\ DOMAIN u \subseteq {"state", "dma_eop", "dma_in_data", "pause_cnt", "din_ahead"}
      /\ u.state = "ST_SAT_END" /\ u.dma_eop = TRUE /\ u.dma_in_data = FALSE /\ u.pause_cnt = 0
  BY <1>1 DEF Chip!@@, Chip!When, Chip!Nothing
<1>3. Assigned(u)
  BY Assignments
<1> HIDE DEF u
<1>4. /\ KeepsJob /\ wd'.state = "ST_SAT_END" /\ KeepsCommand /\ wd'.count = wd.count
      /\ wd'.dma_in_data = FALSE /\ wd'.dma_dir_in = wd.dma_dir_in /\ KeepsEnd /\ KeepsLatch
      /\ KeepsResult /\ wd'.pause_cnt = 0 /\ wd'.dma_eop = TRUE
  BY <1>2, <1>3 DEF Assigned, KeepsJob, KeepsCommand, KeepsEnd, KeepsLatch, KeepsResult
<1>5. /\ wd'.ack = wd.ack /\ wd'.dma_req = wd.dma_req /\ wd'.sel = wd.sel /\ wd'.cip = wd.cip
  BY <1>2, <1>3 DEF Assigned
<1>6. ChipSat'
  <2>1. /\ wd'.ack = (wd'.state = "ST_SAT_REL") /\ wd'.dma_req = (wd'.state = "ST_SAT_DMA")
        /\ wd'.sel = (wd'.state = "ST_SAT_WAIT") /\ wd'.cip = (wd'.state # "ST_IDLE")
    BY <1>4, <1>5 DEF ChipSat
  <2>2. /\ wd'.state \in {"ST_IDLE"} \union SatStates
        /\ wd'.int_pending \/ wd'.paused => wd'.state = "ST_IDLE"
    BY <1>4 DEF ChipSat, KeepsResult, SatStates, Moving, Following
  <2>3. /\ wd'.pause_cnt \in Nat /\ (wd'.state # "ST_SAT_PHASE" => wd'.pause_cnt = 0)
        /\ wd'.count \in Nat /\ wd'.cmd_phase \in Nat
    BY <1>4 DEF ChipSat, KeepsData, KeepsEnd
  <2>4. QED BY <1>2, <1>3, <2>1, <2>2, <2>3, Reshaped
<1>7. QED BY <1>4, <1>6

\* The data phase is over.
LEMMA PhaseTells ==
    ASSUME ChipSat, NEW in, Alone(in),
           wd.state = "ST_SAT_PHASE", in.bsy, wd.dma_in_data, in.phase \notin Chip!DataPhases
    PROVE  /\ ChipSat' /\ KeepsJob /\ wd'.state = wd.state /\ KeepsCommand /\ wd'.count = wd.count
           /\ wd'.dma_in_data = FALSE /\ wd'.dma_dir_in = wd.dma_dir_in /\ KeepsEnd /\ KeepsLatch
           /\ KeepsResult /\ wd'.pause_cnt = 0 /\ wd'.dma_eop = TRUE
<1> DEFINE u == Chip!Sequencer(in)
<1>1. u = Chip!@@(Chip!@@([dma_eop |-> TRUE, dma_in_data |-> FALSE], [pause_cnt |-> 0]),
             Chip!When(~in.bsy \/ in.phase # "DATA_IN", [din_ahead |-> <<>>]))
  BY Transferred DEF Chip!Transfer, Chip!Follows, Chip!Pauses, SatStates, Moving, Following, Chip!EndsPhase, Chip!When
<1>2. /\ {"dma_eop", "dma_in_data", "pause_cnt"} \subseteq DOMAIN u
      /\ DOMAIN u \subseteq {"dma_eop", "dma_in_data", "pause_cnt", "din_ahead"}
      /\ u.dma_eop = TRUE /\ u.dma_in_data = FALSE /\ u.pause_cnt = 0
  BY <1>1 DEF Chip!@@, Chip!When, Chip!Nothing
<1>3. Assigned(u)
  BY Assignments
<1> HIDE DEF u
<1>4. /\ KeepsJob /\ wd'.state = wd.state /\ KeepsCommand /\ wd'.count = wd.count
      /\ wd'.dma_in_data = FALSE /\ wd'.dma_dir_in = wd.dma_dir_in /\ KeepsEnd /\ KeepsLatch
      /\ KeepsResult /\ wd'.pause_cnt = 0 /\ wd'.dma_eop = TRUE
  BY <1>2, <1>3 DEF Assigned, KeepsJob, KeepsCommand, KeepsEnd, KeepsLatch, KeepsResult
<1>5. /\ wd'.ack = wd.ack /\ wd'.dma_req = wd.dma_req /\ wd'.sel = wd.sel /\ wd'.cip = wd.cip
  BY <1>2, <1>3 DEF Assigned
<1>6. ChipSat'
  <2>1. /\ wd'.ack = (wd'.state = "ST_SAT_REL") /\ wd'.dma_req = (wd'.state = "ST_SAT_DMA")
        /\ wd'.sel = (wd'.state = "ST_SAT_WAIT") /\ wd'.cip = (wd'.state # "ST_IDLE")
    BY <1>4, <1>5 DEF ChipSat
  <2>2. /\ wd'.state \in {"ST_IDLE"} \union SatStates
        /\ wd'.int_pending \/ wd'.paused => wd'.state = "ST_IDLE"
    BY <1>4 DEF ChipSat, KeepsResult, SatStates, Moving, Following
  <2>3. /\ wd'.pause_cnt \in Nat /\ (wd'.state # "ST_SAT_PHASE" => wd'.pause_cnt = 0)
        /\ wd'.count \in Nat /\ wd'.cmd_phase \in Nat
    BY <1>4 DEF ChipSat, KeepsData, KeepsEnd
  <2>4. QED BY <1>2, <1>3, <2>1, <2>2, <2>3, Reshaped
<1>7. QED BY <1>4, <1>6

\* No request, or one that has been served.
LEMMA PhaseWaits ==
    ASSUME ChipSat, NEW in, Alone(in),
           wd.state = "ST_SAT_PHASE", in.bsy, ~(wd.dma_in_data /\ in.phase \notin Chip!DataPhases),
           \/ ~in.req
           \/ in.phase = "MSG_OUT" /\ wd.identify_sent
           \/ in.phase = "COMMAND" /\ wd.cdb_sent
    PROVE  /\ ChipSat' /\ KeepsJob /\ wd'.state = wd.state /\ KeepsCommand /\ KeepsData
           /\ KeepsEnd /\ KeepsLatch /\ KeepsResult /\ wd'.pause_cnt = 0 /\ wd'.dma_eop = FALSE
<1> DEFINE u == Chip!Sequencer(in)
<1>1. u = Chip!@@(Chip!@@(Chip!Nothing, [pause_cnt |-> 0]),
             Chip!When(~in.bsy \/ in.phase # "DATA_IN", [din_ahead |-> <<>>]))
  BY Transferred DEF Chip!Transfer, Chip!Follows, Chip!Pauses, SatStates, Moving, Following, Chip!MessageOut, Chip!CdbByte, Chip!When, Chip!DataPhases
<1>2. /\ {"pause_cnt"} \subseteq DOMAIN u /\ DOMAIN u \subseteq {"pause_cnt", "din_ahead"}
      /\ u.pause_cnt = 0
  BY <1>1 DEF Chip!@@, Chip!When, Chip!Nothing
<1>3. Assigned(u)
  BY Assignments
<1> HIDE DEF u
<1>4. /\ KeepsJob /\ wd'.state = wd.state /\ KeepsCommand /\ KeepsData /\ KeepsEnd /\ KeepsLatch
      /\ KeepsResult /\ wd'.pause_cnt = 0 /\ wd'.dma_eop = FALSE
  BY <1>2, <1>3 DEF Assigned, KeepsJob, KeepsCommand, KeepsData, KeepsEnd, KeepsLatch, KeepsResult
<1>5. /\ wd'.ack = wd.ack /\ wd'.dma_req = wd.dma_req /\ wd'.sel = wd.sel /\ wd'.cip = wd.cip
  BY <1>2, <1>3 DEF Assigned
<1>6. ChipSat'
  <2>1. /\ wd'.ack = (wd'.state = "ST_SAT_REL") /\ wd'.dma_req = (wd'.state = "ST_SAT_DMA")
        /\ wd'.sel = (wd'.state = "ST_SAT_WAIT") /\ wd'.cip = (wd'.state # "ST_IDLE")
    BY <1>4, <1>5 DEF ChipSat
  <2>2. /\ wd'.state \in {"ST_IDLE"} \union SatStates
        /\ wd'.int_pending \/ wd'.paused => wd'.state = "ST_IDLE"
    BY <1>4 DEF ChipSat, KeepsResult, SatStates, Moving, Following
  <2>3. /\ wd'.pause_cnt \in Nat /\ (wd'.state # "ST_SAT_PHASE" => wd'.pause_cnt = 0)
        /\ wd'.count \in Nat /\ wd'.cmd_phase \in Nat
    BY <1>4 DEF ChipSat, KeepsData, KeepsEnd
  <2>4. QED BY <1>2, <1>3, <2>1, <2>2, <2>3, Reshaped
<1>7. QED BY <1>4, <1>6

LEMMA PhaseIdentifies ==
    ASSUME ChipSat, NEW in, Alone(in),
           wd.state = "ST_SAT_PHASE", in.bsy, ~(wd.dma_in_data /\ in.phase \notin Chip!DataPhases), in.req,
           in.phase = "MSG_OUT", ~wd.identify_sent
    PROVE  /\ ChipSat' /\ KeepsJob /\ wd'.state = "ST_SAT_ACK" /\ wd'.atn = FALSE
           /\ wd'.identify_sent = TRUE /\ wd'.cdb_sent = wd.cdb_sent /\ wd'.cdb_idx = wd.cdb_idx
           /\ KeepsData /\ KeepsEnd /\ wd'.data_latch = Chip!Identify /\ KeepsResult
           /\ wd'.pause_cnt = 0 /\ wd'.dma_eop = FALSE
<1> DEFINE u == Chip!Sequencer(in)
<1>1. u = Chip!@@(Chip!@@([data_latch |-> Chip!Identify, atn |-> FALSE, identify_sent |-> TRUE, state |-> "ST_SAT_ACK"], [pause_cnt |-> 0]),
             Chip!When(~in.bsy \/ in.phase # "DATA_IN", [din_ahead |-> <<>>]))
  BY Transferred DEF Chip!Transfer, Chip!Follows, Chip!Pauses, SatStates, Moving, Following, Chip!MessageOut, Chip!When, Chip!DataPhases
<1>2. /\ {"data_latch", "atn", "identify_sent", "state", "pause_cnt"} \subseteq DOMAIN u
      /\ DOMAIN u \subseteq {"data_latch", "atn", "identify_sent", "state", "pause_cnt", "din_ahead"}
      /\ u.data_latch = Chip!Identify /\ u.atn = FALSE /\ u.identify_sent = TRUE
      /\ u.state = "ST_SAT_ACK" /\ u.pause_cnt = 0
  BY <1>1 DEF Chip!@@, Chip!When, Chip!Nothing
<1>3. Assigned(u)
  BY Assignments
<1> HIDE DEF u
<1>4. /\ KeepsJob /\ wd'.state = "ST_SAT_ACK" /\ wd'.atn = FALSE /\ wd'.identify_sent = TRUE
      /\ wd'.cdb_sent = wd.cdb_sent /\ wd'.cdb_idx = wd.cdb_idx /\ KeepsData /\ KeepsEnd
      /\ wd'.data_latch = Chip!Identify /\ KeepsResult /\ wd'.pause_cnt = 0 /\ wd'.dma_eop = FALSE
  BY <1>2, <1>3 DEF Assigned, KeepsJob, KeepsData, KeepsEnd, KeepsResult
<1>5. /\ wd'.ack = wd.ack /\ wd'.dma_req = wd.dma_req /\ wd'.sel = wd.sel /\ wd'.cip = wd.cip
  BY <1>2, <1>3 DEF Assigned
<1>6. ChipSat'
  <2>1. /\ wd'.ack = (wd'.state = "ST_SAT_REL") /\ wd'.dma_req = (wd'.state = "ST_SAT_DMA")
        /\ wd'.sel = (wd'.state = "ST_SAT_WAIT") /\ wd'.cip = (wd'.state # "ST_IDLE")
    BY <1>4, <1>5 DEF ChipSat
  <2>2. /\ wd'.state \in {"ST_IDLE"} \union SatStates
        /\ wd'.int_pending \/ wd'.paused => wd'.state = "ST_IDLE"
    BY <1>4 DEF ChipSat, KeepsResult, SatStates, Moving, Following
  <2>3. /\ wd'.pause_cnt \in Nat /\ (wd'.state # "ST_SAT_PHASE" => wd'.pause_cnt = 0)
        /\ wd'.count \in Nat /\ wd'.cmd_phase \in Nat
    BY <1>4 DEF ChipSat, KeepsData, KeepsEnd
  <2>4. QED BY <1>2, <1>3, <2>1, <2>2, <2>3, Reshaped
<1>7. QED BY <1>4, <1>6

LEMMA PhaseCommands ==
    ASSUME ChipSat, NEW in, Alone(in),
           wd.state = "ST_SAT_PHASE", in.bsy, ~(wd.dma_in_data /\ in.phase \notin Chip!DataPhases), in.req,
           in.phase = "COMMAND", ~wd.cdb_sent
    PROVE  /\ ChipSat' /\ KeepsJob /\ wd'.state = "ST_SAT_ACK" /\ KeepsCommand /\ KeepsData
           /\ KeepsEnd /\ wd'.data_latch = wd.cdb[wd.cdb_idx + 1] /\ KeepsResult
           /\ wd'.pause_cnt = 0 /\ wd'.dma_eop = FALSE
<1> DEFINE u == Chip!Sequencer(in)
<1>1. u = Chip!@@(Chip!@@([data_latch |-> wd.cdb[wd.cdb_idx + 1], state |-> "ST_SAT_ACK"], [pause_cnt |-> 0]),
             Chip!When(~in.bsy \/ in.phase # "DATA_IN", [din_ahead |-> <<>>]))
  BY Transferred DEF Chip!Transfer, Chip!Follows, Chip!Pauses, SatStates, Moving, Following, Chip!CdbByte, Chip!When, Chip!DataPhases
<1>2. /\ {"data_latch", "state", "pause_cnt"} \subseteq DOMAIN u
      /\ DOMAIN u \subseteq {"data_latch", "state", "pause_cnt", "din_ahead"}
      /\ u.data_latch = wd.cdb[wd.cdb_idx + 1] /\ u.state = "ST_SAT_ACK" /\ u.pause_cnt = 0
  BY <1>1 DEF Chip!@@, Chip!When, Chip!Nothing
<1>3. Assigned(u)
  BY Assignments
<1> HIDE DEF u
<1>4. /\ KeepsJob /\ wd'.state = "ST_SAT_ACK" /\ KeepsCommand /\ KeepsData /\ KeepsEnd
      /\ wd'.data_latch = wd.cdb[wd.cdb_idx + 1] /\ KeepsResult /\ wd'.pause_cnt = 0
      /\ wd'.dma_eop = FALSE
  BY <1>2, <1>3 DEF Assigned, KeepsJob, KeepsCommand, KeepsData, KeepsEnd, KeepsResult
<1>5. /\ wd'.ack = wd.ack /\ wd'.dma_req = wd.dma_req /\ wd'.sel = wd.sel /\ wd'.cip = wd.cip
  BY <1>2, <1>3 DEF Assigned
<1>6. ChipSat'
  <2>1. /\ wd'.ack = (wd'.state = "ST_SAT_REL") /\ wd'.dma_req = (wd'.state = "ST_SAT_DMA")
        /\ wd'.sel = (wd'.state = "ST_SAT_WAIT") /\ wd'.cip = (wd'.state # "ST_IDLE")
    BY <1>4, <1>5 DEF ChipSat
  <2>2. /\ wd'.state \in {"ST_IDLE"} \union SatStates
        /\ wd'.int_pending \/ wd'.paused => wd'.state = "ST_IDLE"
    BY <1>4 DEF ChipSat, KeepsResult, SatStates, Moving, Following
  <2>3. /\ wd'.pause_cnt \in Nat /\ (wd'.state # "ST_SAT_PHASE" => wd'.pause_cnt = 0)
        /\ wd'.count \in Nat /\ wd'.cmd_phase \in Nat
    BY <1>4 DEF ChipSat, KeepsData, KeepsEnd
  <2>4. QED BY <1>2, <1>3, <2>1, <2>2, <2>3, Reshaped
<1>7. QED BY <1>4, <1>6

LEMMA PhaseSends ==
    ASSUME ChipSat, NEW in, Alone(in),
           wd.state = "ST_SAT_PHASE", in.bsy, ~(wd.dma_in_data /\ in.phase \notin Chip!DataPhases), in.req,
           in.phase = "DATA_OUT", wd.count # 0, wd.use_dma
    PROVE  /\ ChipSat' /\ KeepsJob /\ wd'.state = "ST_SAT_DMA" /\ KeepsCommand
           /\ wd'.count = wd.count /\ wd'.dma_in_data = TRUE /\ wd'.dma_dir_in = FALSE /\ KeepsEnd
           /\ KeepsLatch /\ KeepsResult /\ wd'.pause_cnt = 0 /\ wd'.dma_eop = FALSE
<1> DEFINE u == Chip!Sequencer(in)
<1>1. u = Chip!@@(Chip!@@([dma_req |-> TRUE, dma_dir_in |-> FALSE, dma_in_data |-> TRUE, state |-> "ST_SAT_DMA"], [pause_cnt |-> 0]),
             Chip!When(~in.bsy \/ in.phase # "DATA_IN", [din_ahead |-> <<>>]))
  BY Transferred DEF Chip!Transfer, Chip!Follows, Chip!Pauses, SatStates, Moving, Following, Chip!DataOut, Chip!DataPhases
<1>2. /\ {"dma_req", "dma_dir_in", "dma_in_data", "state", "pause_cnt"} \subseteq DOMAIN u
      /\ DOMAIN u \subseteq {"dma_req", "dma_dir_in", "dma_in_data", "state", "pause_cnt", "din_ahead"}
      /\ u.dma_req = TRUE /\ u.dma_dir_in = FALSE /\ u.dma_in_data = TRUE
      /\ u.state = "ST_SAT_DMA" /\ u.pause_cnt = 0
  BY <1>1 DEF Chip!@@, Chip!When, Chip!Nothing
<1>3. Assigned(u)
  BY Assignments
<1> HIDE DEF u
<1>4. /\ KeepsJob /\ wd'.state = "ST_SAT_DMA" /\ KeepsCommand /\ wd'.count = wd.count
      /\ wd'.dma_in_data = TRUE /\ wd'.dma_dir_in = FALSE /\ KeepsEnd /\ KeepsLatch /\ KeepsResult
      /\ wd'.pause_cnt = 0 /\ wd'.dma_eop = FALSE
  BY <1>2, <1>3 DEF Assigned, KeepsJob, KeepsCommand, KeepsEnd, KeepsLatch, KeepsResult
<1>5. /\ wd'.ack = wd.ack /\ wd'.dma_req = TRUE /\ wd'.sel = wd.sel /\ wd'.cip = wd.cip
  BY <1>2, <1>3 DEF Assigned
<1>6. ChipSat'
  <2>1. /\ wd'.ack = (wd'.state = "ST_SAT_REL") /\ wd'.dma_req = (wd'.state = "ST_SAT_DMA")
        /\ wd'.sel = (wd'.state = "ST_SAT_WAIT") /\ wd'.cip = (wd'.state # "ST_IDLE")
    BY <1>4, <1>5 DEF ChipSat
  <2>2. /\ wd'.state \in {"ST_IDLE"} \union SatStates
        /\ wd'.int_pending \/ wd'.paused => wd'.state = "ST_IDLE"
    BY <1>4 DEF ChipSat, KeepsResult, SatStates, Moving, Following
  <2>3. /\ wd'.pause_cnt \in Nat /\ (wd'.state # "ST_SAT_PHASE" => wd'.pause_cnt = 0)
        /\ wd'.count \in Nat /\ wd'.cmd_phase \in Nat
    BY <1>4 DEF ChipSat, KeepsData, KeepsEnd
  <2>4. QED BY <1>2, <1>3, <2>1, <2>2, <2>3, Reshaped
<1>7. QED BY <1>4, <1>6

\* A byte that came ahead, or one that has to settle.
LEMMA PhaseTakes ==
    ASSUME ChipSat, NEW in, Alone(in),
           wd.state = "ST_SAT_PHASE", in.bsy, ~(wd.dma_in_data /\ in.phase \notin Chip!DataPhases), in.req,
           in.phase = "DATA_IN", wd.count # 0, wd.use_dma, wd.din_ahead # <<>>
    PROVE  /\ ChipSat' /\ KeepsJob /\ wd'.state = "ST_SAT_DMA" /\ KeepsCommand
           /\ wd'.count = wd.count /\ wd'.dma_in_data = TRUE /\ wd'.dma_dir_in = TRUE /\ KeepsEnd
           /\ wd'.data_latch = Head(wd.din_ahead) /\ KeepsResult /\ wd'.pause_cnt = 0
           /\ wd'.dma_eop = FALSE
<1> DEFINE u == Chip!Sequencer(in)
<1>1. u = Chip!@@(Chip!@@(Chip!@@([dma_dir_in |-> TRUE, dma_in_data |-> TRUE],
             [data_latch |-> Head(wd.din_ahead), dma_wdata |-> Head(wd.din_ahead),
              din_ahead |-> Tail(wd.din_ahead), dma_req |-> TRUE, state |-> "ST_SAT_DMA"]), [pause_cnt |-> 0]),
             Chip!When(~in.bsy \/ in.phase # "DATA_IN", [din_ahead |-> <<>>]))
  BY Transferred DEF Chip!Transfer, Chip!Follows, Chip!Pauses, SatStates, Moving, Following, Chip!DataIn, Chip!DataPhases
<1>2. /\ {"dma_req", "dma_dir_in", "dma_in_data", "data_latch", "state", "pause_cnt"} \subseteq DOMAIN u
      /\ DOMAIN u \subseteq {"dma_req", "dma_dir_in", "dma_in_data", "data_latch", "state", "pause_cnt", "din_ahead", "dma_wdata"}
      /\ u.dma_req = TRUE /\ u.dma_dir_in = TRUE /\ u.dma_in_data = TRUE
      /\ u.data_latch = Head(wd.din_ahead) /\ u.state = "ST_SAT_DMA" /\ u.pause_cnt = 0
  BY <1>1 DEF Chip!@@, Chip!When, Chip!Nothing
<1>3. Assigned(u)
  BY Assignments
<1> HIDE DEF u
<1>4. /\ KeepsJob /\ wd'.state = "ST_SAT_DMA" /\ KeepsCommand /\ wd'.count = wd.count
      /\ wd'.dma_in_data = TRUE /\ wd'.dma_dir_in = TRUE /\ KeepsEnd
      /\ wd'.data_latch = Head(wd.din_ahead) /\ KeepsResult /\ wd'.pause_cnt = 0
      /\ wd'.dma_eop = FALSE
  BY <1>2, <1>3 DEF Assigned, KeepsJob, KeepsCommand, KeepsEnd, KeepsResult
<1>5. /\ wd'.ack = wd.ack /\ wd'.dma_req = TRUE /\ wd'.sel = wd.sel /\ wd'.cip = wd.cip
  BY <1>2, <1>3 DEF Assigned
<1>6. ChipSat'
  <2>1. /\ wd'.ack = (wd'.state = "ST_SAT_REL") /\ wd'.dma_req = (wd'.state = "ST_SAT_DMA")
        /\ wd'.sel = (wd'.state = "ST_SAT_WAIT") /\ wd'.cip = (wd'.state # "ST_IDLE")
    BY <1>4, <1>5 DEF ChipSat
  <2>2. /\ wd'.state \in {"ST_IDLE"} \union SatStates
        /\ wd'.int_pending \/ wd'.paused => wd'.state = "ST_IDLE"
    BY <1>4 DEF ChipSat, KeepsResult, SatStates, Moving, Following
  <2>3. /\ wd'.pause_cnt \in Nat /\ (wd'.state # "ST_SAT_PHASE" => wd'.pause_cnt = 0)
        /\ wd'.count \in Nat /\ wd'.cmd_phase \in Nat
    BY <1>4 DEF ChipSat, KeepsData, KeepsEnd
  <2>4. QED BY <1>2, <1>3, <2>1, <2>2, <2>3, Reshaped
<1>7. QED BY <1>4, <1>6

LEMMA PhaseSettles ==
    ASSUME ChipSat, NEW in, Alone(in),
           wd.state = "ST_SAT_PHASE", in.bsy, ~(wd.dma_in_data /\ in.phase \notin Chip!DataPhases), in.req,
           in.phase = "DATA_IN", wd.count # 0, wd.use_dma, wd.din_ahead = <<>>
    PROVE  /\ ChipSat' /\ KeepsJob /\ wd'.state = "ST_SAT_DIN" /\ KeepsCommand
           /\ wd'.count = wd.count /\ wd'.dma_in_data = TRUE /\ wd'.dma_dir_in = TRUE /\ KeepsEnd
           /\ KeepsLatch /\ KeepsResult /\ wd'.pause_cnt = 0 /\ wd'.dma_eop = FALSE
<1> DEFINE u == Chip!Sequencer(in)
<1>1. u = Chip!@@(Chip!@@(Chip!@@([dma_dir_in |-> TRUE, dma_in_data |-> TRUE],
             [din_settle |-> DIN_SETTLE, din_req_held |-> TRUE, state |-> "ST_SAT_DIN"]), [pause_cnt |-> 0]),
             Chip!When(~in.bsy \/ in.phase # "DATA_IN", [din_ahead |-> <<>>]))
  BY Transferred DEF Chip!Transfer, Chip!Follows, Chip!Pauses, SatStates, Moving, Following, Chip!DataIn, Chip!DataPhases
<1>2. /\ {"dma_dir_in", "dma_in_data", "state", "pause_cnt"} \subseteq DOMAIN u
      /\ DOMAIN u \subseteq {"dma_dir_in", "dma_in_data", "state", "pause_cnt", "din_ahead", "din_req_held", "din_settle"}
      /\ u.dma_dir_in = TRUE /\ u.dma_in_data = TRUE /\ u.state = "ST_SAT_DIN" /\ u.pause_cnt = 0
  BY <1>1 DEF Chip!@@, Chip!When, Chip!Nothing
<1>3. Assigned(u)
  BY Assignments
<1> HIDE DEF u
<1>4. /\ KeepsJob /\ wd'.state = "ST_SAT_DIN" /\ KeepsCommand /\ wd'.count = wd.count
      /\ wd'.dma_in_data = TRUE /\ wd'.dma_dir_in = TRUE /\ KeepsEnd /\ KeepsLatch /\ KeepsResult
      /\ wd'.pause_cnt = 0 /\ wd'.dma_eop = FALSE
  BY <1>2, <1>3 DEF Assigned, KeepsJob, KeepsCommand, KeepsEnd, KeepsLatch, KeepsResult
<1>5. /\ wd'.ack = wd.ack /\ wd'.dma_req = wd.dma_req /\ wd'.sel = wd.sel /\ wd'.cip = wd.cip
  BY <1>2, <1>3 DEF Assigned
<1>6. ChipSat'
  <2>1. /\ wd'.ack = (wd'.state = "ST_SAT_REL") /\ wd'.dma_req = (wd'.state = "ST_SAT_DMA")
        /\ wd'.sel = (wd'.state = "ST_SAT_WAIT") /\ wd'.cip = (wd'.state # "ST_IDLE")
    BY <1>4, <1>5 DEF ChipSat
  <2>2. /\ wd'.state \in {"ST_IDLE"} \union SatStates
        /\ wd'.int_pending \/ wd'.paused => wd'.state = "ST_IDLE"
    BY <1>4 DEF ChipSat, KeepsResult, SatStates, Moving, Following
  <2>3. /\ wd'.pause_cnt \in Nat /\ (wd'.state # "ST_SAT_PHASE" => wd'.pause_cnt = 0)
        /\ wd'.count \in Nat /\ wd'.cmd_phase \in Nat
    BY <1>4 DEF ChipSat, KeepsData, KeepsEnd
  <2>4. QED BY <1>2, <1>3, <2>1, <2>2, <2>3, Reshaped
<1>7. QED BY <1>4, <1>6

\* The count is exhausted and the target asks for more: for how long?
LEMMA PhaseCounts ==
    ASSUME ChipSat, NEW in, Alone(in),
           wd.state = "ST_SAT_PHASE", in.bsy, in.req,
           in.phase \in Chip!DataPhases, wd.count = 0, wd.pause_cnt # PAUSE
    PROVE  /\ ChipSat' /\ KeepsJob /\ wd'.state = wd.state /\ KeepsCommand /\ KeepsData
           /\ KeepsEnd /\ KeepsLatch /\ KeepsResult /\ wd'.pause_cnt = wd.pause_cnt + 1
           /\ wd'.dma_eop = FALSE
<1> DEFINE u == Chip!Sequencer(in)
<1>1. u = Chip!@@(Chip!@@(Chip!Nothing, Chip!@@([pause_cnt |-> wd.pause_cnt + 1], Chip!Nothing)),
             Chip!When(~in.bsy \/ in.phase # "DATA_IN", [din_ahead |-> <<>>]))
  BY Transferred DEF Chip!Transfer, Chip!Follows, Chip!Pauses, SatStates, Moving, Following, Chip!DataIn, Chip!DataOut, Chip!DataPhases, Chip!PauseIsReal, Chip!When
<1>2. /\ {"pause_cnt"} \subseteq DOMAIN u /\ DOMAIN u \subseteq {"pause_cnt", "din_ahead"}
      /\ u.pause_cnt = wd.pause_cnt + 1
  BY <1>1 DEF Chip!@@, Chip!When, Chip!Nothing
<1>3. Assigned(u)
  BY Assignments
<1> HIDE DEF u
<1>4. /\ KeepsJob /\ wd'.state = wd.state /\ KeepsCommand /\ KeepsData /\ KeepsEnd /\ KeepsLatch
      /\ KeepsResult /\ wd'.pause_cnt = wd.pause_cnt + 1 /\ wd'.dma_eop = FALSE
  BY <1>2, <1>3 DEF Assigned, KeepsJob, KeepsCommand, KeepsData, KeepsEnd, KeepsLatch, KeepsResult
<1>5. /\ wd'.ack = wd.ack /\ wd'.dma_req = wd.dma_req /\ wd'.sel = wd.sel /\ wd'.cip = wd.cip
  BY <1>2, <1>3 DEF Assigned
<1>6. ChipSat'
  <2>1. /\ wd'.ack = (wd'.state = "ST_SAT_REL") /\ wd'.dma_req = (wd'.state = "ST_SAT_DMA")
        /\ wd'.sel = (wd'.state = "ST_SAT_WAIT") /\ wd'.cip = (wd'.state # "ST_IDLE")
    BY <1>4, <1>5 DEF ChipSat
  <2>2. /\ wd'.state \in {"ST_IDLE"} \union SatStates
        /\ wd'.int_pending \/ wd'.paused => wd'.state = "ST_IDLE"
    BY <1>4 DEF ChipSat, KeepsResult, SatStates, Moving, Following
  <2>3. /\ wd'.pause_cnt \in Nat /\ (wd'.state # "ST_SAT_PHASE" => wd'.pause_cnt = 0)
        /\ wd'.count \in Nat /\ wd'.cmd_phase \in Nat
    BY <1>4 DEF ChipSat, KeepsData, KeepsEnd
  <2>4. QED BY <1>2, <1>3, <2>1, <2>2, <2>3, Reshaped
<1>7. QED BY <1>4, <1>6

LEMMA PhasePauses ==
    ASSUME ChipSat, NEW in, Alone(in),
           wd.state = "ST_SAT_PHASE", in.bsy, in.req,
           in.phase \in Chip!DataPhases, wd.count = 0, wd.pause_cnt = PAUSE
    PROVE  /\ ChipSat' /\ KeepsJob /\ wd'.state = "ST_IDLE" /\ KeepsCommand /\ KeepsData
           /\ KeepsEnd /\ KeepsLatch /\ wd'.int_pending = TRUE
           /\ wd'.status = <<IF in.phase = "DATA_IN" THEN "S_PAUSE_READ" ELSE "S_PAUSE_WRITE">>
           /\ wd'.paused = TRUE /\ wd'.pause_cnt = 0 /\ wd'.dma_eop = FALSE
<1> DEFINE u == Chip!Sequencer(in)
<1>1. u = Chip!@@(Chip!@@(Chip!Nothing, Chip!@@([pause_cnt |-> 0],
             Chip!@@([cip |-> FALSE, dbr |-> FALSE, paused |-> TRUE, state |-> "ST_IDLE"],
             Chip!Result(<<IF in.phase = "DATA_IN" THEN "S_PAUSE_READ" ELSE "S_PAUSE_WRITE">>)))),
             Chip!When(~in.bsy \/ in.phase # "DATA_IN", [din_ahead |-> <<>>]))
  BY Transferred DEF Chip!Transfer, Chip!Follows, Chip!Pauses, SatStates, Moving, Following, Chip!DataIn, Chip!DataOut, Chip!DataPhases, Chip!PauseIsReal, Chip!When
<1>2. /\ {"pause_cnt", "cip", "paused", "state", "int_pending", "status"} \subseteq DOMAIN u
      /\ DOMAIN u \subseteq {"pause_cnt", "cip", "paused", "state", "int_pending", "status", "dbr", "din_ahead"}
      /\ u.pause_cnt = 0 /\ u.cip = FALSE /\ u.paused = TRUE /\ u.state = "ST_IDLE"
      /\ u.int_pending = TRUE
      /\ u.status = <<IF in.phase = "DATA_IN" THEN "S_PAUSE_READ" ELSE "S_PAUSE_WRITE">>
  BY <1>1 DEF Chip!@@, Chip!When, Chip!Nothing, Chip!Result
<1>3. Assigned(u)
  BY Assignments
<1> HIDE DEF u
<1>4. /\ KeepsJob /\ wd'.state = "ST_IDLE" /\ KeepsCommand /\ KeepsData /\ KeepsEnd /\ KeepsLatch
      /\ wd'.int_pending = TRUE
      /\ wd'.status = <<IF in.phase = "DATA_IN" THEN "S_PAUSE_READ" ELSE "S_PAUSE_WRITE">>
      /\ wd'.paused = TRUE /\ wd'.pause_cnt = 0 /\ wd'.dma_eop = FALSE
  BY <1>2, <1>3 DEF Assigned, KeepsJob, KeepsCommand, KeepsData, KeepsEnd, KeepsLatch
<1>5. /\ wd'.ack = wd.ack /\ wd'.dma_req = wd.dma_req /\ wd'.sel = wd.sel /\ wd'.cip = FALSE
  BY <1>2, <1>3 DEF Assigned
<1>6. ChipSat'
  <2>1. /\ wd'.ack = (wd'.state = "ST_SAT_REL") /\ wd'.dma_req = (wd'.state = "ST_SAT_DMA")
        /\ wd'.sel = (wd'.state = "ST_SAT_WAIT") /\ wd'.cip = (wd'.state # "ST_IDLE")
    BY <1>4, <1>5 DEF ChipSat
  <2>2. /\ wd'.state \in {"ST_IDLE"} \union SatStates
        /\ wd'.int_pending \/ wd'.paused => wd'.state = "ST_IDLE"
    BY <1>4 DEF ChipSat, KeepsResult, SatStates, Moving, Following
  <2>3. /\ wd'.pause_cnt \in Nat /\ (wd'.state # "ST_SAT_PHASE" => wd'.pause_cnt = 0)
        /\ wd'.count \in Nat /\ wd'.cmd_phase \in Nat
    BY <1>4 DEF ChipSat, KeepsData, KeepsEnd
  <2>4. QED BY <1>2, <1>3, <2>1, <2>2, <2>3, Reshaped
<1>7. QED BY <1>4, <1>6

LEMMA PhaseStatus ==
    ASSUME ChipSat, NEW in, Alone(in),
           wd.state = "ST_SAT_PHASE", in.bsy, ~(wd.dma_in_data /\ in.phase \notin Chip!DataPhases), in.req, in.phase = "STATUS"
    PROVE  /\ ChipSat' /\ KeepsJob /\ wd'.state = "ST_SAT_ACK" /\ KeepsCommand /\ KeepsData
           /\ wd'.cmd_phase = 71 /\ wd'.target_lun = in.din /\ KeepsLatch /\ KeepsResult
           /\ wd'.pause_cnt = 0 /\ wd'.dma_eop = FALSE
<1> DEFINE u == Chip!Sequencer(in)
<1>1. u = Chip!@@(Chip!@@([target_lun |-> in.din, cmd_phase |-> Chip!CP_RECV_STATUS, state |-> "ST_SAT_ACK"], [pause_cnt |-> 0]),
             Chip!When(~in.bsy \/ in.phase # "DATA_IN", [din_ahead |-> <<>>]))
  BY Transferred DEF Chip!Transfer, Chip!Follows, Chip!Pauses, SatStates, Moving, Following, Chip!DataPhases
<1>2. /\ {"target_lun", "cmd_phase", "state", "pause_cnt"} \subseteq DOMAIN u
      /\ DOMAIN u \subseteq {"target_lun", "cmd_phase", "state", "pause_cnt", "din_ahead"}
      /\ u.target_lun = in.din /\ u.cmd_phase = 71 /\ u.state = "ST_SAT_ACK" /\ u.pause_cnt = 0
  BY <1>1 DEF Chip!@@, Chip!When, Chip!Nothing, Chip!CP_RECV_STATUS
<1>3. Assigned(u)
  BY Assignments
<1> HIDE DEF u
<1>4. /\ KeepsJob /\ wd'.state = "ST_SAT_ACK" /\ KeepsCommand /\ KeepsData /\ wd'.cmd_phase = 71
      /\ wd'.target_lun = in.din /\ KeepsLatch /\ KeepsResult /\ wd'.pause_cnt = 0
      /\ wd'.dma_eop = FALSE
  BY <1>2, <1>3 DEF Assigned, KeepsJob, KeepsCommand, KeepsData, KeepsLatch, KeepsResult
<1>5. /\ wd'.ack = wd.ack /\ wd'.dma_req = wd.dma_req /\ wd'.sel = wd.sel /\ wd'.cip = wd.cip
  BY <1>2, <1>3 DEF Assigned
<1>6. ChipSat'
  <2>1. /\ wd'.ack = (wd'.state = "ST_SAT_REL") /\ wd'.dma_req = (wd'.state = "ST_SAT_DMA")
        /\ wd'.sel = (wd'.state = "ST_SAT_WAIT") /\ wd'.cip = (wd'.state # "ST_IDLE")
    BY <1>4, <1>5 DEF ChipSat
  <2>2. /\ wd'.state \in {"ST_IDLE"} \union SatStates
        /\ wd'.int_pending \/ wd'.paused => wd'.state = "ST_IDLE"
    BY <1>4 DEF ChipSat, KeepsResult, SatStates, Moving, Following
  <2>3. /\ wd'.pause_cnt \in Nat /\ (wd'.state # "ST_SAT_PHASE" => wd'.pause_cnt = 0)
        /\ wd'.count \in Nat /\ wd'.cmd_phase \in Nat
    BY <1>4 DEF ChipSat, KeepsData, KeepsEnd
  <2>4. QED BY <1>2, <1>3, <2>1, <2>2, <2>3, Reshaped
<1>7. QED BY <1>4, <1>6

LEMMA PhaseMessage ==
    ASSUME ChipSat, NEW in, Alone(in),
           wd.state = "ST_SAT_PHASE", in.bsy, ~(wd.dma_in_data /\ in.phase \notin Chip!DataPhases), in.req, in.phase = "MSG_IN"
    PROVE  /\ ChipSat' /\ KeepsJob /\ wd'.state = "ST_SAT_ACK" /\ KeepsCommand /\ KeepsData
           /\ wd'.cmd_phase = 80 /\ wd'.target_lun = wd.target_lun /\ KeepsLatch /\ KeepsResult
           /\ wd'.pause_cnt = 0 /\ wd'.dma_eop = FALSE
<1> DEFINE u == Chip!Sequencer(in)
<1>1. u = Chip!@@(Chip!@@([cmd_phase |-> Chip!CP_STATUS_RECVD, state |-> "ST_SAT_ACK"], [pause_cnt |-> 0]),
             Chip!When(~in.bsy \/ in.phase # "DATA_IN", [din_ahead |-> <<>>]))
  BY Transferred DEF Chip!Transfer, Chip!Follows, Chip!Pauses, SatStates, Moving, Following, Chip!DataPhases
<1>2. /\ {"cmd_phase", "state", "pause_cnt"} \subseteq DOMAIN u
      /\ DOMAIN u \subseteq {"cmd_phase", "state", "pause_cnt", "din_ahead"} /\ u.cmd_phase = 80
      /\ u.state = "ST_SAT_ACK" /\ u.pause_cnt = 0
  BY <1>1 DEF Chip!@@, Chip!When, Chip!Nothing, Chip!CP_STATUS_RECVD
<1>3. Assigned(u)
  BY Assignments
<1> HIDE DEF u
<1>4. /\ KeepsJob /\ wd'.state = "ST_SAT_ACK" /\ KeepsCommand /\ KeepsData /\ wd'.cmd_phase = 80
      /\ wd'.target_lun = wd.target_lun /\ KeepsLatch /\ KeepsResult /\ wd'.pause_cnt = 0
      /\ wd'.dma_eop = FALSE
  BY <1>2, <1>3 DEF Assigned, KeepsJob, KeepsCommand, KeepsData, KeepsLatch, KeepsResult
<1>5. /\ wd'.ack = wd.ack /\ wd'.dma_req = wd.dma_req /\ wd'.sel = wd.sel /\ wd'.cip = wd.cip
  BY <1>2, <1>3 DEF Assigned
<1>6. ChipSat'
  <2>1. /\ wd'.ack = (wd'.state = "ST_SAT_REL") /\ wd'.dma_req = (wd'.state = "ST_SAT_DMA")
        /\ wd'.sel = (wd'.state = "ST_SAT_WAIT") /\ wd'.cip = (wd'.state # "ST_IDLE")
    BY <1>4, <1>5 DEF ChipSat
  <2>2. /\ wd'.state \in {"ST_IDLE"} \union SatStates
        /\ wd'.int_pending \/ wd'.paused => wd'.state = "ST_IDLE"
    BY <1>4 DEF ChipSat, KeepsResult, SatStates, Moving, Following
  <2>3. /\ wd'.pause_cnt \in Nat /\ (wd'.state # "ST_SAT_PHASE" => wd'.pause_cnt = 0)
        /\ wd'.count \in Nat /\ wd'.cmd_phase \in Nat
    BY <1>4 DEF ChipSat, KeepsData, KeepsEnd
  <2>4. QED BY <1>2, <1>3, <2>1, <2>2, <2>3, Reshaped
<1>7. QED BY <1>4, <1>6

\* The byte is believed.
LEMMA DinTakes ==
    ASSUME ChipSat, NEW in, Alone(in),
           wd.state = "ST_SAT_DIN", wd.din_settle = 0
    PROVE  /\ ChipSat' /\ KeepsJob /\ wd'.state = "ST_SAT_DMA" /\ KeepsCommand /\ KeepsData
           /\ KeepsEnd /\ wd'.data_latch = in.din /\ KeepsResult /\ wd'.pause_cnt = wd.pause_cnt
           /\ wd'.dma_eop = FALSE
<1> DEFINE u == Chip!Sequencer(in)
<1>1. u = Chip!@@([data_latch |-> in.din, dma_wdata |-> in.din, dma_req |-> TRUE,
              din_ahead |-> Chip!AheadTaken(in), state |-> "ST_SAT_DMA"],
             Chip!When(~in.req, [din_req_held |-> FALSE]))
  BY Transferred DEF Chip!Transfer, Chip!Settles, SatStates, Moving, Following
<1>2. /\ {"data_latch", "dma_req", "state"} \subseteq DOMAIN u
      /\ DOMAIN u \subseteq {"data_latch", "dma_req", "state", "din_ahead", "din_req_held", "dma_wdata"}
      /\ u.data_latch = in.din /\ u.dma_req = TRUE /\ u.state = "ST_SAT_DMA"
  BY <1>1 DEF Chip!@@, Chip!When, Chip!Nothing
<1>3. Assigned(u)
  BY Assignments
<1> HIDE DEF u
<1>4. /\ KeepsJob /\ wd'.state = "ST_SAT_DMA" /\ KeepsCommand /\ KeepsData /\ KeepsEnd
      /\ wd'.data_latch = in.din /\ KeepsResult /\ wd'.pause_cnt = wd.pause_cnt
      /\ wd'.dma_eop = FALSE
  BY <1>2, <1>3 DEF Assigned, KeepsJob, KeepsCommand, KeepsData, KeepsEnd, KeepsResult
<1>5. /\ wd'.ack = wd.ack /\ wd'.dma_req = TRUE /\ wd'.sel = wd.sel /\ wd'.cip = wd.cip
  BY <1>2, <1>3 DEF Assigned
<1>6. ChipSat'
  <2>1. /\ wd'.ack = (wd'.state = "ST_SAT_REL") /\ wd'.dma_req = (wd'.state = "ST_SAT_DMA")
        /\ wd'.sel = (wd'.state = "ST_SAT_WAIT") /\ wd'.cip = (wd'.state # "ST_IDLE")
    BY <1>4, <1>5 DEF ChipSat
  <2>2. /\ wd'.state \in {"ST_IDLE"} \union SatStates
        /\ wd'.int_pending \/ wd'.paused => wd'.state = "ST_IDLE"
    BY <1>4 DEF ChipSat, KeepsResult, SatStates, Moving, Following
  <2>3. /\ wd'.pause_cnt \in Nat /\ (wd'.state # "ST_SAT_PHASE" => wd'.pause_cnt = 0)
        /\ wd'.count \in Nat /\ wd'.cmd_phase \in Nat
    BY <1>4 DEF ChipSat, KeepsData, KeepsEnd
  <2>4. QED BY <1>2, <1>3, <2>1, <2>2, <2>3, Reshaped
<1>7. QED BY <1>4, <1>6

\* The channel gives a byte.
LEMMA DmaSends ==
    ASSUME ChipSat, NEW in, Alone(in),
           wd.state = "ST_SAT_DMA", in.dma_ack, ~wd.dma_dir_in
    PROVE  /\ ChipSat' /\ KeepsJob /\ wd'.state = "ST_SAT_ACK" /\ KeepsCommand /\ KeepsData
           /\ KeepsEnd /\ wd'.data_latch = in.dma_rdata /\ KeepsResult
           /\ wd'.pause_cnt = wd.pause_cnt /\ wd'.dma_eop = FALSE
<1> DEFINE u == Chip!Sequencer(in)
<1>1. u = Chip!@@([dma_req |-> FALSE, state |-> "ST_SAT_ACK"], [data_latch |-> in.dma_rdata])
  BY Transferred DEF Chip!Transfer, Chip!When, SatStates, Moving, Following
<1>2. /\ DOMAIN u = {"dma_req", "data_latch", "state"} /\ u.dma_req = FALSE
      /\ u.data_latch = in.dma_rdata /\ u.state = "ST_SAT_ACK"
  BY <1>1 DEF Chip!@@
<1>3. Assigned(u)
  BY Assignments
<1> HIDE DEF u
<1>4. /\ KeepsJob /\ wd'.state = "ST_SAT_ACK" /\ KeepsCommand /\ KeepsData /\ KeepsEnd
      /\ wd'.data_latch = in.dma_rdata /\ KeepsResult /\ wd'.pause_cnt = wd.pause_cnt
      /\ wd'.dma_eop = FALSE
  BY <1>2, <1>3 DEF Assigned, KeepsJob, KeepsCommand, KeepsData, KeepsEnd, KeepsResult
<1>5. /\ wd'.ack = wd.ack /\ wd'.dma_req = FALSE /\ wd'.sel = wd.sel /\ wd'.cip = wd.cip
  BY <1>2, <1>3 DEF Assigned
<1>6. ChipSat'
  <2>1. /\ wd'.ack = (wd'.state = "ST_SAT_REL") /\ wd'.dma_req = (wd'.state = "ST_SAT_DMA")
        /\ wd'.sel = (wd'.state = "ST_SAT_WAIT") /\ wd'.cip = (wd'.state # "ST_IDLE")
    BY <1>4, <1>5 DEF ChipSat
  <2>2. /\ wd'.state \in {"ST_IDLE"} \union SatStates
        /\ wd'.int_pending \/ wd'.paused => wd'.state = "ST_IDLE"
    BY <1>4 DEF ChipSat, KeepsResult, SatStates, Moving, Following
  <2>3. /\ wd'.pause_cnt \in Nat /\ (wd'.state # "ST_SAT_PHASE" => wd'.pause_cnt = 0)
        /\ wd'.count \in Nat /\ wd'.cmd_phase \in Nat
    BY <1>4 DEF ChipSat, KeepsData, KeepsEnd
  <2>4. QED BY <1>2, <1>3, <2>1, <2>2, <2>3, Reshaped
<1>7. QED BY <1>4, <1>6

LEMMA DmaTakes ==
    ASSUME ChipSat, NEW in, Alone(in),
           wd.state = "ST_SAT_DMA", in.dma_ack, wd.dma_dir_in
    PROVE  /\ ChipSat' /\ KeepsJob /\ wd'.state = "ST_SAT_ACK" /\ KeepsCommand /\ KeepsData
           /\ KeepsEnd /\ KeepsLatch /\ KeepsResult /\ wd'.pause_cnt = wd.pause_cnt
           /\ wd'.dma_eop = FALSE
<1> DEFINE u == Chip!Sequencer(in)
<1>1. u = Chip!@@([dma_req |-> FALSE, state |-> "ST_SAT_ACK"], Chip!Nothing)
  BY Transferred DEF Chip!Transfer, Chip!When, SatStates, Moving, Following
<1>2. /\ DOMAIN u = {"dma_req", "state"} /\ u.dma_req = FALSE /\ u.state = "ST_SAT_ACK"
  BY <1>1 DEF Chip!@@, Chip!Nothing
<1>3. Assigned(u)
  BY Assignments
<1> HIDE DEF u
<1>4. /\ KeepsJob /\ wd'.state = "ST_SAT_ACK" /\ KeepsCommand /\ KeepsData /\ KeepsEnd
      /\ KeepsLatch /\ KeepsResult /\ wd'.pause_cnt = wd.pause_cnt /\ wd'.dma_eop = FALSE
  BY <1>2, <1>3 DEF Assigned, KeepsJob, KeepsCommand, KeepsData, KeepsEnd, KeepsLatch, KeepsResult
<1>5. /\ wd'.ack = wd.ack /\ wd'.dma_req = FALSE /\ wd'.sel = wd.sel /\ wd'.cip = wd.cip
  BY <1>2, <1>3 DEF Assigned
<1>6. ChipSat'
  <2>1. /\ wd'.ack = (wd'.state = "ST_SAT_REL") /\ wd'.dma_req = (wd'.state = "ST_SAT_DMA")
        /\ wd'.sel = (wd'.state = "ST_SAT_WAIT") /\ wd'.cip = (wd'.state # "ST_IDLE")
    BY <1>4, <1>5 DEF ChipSat
  <2>2. /\ wd'.state \in {"ST_IDLE"} \union SatStates
        /\ wd'.int_pending \/ wd'.paused => wd'.state = "ST_IDLE"
    BY <1>4 DEF ChipSat, KeepsResult, SatStates, Moving, Following
  <2>3. /\ wd'.pause_cnt \in Nat /\ (wd'.state # "ST_SAT_PHASE" => wd'.pause_cnt = 0)
        /\ wd'.count \in Nat /\ wd'.cmd_phase \in Nat
    BY <1>4 DEF ChipSat, KeepsData, KeepsEnd
  <2>4. QED BY <1>2, <1>3, <2>1, <2>2, <2>3, Reshaped
<1>7. QED BY <1>4, <1>6

LEMMA AckRises ==
    ASSUME ChipSat, NEW in, Alone(in),
           wd.state = "ST_SAT_ACK", in.req
    PROVE  /\ ChipSat' /\ KeepsJob /\ wd'.state = "ST_SAT_REL" /\ KeepsCommand /\ KeepsData
           /\ KeepsEnd /\ KeepsLatch /\ KeepsResult /\ wd'.pause_cnt = wd.pause_cnt
           /\ wd'.dma_eop = FALSE
<1> DEFINE u == Chip!Sequencer(in)
<1>1. u = [ack |-> TRUE, state |-> "ST_SAT_REL"]
  BY Transferred DEF Chip!Transfer, Chip!Acks, Chip!When, SatStates, Moving, Following
<1>2. /\ DOMAIN u = {"ack", "state"} /\ u.ack = TRUE /\ u.state = "ST_SAT_REL"
  BY <1>1 DEF Chip!@@
<1>3. Assigned(u)
  BY Assignments
<1> HIDE DEF u
<1>4. /\ KeepsJob /\ wd'.state = "ST_SAT_REL" /\ KeepsCommand /\ KeepsData /\ KeepsEnd
      /\ KeepsLatch /\ KeepsResult /\ wd'.pause_cnt = wd.pause_cnt /\ wd'.dma_eop = FALSE
  BY <1>2, <1>3 DEF Assigned, KeepsJob, KeepsCommand, KeepsData, KeepsEnd, KeepsLatch, KeepsResult
<1>5. /\ wd'.ack = TRUE /\ wd'.dma_req = wd.dma_req /\ wd'.sel = wd.sel /\ wd'.cip = wd.cip
  BY <1>2, <1>3 DEF Assigned
<1>6. ChipSat'
  <2>1. /\ wd'.ack = (wd'.state = "ST_SAT_REL") /\ wd'.dma_req = (wd'.state = "ST_SAT_DMA")
        /\ wd'.sel = (wd'.state = "ST_SAT_WAIT") /\ wd'.cip = (wd'.state # "ST_IDLE")
    BY <1>4, <1>5 DEF ChipSat
  <2>2. /\ wd'.state \in {"ST_IDLE"} \union SatStates
        /\ wd'.int_pending \/ wd'.paused => wd'.state = "ST_IDLE"
    BY <1>4 DEF ChipSat, KeepsResult, SatStates, Moving, Following
  <2>3. /\ wd'.pause_cnt \in Nat /\ (wd'.state # "ST_SAT_PHASE" => wd'.pause_cnt = 0)
        /\ wd'.count \in Nat /\ wd'.cmd_phase \in Nat
    BY <1>4 DEF ChipSat, KeepsData, KeepsEnd
  <2>4. QED BY <1>2, <1>3, <2>1, <2>2, <2>3, Reshaped
<1>7. QED BY <1>4, <1>6

\* A byte of the CDB is over.
LEMMA RelCommands ==
    ASSUME ChipSat, NEW in, Alone(in),
           wd.state = "ST_SAT_REL", ~in.req, in.phase = "COMMAND", wd.cdb_idx \in Nat, wd.cdb_idx + 1 < wd.cdb_len
    PROVE  /\ ChipSat' /\ KeepsJob /\ wd'.state = "ST_SAT_PHASE" /\ wd'.atn = wd.atn
           /\ wd'.identify_sent = wd.identify_sent /\ wd'.cdb_sent = wd.cdb_sent
           /\ wd'.cdb_idx = wd.cdb_idx + 1 /\ KeepsData /\ wd'.cmd_phase = 48 + wd.cdb_idx + 1
           /\ wd'.target_lun = wd.target_lun /\ KeepsLatch /\ KeepsResult
           /\ wd'.pause_cnt = wd.pause_cnt /\ wd'.dma_eop = FALSE
<1> DEFINE u == Chip!Sequencer(in)
<1>1. u = Chip!@@([ack |-> FALSE, state |-> "ST_SAT_PHASE"], Chip!@@([cmd_phase |-> 48 + wd.cdb_idx + 1], [cdb_idx |-> wd.cdb_idx + 1]))
  BY Transferred DEF Chip!Transfer, Chip!Releases, Chip!When, Chip!DataPhases, SatStates, Moving, Following, Chip!CP_CMD_START
<1>2. /\ DOMAIN u = {"ack", "state", "cmd_phase", "cdb_idx"} /\ u.ack = FALSE
      /\ u.state = "ST_SAT_PHASE" /\ u.cmd_phase = 48 + wd.cdb_idx + 1
      /\ u.cdb_idx = wd.cdb_idx + 1
  BY <1>1 DEF Chip!@@
<1>3. Assigned(u)
  BY Assignments
<1> HIDE DEF u
<1>4. /\ KeepsJob /\ wd'.state = "ST_SAT_PHASE" /\ wd'.atn = wd.atn
      /\ wd'.identify_sent = wd.identify_sent /\ wd'.cdb_sent = wd.cdb_sent
      /\ wd'.cdb_idx = wd.cdb_idx + 1 /\ KeepsData /\ wd'.cmd_phase = 48 + wd.cdb_idx + 1
      /\ wd'.target_lun = wd.target_lun /\ KeepsLatch /\ KeepsResult
      /\ wd'.pause_cnt = wd.pause_cnt /\ wd'.dma_eop = FALSE
  BY <1>2, <1>3 DEF Assigned, KeepsJob, KeepsData, KeepsLatch, KeepsResult
<1>5. /\ wd'.ack = FALSE /\ wd'.dma_req = wd.dma_req /\ wd'.sel = wd.sel /\ wd'.cip = wd.cip
  BY <1>2, <1>3 DEF Assigned
<1>6. ChipSat'
  <2>1. /\ wd'.ack = (wd'.state = "ST_SAT_REL") /\ wd'.dma_req = (wd'.state = "ST_SAT_DMA")
        /\ wd'.sel = (wd'.state = "ST_SAT_WAIT") /\ wd'.cip = (wd'.state # "ST_IDLE")
    BY <1>4, <1>5 DEF ChipSat
  <2>2. /\ wd'.state \in {"ST_IDLE"} \union SatStates
        /\ wd'.int_pending \/ wd'.paused => wd'.state = "ST_IDLE"
    BY <1>4 DEF ChipSat, KeepsResult, SatStates, Moving, Following
  <2>3. /\ wd'.pause_cnt \in Nat /\ (wd'.state # "ST_SAT_PHASE" => wd'.pause_cnt = 0)
        /\ wd'.count \in Nat /\ wd'.cmd_phase \in Nat
    BY <1>4 DEF ChipSat, KeepsData, KeepsEnd
  <2>4. QED BY <1>2, <1>3, <2>1, <2>2, <2>3, Reshaped
<1>7. QED BY <1>4, <1>6

LEMMA RelCommanded ==
    ASSUME ChipSat, NEW in, Alone(in),
           wd.state = "ST_SAT_REL", ~in.req, in.phase = "COMMAND", wd.cdb_idx \in Nat, ~(wd.cdb_idx + 1 < wd.cdb_len)
    PROVE  /\ ChipSat' /\ KeepsJob /\ wd'.state = "ST_SAT_PHASE" /\ wd'.atn = wd.atn
           /\ wd'.identify_sent = wd.identify_sent /\ wd'.cdb_sent = TRUE
           /\ wd'.cdb_idx = wd.cdb_idx /\ KeepsData /\ wd'.cmd_phase = 48 + wd.cdb_idx + 1
           /\ wd'.target_lun = wd.target_lun /\ KeepsLatch /\ KeepsResult
           /\ wd'.pause_cnt = wd.pause_cnt /\ wd'.dma_eop = FALSE
<1> DEFINE u == Chip!Sequencer(in)
<1>1. u = Chip!@@([ack |-> FALSE, state |-> "ST_SAT_PHASE"], Chip!@@([cmd_phase |-> 48 + wd.cdb_idx + 1], [cdb_sent |-> TRUE]))
  BY Transferred DEF Chip!Transfer, Chip!Releases, Chip!When, Chip!DataPhases, SatStates, Moving, Following, Chip!CP_CMD_START
<1>2. /\ DOMAIN u = {"ack", "state", "cmd_phase", "cdb_sent"} /\ u.ack = FALSE
      /\ u.state = "ST_SAT_PHASE" /\ u.cmd_phase = 48 + wd.cdb_idx + 1 /\ u.cdb_sent = TRUE
  BY <1>1 DEF Chip!@@
<1>3. Assigned(u)
  BY Assignments
<1> HIDE DEF u
<1>4. /\ KeepsJob /\ wd'.state = "ST_SAT_PHASE" /\ wd'.atn = wd.atn
      /\ wd'.identify_sent = wd.identify_sent /\ wd'.cdb_sent = TRUE /\ wd'.cdb_idx = wd.cdb_idx
      /\ KeepsData /\ wd'.cmd_phase = 48 + wd.cdb_idx + 1 /\ wd'.target_lun = wd.target_lun
      /\ KeepsLatch /\ KeepsResult /\ wd'.pause_cnt = wd.pause_cnt /\ wd'.dma_eop = FALSE
  BY <1>2, <1>3 DEF Assigned, KeepsJob, KeepsData, KeepsLatch, KeepsResult
<1>5. /\ wd'.ack = FALSE /\ wd'.dma_req = wd.dma_req /\ wd'.sel = wd.sel /\ wd'.cip = wd.cip
  BY <1>2, <1>3 DEF Assigned
<1>6. ChipSat'
  <2>1. /\ wd'.ack = (wd'.state = "ST_SAT_REL") /\ wd'.dma_req = (wd'.state = "ST_SAT_DMA")
        /\ wd'.sel = (wd'.state = "ST_SAT_WAIT") /\ wd'.cip = (wd'.state # "ST_IDLE")
    BY <1>4, <1>5 DEF ChipSat
  <2>2. /\ wd'.state \in {"ST_IDLE"} \union SatStates
        /\ wd'.int_pending \/ wd'.paused => wd'.state = "ST_IDLE"
    BY <1>4 DEF ChipSat, KeepsResult, SatStates, Moving, Following
  <2>3. /\ wd'.pause_cnt \in Nat /\ (wd'.state # "ST_SAT_PHASE" => wd'.pause_cnt = 0)
        /\ wd'.count \in Nat /\ wd'.cmd_phase \in Nat
    BY <1>4 DEF ChipSat, KeepsData, KeepsEnd
  <2>4. QED BY <1>2, <1>3, <2>1, <2>2, <2>3, Reshaped
<1>7. QED BY <1>4, <1>6

\* A byte of data is.
LEMMA RelCounts ==
    ASSUME ChipSat, NEW in, Alone(in),
           wd.state = "ST_SAT_REL", ~in.req, in.phase \in Chip!DataPhases, wd.count \notin {0, 1}
    PROVE  /\ ChipSat' /\ KeepsJob /\ wd'.state = "ST_SAT_PHASE" /\ KeepsCommand
           /\ wd'.count = wd.count - 1 /\ wd'.dma_in_data = wd.dma_in_data
           /\ wd'.dma_dir_in = wd.dma_dir_in /\ KeepsEnd /\ KeepsLatch /\ KeepsResult
           /\ wd'.pause_cnt = wd.pause_cnt /\ wd'.dma_eop = FALSE
<1> DEFINE u == Chip!Sequencer(in)
<1>1. u = Chip!@@([ack |-> FALSE, state |-> "ST_SAT_PHASE"], Chip!@@([count |-> wd.count - 1], Chip!Nothing))
  BY Transferred DEF Chip!Transfer, Chip!Releases, Chip!When, Chip!DataPhases, SatStates, Moving, Following, Chip!Counted
<1>2. /\ DOMAIN u = {"ack", "state", "count"} /\ u.ack = FALSE /\ u.state = "ST_SAT_PHASE"
      /\ u.count = wd.count - 1
  BY <1>1 DEF Chip!@@, Chip!Nothing
<1>3. Assigned(u)
  BY Assignments
<1> HIDE DEF u
<1>4. /\ KeepsJob /\ wd'.state = "ST_SAT_PHASE" /\ KeepsCommand /\ wd'.count = wd.count - 1
      /\ wd'.dma_in_data = wd.dma_in_data /\ wd'.dma_dir_in = wd.dma_dir_in /\ KeepsEnd
      /\ KeepsLatch /\ KeepsResult /\ wd'.pause_cnt = wd.pause_cnt /\ wd'.dma_eop = FALSE
  BY <1>2, <1>3 DEF Assigned, KeepsJob, KeepsCommand, KeepsEnd, KeepsLatch, KeepsResult
<1>5. /\ wd'.ack = FALSE /\ wd'.dma_req = wd.dma_req /\ wd'.sel = wd.sel /\ wd'.cip = wd.cip
  BY <1>2, <1>3 DEF Assigned
<1>6. ChipSat'
  <2>1. /\ wd'.ack = (wd'.state = "ST_SAT_REL") /\ wd'.dma_req = (wd'.state = "ST_SAT_DMA")
        /\ wd'.sel = (wd'.state = "ST_SAT_WAIT") /\ wd'.cip = (wd'.state # "ST_IDLE")
    BY <1>4, <1>5 DEF ChipSat
  <2>2. /\ wd'.state \in {"ST_IDLE"} \union SatStates
        /\ wd'.int_pending \/ wd'.paused => wd'.state = "ST_IDLE"
    BY <1>4 DEF ChipSat, KeepsResult, SatStates, Moving, Following
  <2>3. /\ wd'.pause_cnt \in Nat /\ (wd'.state # "ST_SAT_PHASE" => wd'.pause_cnt = 0)
        /\ wd'.count \in Nat /\ wd'.cmd_phase \in Nat
    BY <1>4 DEF ChipSat, KeepsData, KeepsEnd
  <2>4. QED BY <1>2, <1>3, <2>1, <2>2, <2>3, Reshaped
<1>7. QED BY <1>4, <1>6

LEMMA RelLast ==
    ASSUME ChipSat, NEW in, Alone(in),
           wd.state = "ST_SAT_REL", ~in.req, in.phase \in Chip!DataPhases, wd.count = 1
    PROVE  /\ ChipSat' /\ KeepsJob /\ wd'.state = "ST_SAT_PHASE" /\ KeepsCommand
           /\ wd'.count = wd.count - 1 /\ wd'.dma_in_data = wd.dma_in_data
           /\ wd'.dma_dir_in = wd.dma_dir_in /\ wd'.cmd_phase = 70
           /\ wd'.target_lun = wd.target_lun /\ KeepsLatch /\ KeepsResult
           /\ wd'.pause_cnt = wd.pause_cnt /\ wd'.dma_eop = FALSE
<1> DEFINE u == Chip!Sequencer(in)
<1>1. u = Chip!@@([ack |-> FALSE, state |-> "ST_SAT_PHASE"], Chip!@@([count |-> wd.count - 1], [cmd_phase |-> 70]))
  BY Transferred DEF Chip!Transfer, Chip!Releases, Chip!When, Chip!DataPhases, SatStates, Moving, Following, Chip!Counted, Chip!CP_XFER_COUNT
<1>2. /\ DOMAIN u = {"ack", "state", "count", "cmd_phase"} /\ u.ack = FALSE
      /\ u.state = "ST_SAT_PHASE" /\ u.count = wd.count - 1 /\ u.cmd_phase = 70
  BY <1>1 DEF Chip!@@
<1>3. Assigned(u)
  BY Assignments
<1> HIDE DEF u
<1>4. /\ KeepsJob /\ wd'.state = "ST_SAT_PHASE" /\ KeepsCommand /\ wd'.count = wd.count - 1
      /\ wd'.dma_in_data = wd.dma_in_data /\ wd'.dma_dir_in = wd.dma_dir_in /\ wd'.cmd_phase = 70
      /\ wd'.target_lun = wd.target_lun /\ KeepsLatch /\ KeepsResult
      /\ wd'.pause_cnt = wd.pause_cnt /\ wd'.dma_eop = FALSE
  BY <1>2, <1>3 DEF Assigned, KeepsJob, KeepsCommand, KeepsLatch, KeepsResult
<1>5. /\ wd'.ack = FALSE /\ wd'.dma_req = wd.dma_req /\ wd'.sel = wd.sel /\ wd'.cip = wd.cip
  BY <1>2, <1>3 DEF Assigned
<1>6. ChipSat'
  <2>1. /\ wd'.ack = (wd'.state = "ST_SAT_REL") /\ wd'.dma_req = (wd'.state = "ST_SAT_DMA")
        /\ wd'.sel = (wd'.state = "ST_SAT_WAIT") /\ wd'.cip = (wd'.state # "ST_IDLE")
    BY <1>4, <1>5 DEF ChipSat
  <2>2. /\ wd'.state \in {"ST_IDLE"} \union SatStates
        /\ wd'.int_pending \/ wd'.paused => wd'.state = "ST_IDLE"
    BY <1>4 DEF ChipSat, KeepsResult, SatStates, Moving, Following
  <2>3. /\ wd'.pause_cnt \in Nat /\ (wd'.state # "ST_SAT_PHASE" => wd'.pause_cnt = 0)
        /\ wd'.count \in Nat /\ wd'.cmd_phase \in Nat
    BY <1>4 DEF ChipSat, KeepsData, KeepsEnd
  <2>4. QED BY <1>2, <1>3, <2>1, <2>2, <2>3, Reshaped
<1>7. QED BY <1>4, <1>6

LEMMA RelNone ==
    ASSUME ChipSat, NEW in, Alone(in),
           wd.state = "ST_SAT_REL", ~in.req, in.phase \in Chip!DataPhases, wd.count = 0
    PROVE  /\ ChipSat' /\ KeepsJob /\ wd'.state = "ST_SAT_PHASE" /\ KeepsCommand /\ KeepsData
           /\ KeepsEnd /\ KeepsLatch /\ KeepsResult /\ wd'.pause_cnt = wd.pause_cnt
           /\ wd'.dma_eop = FALSE
<1> DEFINE u == Chip!Sequencer(in)
<1>1. u = Chip!@@([ack |-> FALSE, state |-> "ST_SAT_PHASE"], Chip!@@(Chip!Nothing, Chip!Nothing))
  BY Transferred DEF Chip!Transfer, Chip!Releases, Chip!When, Chip!DataPhases, SatStates, Moving, Following, Chip!Counted
<1>2. /\ DOMAIN u = {"ack", "state"} /\ u.ack = FALSE /\ u.state = "ST_SAT_PHASE"
  BY <1>1 DEF Chip!@@, Chip!Nothing
<1>3. Assigned(u)
  BY Assignments
<1> HIDE DEF u
<1>4. /\ KeepsJob /\ wd'.state = "ST_SAT_PHASE" /\ KeepsCommand /\ KeepsData /\ KeepsEnd
      /\ KeepsLatch /\ KeepsResult /\ wd'.pause_cnt = wd.pause_cnt /\ wd'.dma_eop = FALSE
  BY <1>2, <1>3 DEF Assigned, KeepsJob, KeepsCommand, KeepsData, KeepsEnd, KeepsLatch, KeepsResult
<1>5. /\ wd'.ack = FALSE /\ wd'.dma_req = wd.dma_req /\ wd'.sel = wd.sel /\ wd'.cip = wd.cip
  BY <1>2, <1>3 DEF Assigned
<1>6. ChipSat'
  <2>1. /\ wd'.ack = (wd'.state = "ST_SAT_REL") /\ wd'.dma_req = (wd'.state = "ST_SAT_DMA")
        /\ wd'.sel = (wd'.state = "ST_SAT_WAIT") /\ wd'.cip = (wd'.state # "ST_IDLE")
    BY <1>4, <1>5 DEF ChipSat
  <2>2. /\ wd'.state \in {"ST_IDLE"} \union SatStates
        /\ wd'.int_pending \/ wd'.paused => wd'.state = "ST_IDLE"
    BY <1>4 DEF ChipSat, KeepsResult, SatStates, Moving, Following
  <2>3. /\ wd'.pause_cnt \in Nat /\ (wd'.state # "ST_SAT_PHASE" => wd'.pause_cnt = 0)
        /\ wd'.count \in Nat /\ wd'.cmd_phase \in Nat
    BY <1>4 DEF ChipSat, KeepsData, KeepsEnd
  <2>4. QED BY <1>2, <1>3, <2>1, <2>2, <2>3, Reshaped
<1>7. QED BY <1>4, <1>6

\* The last message is.
LEMMA RelMessage ==
    ASSUME ChipSat, NEW in, Alone(in),
           wd.state = "ST_SAT_REL", ~in.req, in.phase = "MSG_IN"
    PROVE  /\ ChipSat' /\ KeepsJob /\ wd'.state = "ST_SAT_PHASE" /\ KeepsCommand /\ KeepsData
           /\ wd'.cmd_phase = 96 /\ wd'.target_lun = wd.target_lun /\ KeepsLatch /\ KeepsResult
           /\ wd'.pause_cnt = wd.pause_cnt /\ wd'.dma_eop = FALSE
<1> DEFINE u == Chip!Sequencer(in)
<1>1. u = Chip!@@([ack |-> FALSE, state |-> "ST_SAT_PHASE"], [cmd_phase |-> 96])
  BY Transferred DEF Chip!Transfer, Chip!Releases, Chip!When, Chip!DataPhases, SatStates, Moving, Following, Chip!CP_COMPLETE_MSG
<1>2. /\ DOMAIN u = {"ack", "state", "cmd_phase"} /\ u.ack = FALSE /\ u.state = "ST_SAT_PHASE"
      /\ u.cmd_phase = 96
  BY <1>1 DEF Chip!@@
<1>3. Assigned(u)
  BY Assignments
<1> HIDE DEF u
<1>4. /\ KeepsJob /\ wd'.state = "ST_SAT_PHASE" /\ KeepsCommand /\ KeepsData /\ wd'.cmd_phase = 96
      /\ wd'.target_lun = wd.target_lun /\ KeepsLatch /\ KeepsResult
      /\ wd'.pause_cnt = wd.pause_cnt /\ wd'.dma_eop = FALSE
  BY <1>2, <1>3 DEF Assigned, KeepsJob, KeepsCommand, KeepsData, KeepsLatch, KeepsResult
<1>5. /\ wd'.ack = FALSE /\ wd'.dma_req = wd.dma_req /\ wd'.sel = wd.sel /\ wd'.cip = wd.cip
  BY <1>2, <1>3 DEF Assigned
<1>6. ChipSat'
  <2>1. /\ wd'.ack = (wd'.state = "ST_SAT_REL") /\ wd'.dma_req = (wd'.state = "ST_SAT_DMA")
        /\ wd'.sel = (wd'.state = "ST_SAT_WAIT") /\ wd'.cip = (wd'.state # "ST_IDLE")
    BY <1>4, <1>5 DEF ChipSat
  <2>2. /\ wd'.state \in {"ST_IDLE"} \union SatStates
        /\ wd'.int_pending \/ wd'.paused => wd'.state = "ST_IDLE"
    BY <1>4 DEF ChipSat, KeepsResult, SatStates, Moving, Following
  <2>3. /\ wd'.pause_cnt \in Nat /\ (wd'.state # "ST_SAT_PHASE" => wd'.pause_cnt = 0)
        /\ wd'.count \in Nat /\ wd'.cmd_phase \in Nat
    BY <1>4 DEF ChipSat, KeepsData, KeepsEnd
  <2>4. QED BY <1>2, <1>3, <2>1, <2>2, <2>3, Reshaped
<1>7. QED BY <1>4, <1>6

LEMMA RelOther ==
    ASSUME ChipSat, NEW in, Alone(in),
           wd.state = "ST_SAT_REL", ~in.req, in.phase \in {"STATUS", "MSG_OUT"}
    PROVE  /\ ChipSat' /\ KeepsJob /\ wd'.state = "ST_SAT_PHASE" /\ KeepsCommand /\ KeepsData
           /\ KeepsEnd /\ KeepsLatch /\ KeepsResult /\ wd'.pause_cnt = wd.pause_cnt
           /\ wd'.dma_eop = FALSE
<1> DEFINE u == Chip!Sequencer(in)
<1>1. u = Chip!@@([ack |-> FALSE, state |-> "ST_SAT_PHASE"], Chip!Nothing)
  BY Transferred DEF Chip!Transfer, Chip!Releases, Chip!When, Chip!DataPhases, SatStates, Moving, Following
<1>2. /\ DOMAIN u = {"ack", "state"} /\ u.ack = FALSE /\ u.state = "ST_SAT_PHASE"
  BY <1>1 DEF Chip!@@, Chip!Nothing
<1>3. Assigned(u)
  BY Assignments
<1> HIDE DEF u
<1>4. /\ KeepsJob /\ wd'.state = "ST_SAT_PHASE" /\ KeepsCommand /\ KeepsData /\ KeepsEnd
      /\ KeepsLatch /\ KeepsResult /\ wd'.pause_cnt = wd.pause_cnt /\ wd'.dma_eop = FALSE
  BY <1>2, <1>3 DEF Assigned, KeepsJob, KeepsCommand, KeepsData, KeepsEnd, KeepsLatch, KeepsResult
<1>5. /\ wd'.ack = FALSE /\ wd'.dma_req = wd.dma_req /\ wd'.sel = wd.sel /\ wd'.cip = wd.cip
  BY <1>2, <1>3 DEF Assigned
<1>6. ChipSat'
  <2>1. /\ wd'.ack = (wd'.state = "ST_SAT_REL") /\ wd'.dma_req = (wd'.state = "ST_SAT_DMA")
        /\ wd'.sel = (wd'.state = "ST_SAT_WAIT") /\ wd'.cip = (wd'.state # "ST_IDLE")
    BY <1>4, <1>5 DEF ChipSat
  <2>2. /\ wd'.state \in {"ST_IDLE"} \union SatStates
        /\ wd'.int_pending \/ wd'.paused => wd'.state = "ST_IDLE"
    BY <1>4 DEF ChipSat, KeepsResult, SatStates, Moving, Following
  <2>3. /\ wd'.pause_cnt \in Nat /\ (wd'.state # "ST_SAT_PHASE" => wd'.pause_cnt = 0)
        /\ wd'.count \in Nat /\ wd'.cmd_phase \in Nat
    BY <1>4 DEF ChipSat, KeepsData, KeepsEnd
  <2>4. QED BY <1>2, <1>3, <2>1, <2>2, <2>3, Reshaped
<1>7. QED BY <1>4, <1>6

\* The interrupt.
LEMMA SatOver ==
    ASSUME ChipSat, NEW in, Alone(in),
           wd.state = "ST_SAT_END"
    PROVE  /\ ChipSat' /\ KeepsJob /\ wd'.state = "ST_IDLE" /\ wd'.atn = FALSE
           /\ wd'.identify_sent = wd.identify_sent /\ wd'.cdb_sent = wd.cdb_sent
           /\ wd'.cdb_idx = wd.cdb_idx /\ KeepsData /\ KeepsEnd /\ KeepsLatch
           /\ wd'.int_pending = TRUE /\ wd'.status = Chip!Outcome /\ wd'.paused = FALSE
           /\ wd'.pause_cnt = wd.pause_cnt /\ wd'.dma_eop = FALSE
<1> DEFINE u == Chip!Sequencer(in)
<1>1. u = Chip!@@([cip |-> FALSE, atn |-> FALSE, dbr |-> FALSE, dma_req |-> FALSE, paused |-> FALSE, state |-> "ST_IDLE"],
             Chip!Result(Chip!Outcome))
  BY Transferred DEF Chip!Transfer, Chip!SatEnds, SatStates, Moving, Following
<1>2. /\ {"cip", "atn", "dma_req", "paused", "state", "status", "int_pending"} \subseteq DOMAIN u
      /\ DOMAIN u \subseteq {"cip", "atn", "dma_req", "paused", "state", "status", "int_pending", "dbr"}
      /\ u.cip = FALSE /\ u.atn = FALSE /\ u.dma_req = FALSE /\ u.paused = FALSE
      /\ u.state = "ST_IDLE" /\ u.status = Chip!Outcome /\ u.int_pending = TRUE
  BY <1>1 DEF Chip!@@, Chip!Result
<1>3. Assigned(u)
  BY Assignments
<1> HIDE DEF u
<1>4. /\ KeepsJob /\ wd'.state = "ST_IDLE" /\ wd'.atn = FALSE
      /\ wd'.identify_sent = wd.identify_sent /\ wd'.cdb_sent = wd.cdb_sent
      /\ wd'.cdb_idx = wd.cdb_idx /\ KeepsData /\ KeepsEnd /\ KeepsLatch /\ wd'.int_pending = TRUE
      /\ wd'.status = Chip!Outcome /\ wd'.paused = FALSE /\ wd'.pause_cnt = wd.pause_cnt
      /\ wd'.dma_eop = FALSE
  BY <1>2, <1>3 DEF Assigned, KeepsJob, KeepsData, KeepsEnd, KeepsLatch
<1>5. /\ wd'.ack = wd.ack /\ wd'.dma_req = FALSE /\ wd'.sel = wd.sel /\ wd'.cip = FALSE
  BY <1>2, <1>3 DEF Assigned
<1>6. ChipSat'
  <2>1. /\ wd'.ack = (wd'.state = "ST_SAT_REL") /\ wd'.dma_req = (wd'.state = "ST_SAT_DMA")
        /\ wd'.sel = (wd'.state = "ST_SAT_WAIT") /\ wd'.cip = (wd'.state # "ST_IDLE")
    BY <1>4, <1>5 DEF ChipSat
  <2>2. /\ wd'.state \in {"ST_IDLE"} \union SatStates
        /\ wd'.int_pending \/ wd'.paused => wd'.state = "ST_IDLE"
    BY <1>4 DEF ChipSat, KeepsResult, SatStates, Moving, Following
  <2>3. /\ wd'.pause_cnt \in Nat /\ (wd'.state # "ST_SAT_PHASE" => wd'.pause_cnt = 0)
        /\ wd'.count \in Nat /\ wd'.cmd_phase \in Nat
    BY <1>4 DEF ChipSat, KeepsData, KeepsEnd
  <2>4. QED BY <1>2, <1>3, <2>1, <2>2, <2>3, Reshaped
<1>7. QED BY <1>4, <1>6

-----------------------------------------------------------------------------
(* A clock of the target, the device and the channel.                      *)

TgPhase ==
    /\ wd.rst_timer # 0 => tg'.phase = "IDLE"
    /\ wd.rst_timer = 0 =>
         /\ tg.phase = "IDLE" =>
              tg'.phase = IF ~(wd.sel /\ wd.data_latch = <<"select", ID>>) THEN "IDLE"
                          ELSE IF wd.atn THEN "MSG_OUT" ELSE "CMD_IN"
         /\ tg.phase = "MSG_OUT" =>
              tg'.phase = IF ~(tg.stb_adv /\ ~wd.atn) THEN "MSG_OUT"
                          ELSE IF tg.msg_byte \in Target!AbortMessages THEN "IDLE" ELSE "CMD_IN"
         /\ tg.phase = "CMD_IN" =>
              tg'.phase = IF Target!cmd_timeout THEN "IDLE"
                          ELSE IF Target!cmd_cpl THEN Target!AfterCommand ELSE "CMD_IN"
         /\ tg.phase \in DataStages =>
              tg'.phase = IF Target!data_done THEN "STATUS_OUT" ELSE tg.phase
         /\ tg.phase = "STATUS_OUT" =>
              tg'.phase = IF tg.status_sent THEN "MESSAGE_OUT" ELSE "STATUS_OUT"
         /\ tg.phase = "MESSAGE_OUT" =>
              tg'.phase = IF tg.message_sent THEN "IDLE" ELSE "MESSAGE_OUT"

TgCommand ==
    /\ tg'.cmd = IF tg.stb_ack /\ tg.phase = "CMD_IN" THEN [tg.cmd EXCEPT ![tg.cmd_cnt] = wd.data_latch]
                 ELSE tg.cmd
    /\ tg'.cmd_cnt = IF tg.phase = "IDLE" THEN 0
                     ELSE IF tg.stb_adv /\ tg.phase = "CMD_IN" THEN tg.cmd_cnt + 1 ELSE tg.cmd_cnt
    /\ ~Target!Accepts => tg'.status = tg.status /\ tg'.tlen = tg.tlen
    /\ Target!Accepts => tg'.tlen = Target!Length
    /\ Target!Accepts /\ ~Target!cmd_timeout /\ wd.rst_timer = 0 => tg'.status[1] = "status"

TgCount ==
    /\ tg.phase \notin Target!Transferring => tg'.data_cnt = 0 /\ tg'.data_complete = FALSE
    /\ tg.phase \in Target!Transferring /\ ~tg.stb_adv =>
         tg'.data_cnt = tg.data_cnt /\ tg'.data_complete = tg.data_complete
    /\ tg.phase \in Target!Transferring /\ tg.stb_adv =>
         /\ tg'.data_cnt = IF tg.data_complete THEN tg.data_cnt ELSE tg.data_cnt + 1
         /\ tg'.data_complete = (Target!data_len # 0 /\ tg.data_cnt = Target!data_len - 1)
    /\ tg'.status_sent = (tg.phase = "STATUS_OUT" /\ (tg.stb_adv \/ tg.status_sent))

TgShake ==
    /\ tg'.old_ack = wd.ack
    /\ tg'.stb_ack = (~tg.old_ack /\ wd.ack) /\ tg'.stb_adv = (tg.old_ack /\ ~wd.ack)
    /\ tg'.buffer_wr = IF tg.stb_ack /\ tg.phase = "DATA_IN" THEN {tg.data_cnt % 2} ELSE {}

Falls == tg.old_io_ack /\ ~io_ack
AsksRd == ~io_ack /\ Target!req_rd /\ ~tg.io_rd /\ ~tg.rd_busy
AsksWr == ~io_ack /\ tg.wr_pending /\ ~tg.io_wr
TgBlocks ==
    LET up == wd.rst_timer = 0 IN
    /\ tg'.lba = IF Target!Accepts THEN 0 ELSE IF Falls THEN tg.lba + 1 ELSE tg.lba
    /\ tg'.sd_buff_sel = IF tg.phase = "IDLE" THEN 0
                         ELSE IF Falls THEN 1 - tg.sd_buff_sel ELSE tg.sd_buff_sel
    /\ tg'.rd_hps_blk = IF tg.phase \notin Target!Transferring THEN 0
                        ELSE IF Falls /\ Target!cmd_read THEN tg.rd_hps_blk + 1 ELSE tg.rd_hps_blk
    /\ tg'.io_rd = (up /\ ~io_ack /\ (tg.io_rd \/ AsksRd))
    /\ tg'.rd_busy = (up /\ ~Falls /\ (tg.rd_busy \/ AsksRd))
    /\ tg'.io_wr = (up /\ ~io_ack /\ (tg.io_wr \/ AsksWr))
    /\ tg'.wr_pending = (up /\ ~AsksWr /\ (tg.wr_pending \/ (~tg.old_wr /\ Target!req_wr)))
    /\ tg'.old_wr = (up /\ Target!req_wr)
    /\ tg'.old_io_ack = io_ack

\* A clock, with what moves in it.
Tick(d, c, step) ==
    /\ d \in BOOLEAN /\ c \in BOOLEAN
    /\ d => DevCanMove
    /\ c => ChanCanMove
    /\ step = Waits \/ step \in DrvSteps
    /\ ClockWith(d, c, step)

LEMMA TargetMoves ==
    ASSUME NEW d, NEW c, NEW step, Tick(d, c, step)
    PROVE  TgPhase /\ TgCommand /\ TgCount /\ TgShake /\ TgBlocks
<1> DEFINE in == [rst |-> wd.rst_timer # 0, sel |-> wd.sel, atn |-> wd.atn,
                  ack |-> wd.ack, din |-> wd.data_latch,
                  io_ack |-> io_ack, addr |-> DevAddress, wr |-> Strobes(d),
                  dout |-> PairAt(DevAddress)]
<1>1. Target!Registers(in)
  BY DEF Tick, ClockWith, Target!Clock
<1>2. /\ in.rst = (wd.rst_timer # 0) /\ in.sel = wd.sel /\ in.atn = wd.atn /\ in.ack = wd.ack
      /\ in.din = wd.data_latch /\ in.io_ack = io_ack
  OBVIOUS
<1> HIDE DEF in
<1>3. TgPhase
  BY <1>1, <1>2 DEF Target!Registers, Target!NextPhase, Target!Selected, TgPhase, DataStages
<1>4. TgCommand
  BY <1>1, <1>2 DEF Target!Registers, TgCommand
<1>5. TgCount
  BY <1>1, <1>2 DEF Target!Registers, Target!Counter, TgCount
<1>6. TgShake
  BY <1>1, <1>2 DEF Target!Registers, Target!Lane, TgShake
<1>7. TgBlocks
  BY <1>1, <1>2 DEF Target!Registers, Target!AckFalls, Target!IssuesRd, Target!IssuesWr, Falls, AsksRd, AsksWr, TgBlocks
<1>8. QED BY <1>3, <1>4, <1>5, <1>6, <1>7

\* The channel, when the driver does not arm it.
LEMMA ChannelMoves ==
    ASSUME Shapes, NEW d, NEW c, NEW step, Tick(d, c, step), step.arms = {}
    PROVE  /\ chan'.ack = c /\ chan'.moved = (IF c THEN chan.moved + 1 ELSE chan.moved)
           /\ chan'.op = chan.op /\ chan'.room = chan.room
           /\ chan'.ended = (chan.ended \/ wd.dma_eop)
           /\ DOMAIN chan' = DOMAIN chan
  BY DEF Tick, ClockWith, ChanClock, Shapes

\* Outside of a DMA request it stands still.
LEMMA ChannelStands ==
    ASSUME ChipSat, ChanSat, Shapes, NEW d, NEW c, NEW step, Tick(d, c, step), step.arms = {},
           wd.state # "ST_SAT_DMA"
    PROVE  /\ chan'.ack = FALSE /\ chan'.moved = chan.moved /\ chan'.op = chan.op /\ chan'.room = chan.room
           /\ chan'.ended = (chan.ended \/ wd.dma_eop)
           /\ ChanSat'
<1>1. c = FALSE
  BY DEF Tick, ChanCanMove, ChipSat
<1>2. QED BY <1>1, ChannelMoves DEF ChanSat

\* A device without a request, and a target that makes none.
LEMMA DeviceStands ==
    ASSUME DevIdle, Shapes, NEW d, NEW c, NEW step, Tick(d, c, step),
           ~Target!req_rd, Target!req_wr => tg.old_wr
    PROVE  DevIdle' /\ image' = image
<1>1. d = FALSE
  BY DEF Tick, DevCanMove, DevIdle
<1>2. dev' = dev /\ image' = image
  BY <1>1 DEF Tick, ClockWith, DevClock, DevIdle, Samples
<1>3. TgBlocks
  BY TargetMoves
<1>4. QED BY <1>2, <1>3 DEF DevIdle, TgBlocks, Falls, AsksRd, AsksWr, io_ack

LEMMA ShapesStay ==
    ASSUME Shapes, NEW d, NEW c, NEW step, Tick(d, c, step),
           step.arms = {} \/ \E a : step.arms = {a} /\ {"op", "ack", "room", "moved", "got", "ended"} \subseteq DOMAIN a
    PROVE  Shapes'
<1>1. DOMAIN tg'.cmd = 0..2
  BY TargetMoves DEF TgCommand, Shapes
<1>2. DOMAIN image' = DOMAIN image /\ DOMAIN dev' = DOMAIN dev
  BY DEF Tick, ClockWith, DevClock, Shapes
<1>3. {"op", "ack", "room", "moved", "got", "ended"} \subseteq DOMAIN chan'
  <2>1. CASE step.arms = {}
    BY <2>1, ChannelMoves DEF Shapes
  <2>2. CASE step.arms # {}
    <3>1. PICK a : step.arms = {a} /\ {"op", "ack", "room", "moved", "got", "ended"} \subseteq DOMAIN a
      BY <2>2
    <3>2. chan' = CHOOSE armed \in step.arms : TRUE
      BY <2>2 DEF Tick, ClockWith, ChanClock
    <3>3. QED BY <3>1, <3>2
  <2>3. QED BY <2>1, <2>2
<1>4. QED BY <1>1, <1>2, <1>3 DEF Shapes

\* While the chip runs a job the driver waits for the result, or gives up.
LEMMA DriverWaits ==
    ASSUME ChipSat, DrvInv, Running, wd.state # "ST_IDLE", NEW d, NEW c, NEW step, Tick(d, c, step)
    PROVE  /\ step.access = Idle /\ step.reset = FALSE /\ step.arms = {}
           /\ \/ drv' = drv
              \/ drv' = At("result")
              \/ Stopped /\ drv.pc = "result" /\ drv' = NextJob
<1>1. drv' = step.next
  BY DEF Tick, ClockWith
<1>2. CASE step = Waits
  BY <1>1, <1>2 DEF Waits, Step
<1>3. CASE step \in DrvSteps /\ drv.pc = "check"
  <2>1. step = Checks
    BY <1>3 DEF DrvSteps
  <2>2. step = Step(Idle, At("result"))
    BY <1>3, <2>1 DEF Checks, Running, Given, Giving
  <2>3. QED BY <1>1, <2>2 DEF Step
<1>4. CASE step \in DrvSteps /\ drv.pc = "result"
  <2>1. ~wd.int_pending
    BY DEF ChipSat
  <2>2. Stopped /\ step = Step(Idle, NextJob)
    BY <1>4, <2>1 DEF DrvSteps
  <2>3. QED BY <1>1, <1>4, <2>2 DEF Step
<1>5. QED BY <1>2, <1>3, <1>4 DEF Tick, Running

\* The job goes on.
LEMMA JobRuns ==
    ASSUME DrvInv, Running, DrvSat, drv' = drv \/ drv' = At("result"), KeepsJob,
           chan'.op = chan.op, chan'.room = chan.room
    PROVE  Running' /\ Job' = Job /\ Sent' = Sent /\ DrvSat'
<1>1. /\ drv'.jobs = drv.jobs /\ drv'.seg = drv.seg /\ drv'.cmd = drv.cmd /\ drv'.then = drv.then
      /\ drv'.pc = drv.pc \/ drv'.pc = "result"
  BY DEF At, DrvInv, DrvOk
<1>2. Job' = Job
  BY <1>1 DEF Job
<1>3. Sent' = Sent
  BY <1>1, <1>2 DEF Sent, Running
<1>4. drv.pc \in {"check", "result"} /\ drv'.pc \in {"check", "result"} /\ (drv'.pc = "check" => ~wd.lci)
  BY <1>1 DEF Running
<1>5. Given'
  BY <1>1, <1>2, <1>3, <1>4 DEF Given, Running, KeepsJob, Giving
<1>6. Running'
  BY <1>4, <1>5 DEF Running, KeepsJob
<1>7. DrvSat'
  BY <1>1, <1>4 DEF DrvSat
<1>8. QED BY <1>2, <1>3, <1>6, <1>7

LEMMA PipeStep ==
    ASSUME ChipSat, ChipSat', Pipe, TgShake,
           wd'.state = "ST_SAT_REL" => wd.state = "ST_SAT_ACK",
           wd.ack \/ tg.stb_ack => wd'.state \in Moving \union {"ST_SAT_END"} /\ wd'.pause_cnt <= 1,
           wd.ack => wd'.state = "ST_SAT_PHASE" /\ wd'.pause_cnt = 0
    PROVE  /\ Pipe' /\ (tg'.stb_ack <=> wd.ack) /\ (tg'.stb_adv <=> tg.stb_ack)
           /\ ~wd.ack /\ ~tg.stb_ack => Settled'
<1>1. /\ wd.ack = (wd.state = "ST_SAT_REL") /\ wd'.ack = (wd'.state = "ST_SAT_REL")
      /\ wd.ack => Settled
      /\ tg.old_ack <=> tg.stb_ack
      /\ tg.stb_ack => wd.state = "ST_SAT_PHASE"
  BY DEF ChipSat, Pipe
<1>2. /\ tg'.stb_ack <=> wd.ack
      /\ tg'.stb_adv <=> tg.stb_ack
      /\ tg'.old_ack <=> wd.ack
  BY <1>1 DEF TgShake, Settled
<1>3. Pipe'
  BY <1>1, <1>2 DEF Pipe, Settled
<1>4. QED BY <1>1, <1>2, <1>3 DEF Settled

\* The chip waits.
LEMMA ChipStands ==
    ASSUME ChipSat, NEW in, Alone(in),
           \/ wd.state = "ST_SAT_SEL" /\ in.bsy /\ ~(wd.sel_timer >= SEL_TIMEOUT)
           \/ wd.state = "ST_SAT_WAIT" /\ ~(in.bsy /\ ~wd.bsy_q) /\ ~(wd.sel_timer >= SEL_TIMEOUT)
           \/ wd.state = "ST_SAT_DIN" /\ wd.din_settle # 0
           \/ wd.state = "ST_SAT_DMA" /\ ~in.dma_ack
           \/ wd.state = "ST_SAT_ACK" /\ ~in.req
    PROVE  /\ ChipSat' /\ KeepsJob /\ KeepsCommand /\ KeepsData /\ KeepsEnd /\ KeepsLatch /\ KeepsResult
           /\ wd'.state = wd.state /\ wd'.pause_cnt = wd.pause_cnt /\ wd'.dma_eop = FALSE
<1> DEFINE u == Chip!Sequencer(in)
<1>1. u = Chip!Transfer(in)
  BY Transferred DEF SatStates, Moving, Following
<1>2. CASE wd.state \in {"ST_SAT_SEL", "ST_SAT_WAIT"}
  <2>1. u = Chip!@@(Chip!Nothing, [sel_timer |-> wd.sel_timer + 1])
    BY <1>1, <1>2 DEF Chip!Transfer, Chip!Asserts, Chip!Waits, Chip!When
  <2>2. DOMAIN u \subseteq {"sel_timer", "din_settle", "din_req_held", "din_ahead"}
    BY <2>1 DEF Chip!@@, Chip!Nothing
  <2>3. QED BY <2>2, Stands
<1>3. CASE wd.state = "ST_SAT_DIN"
  <2>1. u = Chip!@@([din_settle |-> wd.din_settle - 1], Chip!When(~in.req, [din_req_held |-> FALSE]))
    BY <1>1, <1>3 DEF Chip!Transfer, Chip!Settles
  <2>2. DOMAIN u \subseteq {"sel_timer", "din_settle", "din_req_held", "din_ahead"}
    BY <2>1 DEF Chip!@@, Chip!When, Chip!Nothing
  <2>3. QED BY <2>2, Stands
<1>4. CASE wd.state \in {"ST_SAT_DMA", "ST_SAT_ACK"}
  <2>1. u = Chip!Nothing
    BY <1>1, <1>4 DEF Chip!Transfer, Chip!When, Chip!Acks
  <2>2. DOMAIN u \subseteq {"sel_timer", "din_settle", "din_req_held", "din_ahead"}
    BY <2>1 DEF Chip!Nothing
  <2>3. QED BY <2>2, Stands
<1>5. QED BY <1>2, <1>3, <1>4

\* What the chip sees of the bus.
LEMMA BusSeen ==
    ASSUME NEW step
    PROVE  LET in == Seen(step)
           IN  /\ in.bsy = (tg.phase # "IDLE") /\ in.req = Target!Req(wd.ack, io_ack)
               /\ in.phase = Target!BusPhase /\ in.din = Target!Dout
               /\ in.dma_ack = chan.ack /\ in.dma_rdata = <<"mem", chan.moved>>
  BY DEF Seen, Target!Bsy

-----------------------------------------------------------------------------
(* The stages.                                                             *)

Common == ChipSat /\ Pipe /\ ChanSat /\ DrvSat /\ Shapes /\ BytesInPlace

\* A job runs and the block device has nothing to do.
Calm(step) ==
    /\ Running /\ DevIdle /\ wd.state \notin {"ST_IDLE", "ST_SAT_DMA"}
    /\ ~Target!req_rd /\ (Target!req_wr => tg.old_wr)

LEMMA CalmStep ==
    ASSUME Common, DrvInv, NEW d, NEW c, NEW step, Tick(d, c, step), Calm(step)
    PROVE  /\ Alone(Seen(step)) /\ (drv' = drv \/ drv' = At("result"))
           /\ chan'.ack = FALSE /\ chan'.moved = chan.moved /\ chan'.op = chan.op /\ chan'.room = chan.room
           /\ chan'.ended = (chan.ended \/ wd.dma_eop)
           /\ ChanSat' /\ Shapes' /\ DevIdle' /\ image' = image /\ BytesInPlace'
<1>1. /\ step.access = Idle /\ step.reset = FALSE /\ step.arms = {}
      /\ drv' = drv \/ drv' = At("result")
  BY DriverWaits DEF Common, Calm, Stopped
<1>2. Alone(Seen(step))
  BY <1>1, ClockSeen DEF Alone, Idle, Tick
<1>3. /\ chan'.ack = FALSE /\ chan'.moved = chan.moved /\ chan'.op = chan.op /\ chan'.room = chan.room
      /\ chan'.ended = (chan.ended \/ wd.dma_eop) /\ ChanSat'
  BY <1>1, ChannelStands DEF Common, Calm
<1>4. DevIdle' /\ image' = image
  BY DeviceStands DEF Common, Calm
<1>5. Shapes'
  BY <1>1, ShapesStay DEF Common
<1>6. BytesInPlace'
  BY <1>4 DEF Common, BytesInPlace
<1>7. QED BY <1>1, <1>2, <1>3, <1>4, <1>5, <1>6

\* And it goes on, with what the chip does.
LEMMA CalmRuns ==
    ASSUME Common, DrvInv, NEW d, NEW c, NEW step, Tick(d, c, step), Calm(step),
           ChipSat', KeepsJob,
           wd'.state = "ST_SAT_REL" => wd.state = "ST_SAT_ACK",
           wd.ack \/ tg.stb_ack => wd'.state \in Moving \union {"ST_SAT_END"} /\ wd'.pause_cnt <= 1,
           wd.ack => wd'.state = "ST_SAT_PHASE" /\ wd'.pause_cnt = 0
    PROVE  /\ Common' /\ Running' /\ Job' = Job /\ Sent' = Sent
           /\ (tg'.stb_ack <=> wd.ack) /\ (tg'.stb_adv <=> tg.stb_ack)
           /\ ~wd.ack /\ ~tg.stb_ack => Settled'
<1>1. /\ drv' = drv \/ drv' = At("result")
      /\ chan'.op = chan.op /\ chan'.room = chan.room
      /\ ChanSat' /\ Shapes' /\ BytesInPlace'
  BY CalmStep
<1>2. Running' /\ Job' = Job /\ Sent' = Sent /\ DrvSat'
  BY <1>1, JobRuns DEF Calm, Common
<1>3. /\ Pipe' /\ (tg'.stb_ack <=> wd.ack) /\ (tg'.stb_adv <=> tg.stb_ack)
      /\ ~wd.ack /\ ~tg.stb_ack => Settled'
  BY PipeStep, TargetMoves DEF Common
<1>4. QED BY <1>1, <1>2, <1>3 DEF Common

LEMMA SelectingStep ==
    ASSUME Common, DrvInv, NEW d, NEW c, NEW step, Tick(d, c, step), Selecting
    PROVE  Common' /\ (Selecting \/ Selected \/ Stray \/ Ended)'
<1> DEFINE in == Seen(step)
<1>1. Calm(step)
  BY DEF Selecting, Calm, Target!req_rd, Target!req_wr
<1>2. /\ Alone(in) /\ DevIdle' /\ chan'.moved = chan.moved
  BY <1>1, CalmStep
<1>3. ~in.bsy
  BY BusSeen DEF Selecting
<1>4. /\ ~wd.ack /\ ~tg.stb_ack /\ ~wd.int_pending /\ ~wd.paused
  BY DEF Common, ChipSat, Selecting, Settled
<1>5. /\ wd'.state = "ST_IDLE" => wd.state = "ST_SAT_WAIT" /\ wd'.int_pending /\ wd'.status = <<"S_SELECT_TIMEOUT">>
      /\ wd'.state # "ST_IDLE" => KeepsCommand /\ KeepsEnd
      /\ wd'.state \in {"ST_IDLE", "ST_SAT_WAIT"} /\ KeepsData /\ KeepsJob /\ ChipSat' /\ ~wd'.paused
  <2> HIDE DEF in
  <2>1. CASE wd.state = "ST_SAT_SEL"
    BY <1>2, <1>3, <1>4, <2>1, SelAsserts DEF Common, KeepsResult
  <2>2. CASE wd.state = "ST_SAT_WAIT" /\ wd.sel_timer >= SEL_TIMEOUT
    BY <1>2, <1>3, <1>4, <2>2, TimesOut DEF Common
  <2>3. CASE wd.state = "ST_SAT_WAIT" /\ ~(wd.sel_timer >= SEL_TIMEOUT)
    BY <1>2, <1>3, <1>4, <2>3, ChipStands DEF Common, KeepsResult
  <2>4. QED BY <2>1, <2>2, <2>3 DEF Selecting
<1>6. Common' /\ Running' /\ Sent' = Sent /\ Settled'
  BY <1>1, <1>4, <1>5, CalmRuns
<1>7. Fresh'
  BY <1>2, <1>5, <1>6 DEF Selecting, Fresh, KeepsData
<1>8. /\ tg'.phase \in {"IDLE", "MSG_OUT"}
      /\ tg'.phase = "MSG_OUT" => wd.rst_timer = 0 /\ wd.state = "ST_SAT_WAIT"
      /\ tg'.cmd_cnt = 0 /\ tg'.sd_buff_sel = 0
  <2>1. wd.sel => wd.state = "ST_SAT_WAIT"
    BY DEF Common, ChipSat
  <2>2. QED BY <2>1, TargetMoves DEF Selecting, TgPhase, TgCommand, TgBlocks
<1>9. wd.rst_timer = 0 => wd'.rst_timer = 0
  BY <1>5 DEF KeepsJob, Chip!Down
<1>10. CASE wd'.state = "ST_IDLE"
  BY <1>2, <1>5, <1>6, <1>8, <1>9, <1>10 DEF Stray, Ended
<1>11. CASE wd'.state # "ST_IDLE"
  BY <1>2, <1>5, <1>6, <1>7, <1>8, <1>9, <1>11 DEF Selecting, Selected, KeepsCommand, KeepsEnd
<1>12. QED BY <1>6, <1>10, <1>11

LEMMA SelectedStep ==
    ASSUME Common, DrvInv, NEW d, NEW c, NEW step, Tick(d, c, step), Selected
    PROVE  Common' /\ (Selected \/ Stray \/ Identifying)'
<1> DEFINE in == Seen(step)
<1>1. Calm(step)
  BY DEF Selected, Calm, Target!req_rd, Target!req_wr
<1>2. /\ Alone(in) /\ DevIdle' /\ chan'.moved = chan.moved
  BY <1>1, CalmStep
<1>3. ~wd.ack /\ ~tg.stb_ack /\ ~wd.int_pending /\ ~wd.paused
  BY DEF Common, ChipSat, Selected, Settled
<1>4. /\ wd'.state \in {"ST_IDLE", "ST_SAT_WAIT", "ST_SAT_PHASE"}
      /\ wd'.state = "ST_IDLE" => wd'.int_pending /\ wd'.status = <<"S_SELECT_TIMEOUT">>
      /\ wd'.state # "ST_IDLE" => KeepsCommand /\ wd'.cmd_phase \in {wd.cmd_phase, 16}
      /\ wd'.state = "ST_SAT_WAIT" => KeepsEnd
      /\ KeepsData /\ KeepsJob /\ ChipSat' /\ ~wd'.paused
  <2> HIDE DEF in
  <2>1. CASE in.bsy /\ ~wd.bsy_q
    BY <1>2, <1>3, <2>1, WaitSelected DEF Common, KeepsResult, Selected
  <2>2. CASE ~(in.bsy /\ ~wd.bsy_q) /\ wd.sel_timer >= SEL_TIMEOUT
    BY <1>2, <1>3, <2>2, TimesOut DEF Common, Selected
  <2>3. CASE ~(in.bsy /\ ~wd.bsy_q) /\ ~(wd.sel_timer >= SEL_TIMEOUT)
    BY <1>2, <1>3, <2>3, ChipStands DEF Common, KeepsResult, KeepsEnd, Selected
  <2>4. QED BY <2>1, <2>2, <2>3
<1>5. Common' /\ Running' /\ Sent' = Sent /\ Settled'
  BY <1>1, <1>3, <1>4, CalmRuns
<1>6. Fresh'
  BY <1>2, <1>4, <1>5 DEF Selected, Fresh, KeepsData
<1>7. tg'.phase = "MSG_OUT" /\ tg'.cmd_cnt = 0 /\ tg'.sd_buff_sel = 0
  BY TargetMoves DEF Selected, DevIdle, Settled, TgPhase, TgCommand, TgBlocks, Falls
<1>8. wd'.rst_timer = 0
  BY <1>4 DEF Selected, KeepsJob, Chip!Down
<1>9. CASE wd'.state = "ST_IDLE"
  BY <1>2, <1>4, <1>5, <1>7, <1>8, <1>9 DEF Stray
<1>10. CASE wd'.state = "ST_SAT_WAIT"
  BY <1>2, <1>4, <1>5, <1>6, <1>7, <1>8, <1>10 DEF Selected, KeepsCommand, KeepsEnd
<1>11. CASE wd'.state = "ST_SAT_PHASE"
  BY <1>2, <1>4, <1>5, <1>6, <1>7, <1>8, <1>11 DEF Selected, Identifying, Following, KeepsCommand
<1>12. QED BY <1>4, <1>5, <1>9, <1>10, <1>11

LEMMA IdentifyingStep ==
    ASSUME Common, DrvInv, NEW d, NEW c, NEW step, Tick(d, c, step), Identifying
    PROVE  Common' /\ (Identifying \/ Commanding \/ Leaving)'
<1> DEFINE in == Seen(step)
<1>1. Calm(step)
  BY DEF Identifying, Calm, Following, Target!req_rd, Target!req_wr
<1>2. /\ Alone(in) /\ DevIdle' /\ chan'.moved = chan.moved
  BY <1>1, CalmStep
<1>3. /\ wd.ack = (wd.state = "ST_SAT_REL") /\ (tg.old_ack <=> tg.stb_ack)
      /\ tg.stb_ack \/ tg.stb_adv => wd.state = "ST_SAT_PHASE"
      /\ tg.stb_ack => wd.pause_cnt = 0
  BY DEF Common, ChipSat, Pipe, Identifying, Settled
<1>4. in.bsy /\ in.phase = "MSG_OUT" /\ in.req = ~wd.ack
  BY BusSeen DEF Identifying, DevIdle, io_ack, Target!BusPhase, Target!Req, Target!Bsy, Target!io_busy, Target!Flushing
<1>5. /\ wd'.state \in Following /\ KeepsData /\ KeepsJob /\ ChipSat' /\ wd'.cmd_phase = wd.cmd_phase
      /\ wd'.cdb_sent = wd.cdb_sent /\ wd'.cdb_idx = wd.cdb_idx /\ wd'.pause_cnt = 0
      /\ wd'.identify_sent => ~wd'.atn
      /\ ~wd'.identify_sent => wd'.state = "ST_SAT_PHASE" /\ ~wd.identify_sent
      /\ wd.state = "ST_SAT_PHASE" => wd'.state \in {"ST_SAT_PHASE", "ST_SAT_ACK"}
      /\ wd'.state = "ST_SAT_REL" => wd.state = "ST_SAT_ACK"
      /\ wd.ack => wd'.state = "ST_SAT_PHASE"
      /\ wd'.state # "ST_SAT_PHASE" => ~wd.ack /\ Settled
      /\ wd.state = "ST_SAT_PHASE" /\ wd.identify_sent => wd'.state = "ST_SAT_PHASE" /\ KeepsCommand
  <2> HIDE DEF in
  <2>1. CASE wd.state = "ST_SAT_PHASE" /\ ~wd.identify_sent
    <3>1. ~wd.dma_in_data
      BY DEF Identifying, Fresh
    <3>2. QED BY <1>2, <1>3, <1>4, <2>1, <3>1, PhaseIdentifies DEF Common, Identifying, Following, KeepsEnd
  <2>2. CASE wd.state = "ST_SAT_PHASE" /\ wd.identify_sent
    <3>1. ~wd.dma_in_data
      BY DEF Identifying, Fresh
    <3>2. QED BY <1>2, <1>3, <1>4, <2>2, <3>1, PhaseWaits DEF Common, Identifying, Following, KeepsCommand, KeepsEnd
  <2>3. CASE wd.state = "ST_SAT_ACK"
    <3>1. in.req /\ wd.pause_cnt = 0
      BY <1>3, <1>4, <2>3 DEF Common, ChipSat
    <3>2. QED BY <1>2, <1>3, <2>3, <3>1, AckRises DEF Common, Identifying, Following, KeepsCommand, KeepsEnd, Settled
  <2>4. CASE wd.state = "ST_SAT_REL"
    <3>1. ~in.req /\ wd.pause_cnt = 0
      BY <1>3, <1>4, <2>4 DEF Common, ChipSat
    <3>2. QED BY <1>2, <1>3, <1>4, <2>4, <3>1, RelOther DEF Common, Identifying, Following, KeepsCommand, KeepsEnd
  <2>5. QED BY <2>1, <2>2, <2>3, <2>4 DEF Identifying, Following
<1>6. /\ Common' /\ Running' /\ Sent' = Sent /\ Job' = Job
      /\ (tg'.stb_ack <=> wd.ack) /\ (tg'.stb_adv <=> tg.stb_ack)
      /\ ~wd.ack /\ ~tg.stb_ack => Settled'
  <2>1. wd.ack \/ tg.stb_ack => wd'.state \in Moving \union {"ST_SAT_END"} /\ wd'.pause_cnt <= 1
    BY <1>5 DEF Moving
  <2>2. wd.ack => wd'.state = "ST_SAT_PHASE" /\ wd'.pause_cnt = 0
    BY <1>5
  <2>3. QED BY <1>1, <1>5, <2>1, <2>2, CalmRuns
<1>7. Fresh'
  BY <1>2, <1>5, <1>6 DEF Identifying, Fresh, KeepsData
<1>8. /\ tg'.phase \in {"MSG_OUT", "CMD_IN", "IDLE"} /\ tg'.cmd_cnt = 0 /\ tg'.sd_buff_sel = 0
      /\ tg'.phase # "MSG_OUT" => tg.stb_adv /\ ~wd.atn
  BY TargetMoves DEF Identifying, DevIdle, TgPhase, TgCommand, TgBlocks, Falls
<1>9. wd'.rst_timer = 0
  BY <1>5 DEF Identifying, KeepsJob, Chip!Down
<1>10. wd'.state # "ST_SAT_PHASE" => Settled'
  BY <1>3, <1>5, <1>6 DEF Settled
<1>11. CASE tg'.phase = "MSG_OUT"
  <2>1. ~wd'.identify_sent => Settled'
    BY <1>3, <1>5, <1>6 DEF Identifying, Settled
  <2>2. QED BY <1>2, <1>5, <1>6, <1>7, <1>8, <1>9, <1>10, <1>11, <2>1 DEF Identifying
<1>12. CASE tg'.phase # "MSG_OUT"
  <2>1. wd.state = "ST_SAT_PHASE" /\ wd.identify_sent /\ tg.stb_adv
    BY <1>3, <1>8, <1>12 DEF Identifying, Settled
  <2>2. wd'.state = "ST_SAT_PHASE" /\ Settled'
    BY <1>3, <1>5, <1>6, <2>1 DEF Common, Pipe
  <2>3. CASE tg'.phase = "CMD_IN"
    BY <1>2, <1>5, <1>6, <1>7, <1>8, <1>9, <2>2, <2>3 DEF Identifying, Commanding, Settled, Bit, Late
  <2>4. CASE tg'.phase = "IDLE"
    <3>1. ~(wd'.cmd_phase >= 80)
      BY <1>5 DEF Identifying, Common, ChipSat
    <3>2. QED BY <1>2, <1>5, <1>6, <2>2, <2>4, <3>1 DEF Leaving, Following
  <2>5. QED BY <1>8, <1>12, <2>3, <2>4
<1>13. QED BY <1>6, <1>11, <1>12

\* The job's segments and what they add up to.
LEMMA JobSound ==
    ASSUME DrvSat, DrvInv, drv.jobs # <<>>
    PROVE  Sound(Job)
<1>1. drv.jobs \in Seq(Jobs)
  BY DEF DrvInv, DrvOk
<1>2. Len(drv.jobs) \in Nat /\ Len(drv.jobs) >= 1 /\ Job = drv.jobs[1]
  BY <1>1 DEF Job
<1>3. 1 \in 1..Len(drv.jobs)
  BY <1>2
<1>4. QED BY <1>2, <1>3 DEF DrvSat, SoundJobs

LEMMA BlockIsEven == BLOCK \in Nat /\ HALF \in Nat \ {0} /\ BLOCK = 2 * HALF
<1>1. PICK n \in 1..256 : BLOCK = 2 * n
  BY TargetAssumption
<1>2. HALF = n
  BY <1>1 DEF HALF
<1>3. QED BY <1>1, <1>2

LEMMA LengthIsNat ==
    ASSUME NEW j, Sound(j), j.kind = "sat"
    PROVE  DataLength(j) \in Nat /\ j.len \in Nat
<1>1. j.len \in Nat /\ BLOCK \in Nat /\ ANSWER \in Nat
  BY TargetAssumption, BlockIsEven DEF Sound
<1>2. j.len * BLOCK \in Nat
  BY <1>1
<1>3. QED BY <1>1, <1>2 DEF DataLength

LEMMA Segments ==
    ASSUME NEW j, Sound(j), j.kind = "sat"
    PROVE  LET t == Upto(j)
           IN  /\ Len(j.count) \in Nat \ {0}
               /\ \A i \in 0..Len(j.count) : t[i] \in Nat /\ t[i] <= DataLength(j)
               /\ t[0] = 0 /\ t[Len(j.count)] = DataLength(j)
               /\ \A i \in 1..Len(j.count) :
                     /\ t[i] = t[i - 1] + j.count[i]
                     /\ j.count[i] \in Nat /\ j.room[i] \in Nat /\ j.room[i] <= j.count[i]
<1> DEFINE t == Upto(j)
<1>1. t \in Totals(j) /\ DataLength(j) \in Nat
  BY LengthIsNat DEF Upto, Sound
<1>2. Len(j.count) \in Nat \ {0} /\ \A i \in 1..Len(j.count) : j.count[i] \in Nat /\ j.room[i] \in 0..j.count[i]
  BY DEF Sound
<1> HIDE DEF t
<1>3. QED BY <1>1, <1>2 DEF Totals, t

LEMMA SentBound ==
    ASSUME DrvSat, DrvInv, Given
    PROVE  /\ Sound(Job) /\ Job.kind = "sat" /\ DataLength(Job) \in Nat /\ Job.len \in Nat
           /\ Sent \in Nat /\ Sent <= DataLength(Job)
<1>1. Sound(Job) /\ Job.kind = "sat"
  BY JobSound DEF Given
<1>2. DataLength(Job) \in Nat /\ Job.len \in Nat
  BY <1>1, LengthIsNat
<1>3. drv.seg \in 1..Len(Job.count)
  BY DEF Given
<1>4. drv.seg \in 0..Len(Job.count) /\ drv.seg - 1 \in 0..Len(Job.count)
  BY <1>1, <1>3, Segments
<1>5. QED BY <1>1, <1>2, <1>4, Segments DEF Sent

-----------------------------------------------------------------------------
\* The bytes of the CDB, one by one.
LEMMA CommandBytes ==
    ASSUME ChipSat, Commanding, NEW step, Alone(Seen(step))
    PROVE  /\ ChipSat' /\ KeepsJob /\ KeepsData /\ wd'.cmd_phase < 71 /\ wd'.pause_cnt = 0
           /\ wd.state = "ST_SAT_PHASE" /\ wd.cdb_sent =>
                wd'.state = "ST_SAT_PHASE" /\ KeepsCommand /\ KeepsLatch
           /\ wd.state = "ST_SAT_PHASE" /\ ~wd.cdb_sent =>
                wd'.state = "ST_SAT_ACK" /\ KeepsCommand /\ wd'.data_latch = wd.cdb[wd.cdb_idx + 1]
           /\ wd.state = "ST_SAT_ACK" => wd'.state = "ST_SAT_REL" /\ KeepsCommand /\ KeepsLatch
           /\ wd.state = "ST_SAT_REL" =>
                /\ wd'.state = "ST_SAT_PHASE" /\ KeepsLatch
                /\ IF wd.cdb_idx = 0 THEN wd'.cdb_idx = 1 /\ wd'.cdb_sent = wd.cdb_sent
                   ELSE wd'.cdb_idx = wd.cdb_idx /\ wd'.cdb_sent = TRUE
<1> DEFINE in == Seen(step)
<1>1. /\ wd.ack = (wd.state = "ST_SAT_REL") /\ ~wd.dma_in_data /\ wd.cdb_len = 2
      /\ wd.cdb_idx \in {0, 1} /\ wd.state \in Following
  BY DEF ChipSat, Commanding, Fresh, Running, Given
<1>2. in.bsy /\ in.phase = "COMMAND" /\ in.req = ~wd.ack
  BY BusSeen DEF Commanding, DevIdle, io_ack, Target!BusPhase, Target!Req, Target!Bsy, Target!io_busy, Target!Flushing
<1> HIDE DEF in
<1>3. CASE wd.state = "ST_SAT_PHASE" /\ wd.cdb_sent
  BY <1>1, <1>2, <1>3, PhaseWaits DEF Commanding, KeepsEnd, in
<1>4. CASE wd.state = "ST_SAT_PHASE" /\ ~wd.cdb_sent
  BY <1>1, <1>2, <1>4, PhaseCommands DEF Commanding, KeepsEnd, in
<1>5. CASE wd.state = "ST_SAT_ACK"
  <2>1. in.req /\ wd.pause_cnt = 0
    BY <1>1, <1>2, <1>5 DEF ChipSat
  <2>2. QED BY <1>1, <1>5, <2>1, AckRises DEF Commanding, KeepsEnd, in
<1>6. CASE wd.state = "ST_SAT_REL"
  <2>1. ~in.req /\ wd.pause_cnt = 0
    BY <1>1, <1>2, <1>6 DEF ChipSat
  <2>2. CASE wd.cdb_idx = 0
    <3>1. wd.cdb_idx \in Nat /\ wd.cdb_idx + 1 < wd.cdb_len
      BY <1>1, <2>2
    <3>2. /\ ChipSat' /\ KeepsJob /\ wd'.state = "ST_SAT_PHASE" /\ wd'.cdb_sent = wd.cdb_sent
          /\ wd'.cdb_idx = wd.cdb_idx + 1 /\ KeepsData /\ wd'.cmd_phase = 48 + wd.cdb_idx + 1
          /\ KeepsLatch /\ wd'.pause_cnt = wd.pause_cnt
      BY <1>2, <1>6, <2>1, <3>1, RelCommands DEF in
    <3>3. QED BY <1>6, <2>1, <2>2, <3>2
  <2>3. CASE wd.cdb_idx = 1
    <3>1. wd.cdb_idx \in Nat /\ ~(wd.cdb_idx + 1 < wd.cdb_len)
      BY <1>1, <2>3
    <3>2. /\ ChipSat' /\ KeepsJob /\ wd'.state = "ST_SAT_PHASE" /\ wd'.cdb_sent = TRUE
          /\ wd'.cdb_idx = wd.cdb_idx /\ KeepsData /\ wd'.cmd_phase = 48 + wd.cdb_idx + 1
          /\ KeepsLatch /\ wd'.pause_cnt = wd.pause_cnt
      BY <1>2, <1>6, <2>1, <3>1, RelCommanded DEF in
    <3>3. QED BY <1>6, <2>1, <2>3, <3>2
  <2>4. QED BY <1>1, <2>2, <2>3
<1>7. QED BY <1>1, <1>3, <1>4, <1>5, <1>6 DEF Following

\* What the target has of it, when the phase goes on.
LEMMA CommandGoesOn ==
    ASSUME Common, DrvInv, NEW d, NEW c, NEW step, Tick(d, c, step), Commanding
    PROVE  /\ Common' /\ Running' /\ Fresh' /\ DevIdle' /\ Job' = Job /\ Sent' = Sent /\ wd'.rst_timer = 0
           /\ wd'.state \in Following /\ wd'.cmd_phase < 71
           /\ chan'.moved = 0 /\ ~wd'.dma_in_data
           /\ tg'.phase = "CMD_IN" => Commanding'
           /\ wd.cdb_sent /\ Settled => wd'.state = "ST_SAT_PHASE" /\ Settled'
<1>1. Calm(step)
  BY DEF Commanding, Calm, Following, Target!req_rd, Target!req_wr
<1>2. /\ Alone(Seen(step)) /\ DevIdle' /\ chan'.moved = chan.moved
  BY <1>1, CalmStep
<1>3. /\ wd.ack = (wd.state = "ST_SAT_REL") /\ (tg.old_ack <=> tg.stb_ack)
      /\ tg.stb_ack => wd.state = "ST_SAT_PHASE" /\ ~tg.stb_adv
      /\ wd.ack => Settled
      /\ wd.state \in Following
  BY DEF Common, ChipSat, Pipe, Commanding
<1>4. ChipSat' /\ KeepsJob /\ KeepsData /\ wd'.cmd_phase < 71 /\ wd'.pause_cnt = 0 /\ wd'.state \in Following
  BY <1>2, <1>3, CommandBytes DEF Common, Following
<1>5. /\ wd'.state = "ST_SAT_REL" => wd.state = "ST_SAT_ACK"
      /\ wd.ack => wd'.state = "ST_SAT_PHASE"
  BY <1>2, <1>3, CommandBytes DEF Common, Following
<1>6. /\ Common' /\ Running' /\ Sent' = Sent /\ Job' = Job
      /\ (tg'.stb_ack <=> wd.ack) /\ (tg'.stb_adv <=> tg.stb_ack)
      /\ ~wd.ack /\ ~tg.stb_ack => Settled'
  <2>1. wd.ack \/ tg.stb_ack => wd'.state \in Moving \union {"ST_SAT_END"} /\ wd'.pause_cnt <= 1
    BY <1>4 DEF Moving
  <2>2. QED BY <1>1, <1>4, <1>5, <2>1, CalmRuns
<1>7. Fresh'
  BY <1>2, <1>4, <1>6 DEF Commanding, Fresh, KeepsData
<1>8. wd'.rst_timer = 0
  BY <1>4 DEF Commanding, KeepsJob, Chip!Down
<1>9. chan'.moved = 0 /\ ~wd'.dma_in_data
  BY <1>2, <1>4 DEF Commanding, Fresh, KeepsData
<1>10. ASSUME tg'.phase = "CMD_IN" PROVE Commanding'
  <2>1. tg'.sd_buff_sel = 0
    BY TargetMoves DEF Commanding, DevIdle, TgBlocks, Falls
  <2>2. tg'.cmd_cnt = tg.cmd_cnt + Bit(tg.stb_adv)
    BY TargetMoves DEF Commanding, TgCommand, Bit
  <2>3. /\ wd'.cdb_idx \in 0..1 /\ tg'.cmd_cnt \in 0..2
        /\ (IF wd'.cdb_sent THEN 2 ELSE wd'.cdb_idx) = tg'.cmd_cnt + Bit(Late')
    <3>1. (IF wd'.cdb_sent THEN 2 ELSE wd'.cdb_idx) = (IF wd.cdb_sent THEN 2 ELSE wd.cdb_idx) + Bit(wd.ack)
      <4>1. CASE wd.ack
        <5>1. wd.state = "ST_SAT_REL" /\ ~wd.cdb_sent /\ wd.cdb_idx \in {0, 1}
          <6>1. wd.state = "ST_SAT_REL"
            BY <1>3, <4>1
          <6>2. ~wd.cdb_sent
            BY <6>1 DEF Commanding
          <6>3. wd.cdb_idx \in {0, 1}
            BY DEF Commanding
          <6>4. QED BY <6>1, <6>2, <6>3
        <5>2. IF wd.cdb_idx = 0 THEN wd'.cdb_idx = 1 /\ wd'.cdb_sent = wd.cdb_sent
              ELSE wd'.cdb_idx = wd.cdb_idx /\ wd'.cdb_sent = TRUE
          BY <1>2, <5>1, CommandBytes DEF Common
        <5>3. QED BY <4>1, <5>1, <5>2 DEF Bit
      <4>2. CASE ~wd.ack
        <5>1. KeepsCommand
          BY <1>2, <1>3, <4>2, CommandBytes DEF Common, Following
        <5>2. wd.cdb_idx \in 0..1
          BY DEF Commanding
        <5>3. QED BY <4>2, <5>1, <5>2 DEF Bit, KeepsCommand
      <4>3. QED BY <4>1, <4>2
    <3>2. Bit(Late') = Bit(wd.ack \/ tg.stb_ack)
      BY <1>6 DEF Late, Bit
    <3>3. Bit(Late) = Bit(tg.stb_ack) + Bit(tg.stb_adv)
      BY <1>3 DEF Late, Bit
    <3>4. Bit(wd.ack \/ tg.stb_ack) = Bit(wd.ack) + Bit(tg.stb_ack)
      BY <1>3 DEF Settled, Bit
    <3>5. wd'.cdb_idx \in 0..1
      <4>1. wd'.cdb_idx \in {wd.cdb_idx, 1}
        BY <1>2, <1>3, CommandBytes DEF Common, Following, KeepsCommand
      <4>2. QED BY <4>1 DEF Commanding
    <3>6. QED BY <2>2, <3>1, <3>2, <3>3, <3>4, <3>5 DEF Commanding, Bit
  <2>4. wd'.state # "ST_SAT_PHASE" => ~wd'.cdb_sent /\ wd'.data_latch = wd'.cdb[wd'.cdb_idx + 1]
    BY <1>2, <1>3, <1>4, CommandBytes DEF Common, Commanding, Following, KeepsCommand, KeepsLatch, KeepsJob
  <2>5. tg'.stb_ack => wd'.data_latch = wd'.cdb[tg'.cmd_cnt + 1]
    <3>1. SUFFICES ASSUME wd.ack PROVE wd'.data_latch = wd'.cdb[tg'.cmd_cnt + 1]
      BY <1>6
    <3>2. tg.cmd_cnt = wd.cdb_idx /\ tg'.cmd_cnt = tg.cmd_cnt
      <4>1. ~wd.cdb_sent /\ tg.cmd_cnt \in Nat /\ wd.cdb_idx \in Nat
        <5>1. wd.state = "ST_SAT_REL"
          BY <1>3, <3>1
        <5>2. ~wd.cdb_sent
          BY <5>1 DEF Commanding
        <5>3. QED BY <5>2 DEF Commanding
      <4>2. Bit(Late) = 0 /\ Bit(tg.stb_adv) = 0
        BY <1>3, <3>1 DEF Settled, Late, Bit
      <4>3. QED BY <2>2, <4>1, <4>2 DEF Commanding
    <3>3. wd'.data_latch = wd.cdb[wd.cdb_idx + 1] /\ wd'.cdb = wd.cdb
      BY <1>2, <1>3, <1>4, <3>1, CommandBytes DEF Common, Commanding, KeepsLatch, KeepsJob
    <3>4. QED BY <3>2, <3>3
  <2>6. \A i \in 0..1 : i < tg'.cmd_cnt + Bit(tg'.stb_adv) => tg'.cmd[i] = wd'.cdb[i + 1]
    <3>1. tg'.cmd = IF tg.stb_ack THEN [tg.cmd EXCEPT ![tg.cmd_cnt] = wd.data_latch] ELSE tg.cmd
      BY TargetMoves DEF Commanding, TgCommand
    <3>2. wd'.cdb = wd.cdb
      BY <1>4 DEF KeepsJob
    <3>3. CASE tg.stb_ack
      <4>1. tg'.cmd_cnt = tg.cmd_cnt /\ Bit(tg'.stb_adv) = 1
        BY <1>3, <1>6, <2>2, <3>3 DEF Bit, Commanding
      <4>2. DOMAIN tg.cmd = 0..2 /\ tg.cmd_cnt \in 0..2
        BY DEF Common, Shapes, Commanding
      <4>3. tg'.cmd = [tg.cmd EXCEPT ![tg.cmd_cnt] = wd.data_latch] /\ wd.data_latch = wd.cdb[tg.cmd_cnt + 1]
        BY <3>1, <3>3 DEF Commanding
      <4>4. \A i \in 0..1 : i < tg.cmd_cnt => tg.cmd[i] = wd.cdb[i + 1]
        BY <1>3, <3>3, <4>2 DEF Commanding, Bit
      <4>5. QED BY <3>2, <4>1, <4>2, <4>3, <4>4
    <3>4. CASE ~tg.stb_ack
      <4>1. tg'.cmd = tg.cmd /\ Bit(tg'.stb_adv) = 0
        BY <1>6, <3>1, <3>4 DEF Bit
      <4>2. QED BY <2>2, <2>3, <3>2, <4>1 DEF Commanding
    <3>5. QED BY <3>3, <3>4
  <2>7. QED BY <1>2, <1>4, <1>6, <1>7, <1>8, <1>10, <2>1, <2>3, <2>4, <2>5, <2>6 DEF Commanding
<1>11. wd.cdb_sent /\ Settled => wd'.state = "ST_SAT_PHASE" /\ Settled'
  <2>1. SUFFICES ASSUME wd.cdb_sent, Settled PROVE wd'.state = "ST_SAT_PHASE" /\ Settled'
    OBVIOUS
  <2>2. wd.state = "ST_SAT_PHASE"
    BY <2>1 DEF Commanding
  <2>3. QED BY <1>2, <1>3, <1>6, <2>1, <2>2, CommandBytes DEF Common, Settled
<1>12. QED BY <1>2, <1>4, <1>6, <1>7, <1>8, <1>9, <1>10, <1>11

\* The target accepts the command that was sent.
LEMMA CommandAccepted ==
    ASSUME Common, DrvInv, NEW d, NEW c, NEW step, Tick(d, c, step), Commanding,
           Target!cmd_cpl, ~Target!cmd_timeout
    PROVE  /\ wd.cdb_sent /\ Settled /\ Target!Op = Job.op /\ Accepted'
           /\ tg'.phase = Target!AfterCommand
<1>1. DOMAIN tg.cmd = 0..2 /\ wd.cdb = <<<<"op", Job.op>>, <<"len", Job.len>>>>
  BY DEF Common, Shapes, Commanding, Running, Given
<1>2. tg.cmd_cnt = 2 /\ wd.cdb_sent /\ ~Late
  <2>1. tg.cmd_cnt \in {2, 3} /\ tg.cmd_cnt \in 0..2
    BY DEF Target!cmd_cpl, Target!CdbLength, Commanding
  <2>2. (IF wd.cdb_sent THEN 2 ELSE wd.cdb_idx) = tg.cmd_cnt + Bit(Late) /\ wd.cdb_idx \in 0..1
    BY DEF Commanding
  <2>3. QED BY <2>1, <2>2 DEF Bit
<1>3. Settled
  BY <1>2 DEF Late, Settled, Common, Pipe
<1>4. tg.cmd[0] = <<"op", Job.op>> /\ tg.cmd[1] = <<"len", Job.len>>
  <2>1. \A i \in 0..1 : i < tg.cmd_cnt + Bit(tg.stb_adv) => tg.cmd[i] = wd.cdb[i + 1]
    BY DEF Commanding
  <2>2. \A i \in 0..1 : tg.cmd[i] = wd.cdb[i + 1]
    BY <1>2, <1>3, <2>1 DEF Settled, Bit
  <2>3. tg.cmd[0] = wd.cdb[1] /\ tg.cmd[1] = wd.cdb[2]
    BY <2>2
  <2>4. QED BY <1>1, <2>3
<1>5. Target!Op = Job.op /\ Target!Length = Job.len /\ Target!Accepts
  BY <1>4 DEF Target!Op, Target!Length, Target!Accepts, Commanding
<1>6. tg'.cmd = tg.cmd /\ tg'.tlen = Job.len /\ tg'.status[1] = "status"
  BY <1>3, <1>5, TargetMoves DEF Settled, TgCommand, Commanding
<1>7. Job' = Job
  BY CommandGoesOn
<1>8. tg'.phase = Target!AfterCommand
  BY TargetMoves DEF TgPhase, Commanding
<1>9. Accepted'
  BY <1>5, <1>6, <1>7 DEF Accepted, Target!Op
<1>10. QED BY <1>2, <1>3, <1>5, <1>8, <1>9

\* What the phase of its data begins with.
LEMMA DataBegins ==
    ASSUME Common, DrvInv, NEW d, NEW c, NEW step, Tick(d, c, step), Commanding,
           Target!cmd_cpl, ~Target!cmd_timeout, Job.op \in {"read", "write", "inquiry"}
    PROVE  Data'
<1>1. /\ Common' /\ Running' /\ Fresh' /\ DevIdle' /\ Job' = Job /\ wd'.rst_timer = 0
      /\ wd'.state = "ST_SAT_PHASE" /\ wd'.cmd_phase < 71 /\ Settled'
      /\ chan'.moved = 0
  BY CommandGoesOn, CommandAccepted
<1>2. Accepted' /\ Target!Op = Job.op /\ tg'.phase = Target!AfterCommand /\ Settled
  BY CommandAccepted
<1>3. tg'.data_cnt = 0 /\ tg'.data_complete = FALSE
  BY TargetMoves DEF TgCount, Commanding, Target!Transferring
<1>4. tg'.lba = 0 /\ tg'.sd_buff_sel = 0 /\ tg'.rd_hps_blk = 0
  BY TargetMoves DEF TgBlocks, Commanding, Target!Transferring, Target!Accepts, DevIdle, Falls
<1>5. tg'.buffer_wr = {}
  BY TargetMoves DEF TgShake, Commanding
<1>6. /\ DataLength(Job) \in Nat /\ Job.len \in Nat /\ BLOCK \in Nat \ {0}
      /\ Sent \in Nat /\ Sent' = Sent /\ wd'.count = Sent /\ ~wd'.dma_in_data
  BY <1>1, CommandGoesOn, SentBound, BlockIsEven DEF Common, Commanding, Running, Fresh
<1>7. ~Late' /\ ~wd'.ack /\ ~chan'.ack
  BY <1>1 DEF Common, ChipSat, ChanSat, Settled, Late
<1>8. tg'.phase = IF Job.op = "write" THEN "DATA_IN" ELSE "DATA_OUT"
  BY <1>2 DEF Target!AfterCommand
<1>9. Counts'
  <2>1. DataLength(Job)' = DataLength(Job)
    BY <1>1 DEF DataLength
  <2>2. tg'.phase \in DataStages
    BY <1>8 DEF DataStages
  <2>3. Bit(Late') = 0 /\ Bit((chan.ack \/ wd.state \in {"ST_SAT_ACK", "ST_SAT_REL"})') = 0
    BY <1>1, <1>7 DEF Bit
  <2>4. wd'.count + tg'.data_cnt + Bit(Late') = Sent'
    BY <1>3, <1>6, <2>3
  <2>5. chan'.moved = tg'.data_cnt + Bit(Late') + Bit((chan.ack \/ wd.state \in {"ST_SAT_ACK", "ST_SAT_REL"})')
    BY <1>1, <1>3, <2>3
  <2>6. tg'.data_cnt \in Nat /\ tg'.data_cnt <= DataLength(Job)'
        /\ (tg'.data_complete <=> (tg'.data_cnt = DataLength(Job)' /\ DataLength(Job)' # 0))
    BY <1>3, <1>6, <2>1
  <2>7. ~(chan'.moved > 0)
    BY <1>1
  <2>8. QED BY <1>1, <1>2, <1>7, <2>2, <2>4, <2>5, <2>6, <2>7 DEF Counts, Bit
<1>10. CASE Job.op = "write"
  <2>1. tg'.phase = "DATA_IN" /\ dev'.does = "idle" /\ ~tg'.io_wr /\ ~tg'.io_rd /\ ~tg'.rd_busy
        /\ ~tg'.wr_pending /\ ~tg'.old_io_ack
    BY <1>1, <1>8, <1>10 DEF DevIdle
  <2>2. ~Edge'
    BY <1>3, <2>1 DEF Edge, Target!req_wr
  <2>3. ~Flying'
    BY <2>1 DEF Flying, io_ack
  <2>4. tg'.data_cnt \div BLOCK = 0 /\ 0 % 2 = 0 /\ 0 * BLOCK = 0
    BY <1>3, <1>6
  <2>5. Bit(Edge') = 0 /\ Bit(tg'.wr_pending) = 0 /\ Bit(Flying') = 0
    BY <2>1, <2>2, <2>3 DEF Bit
  <2>6. Stored' = 0
    BY <1>4, <2>1, <2>4 DEF Stored
  <2>7. Writes'
    <3>1. \A p \in 0..(tg'.data_cnt - 1) : FALSE
      BY <1>3
    <3>2. \A p \in 0..(Stored' - 1) : FALSE
      BY <2>6
    <3>3. tg'.data_cnt \div BLOCK = tg'.lba + Bit(Edge') + Bit(tg'.wr_pending) + Bit(Flying')
      BY <1>4, <2>4, <2>5
    <3>4. QED BY <1>1, <1>3, <1>4, <1>5, <2>1, <2>2, <2>4, <3>1, <3>2, <3>3 DEF Writes, Settled
  <2>8. Sends'
    BY <1>1, <1>5, <1>7, <2>1, <2>2, <2>7 DEF Sends, Settled
  <2>9. QED BY <1>1, <1>9, <1>10, <2>8 DEF Data, Side, Moving, Following
<1>11. CASE Job.op = "read"
  <2>1. tg'.phase = "DATA_OUT" /\ dev'.does = "idle" /\ ~tg'.io_wr /\ ~tg'.io_rd /\ ~tg'.rd_busy
        /\ ~tg'.wr_pending /\ ~tg'.old_io_ack
    BY <1>1, <1>8, <1>11 DEF DevIdle
  <2>2. tg'.tlen = Job.len
    BY <1>1, <1>2 DEF Accepted
  <2>3. tg'.data_cnt + Bit((wd.ack \/ Late)') <= tg'.rd_hps_blk * BLOCK
    BY <1>3, <1>4, <1>6, <1>7 DEF Bit
  <2>4. tg'.rd_hps_blk + Bit(tg'.rd_busy) <= tg'.tlen
    BY <1>4, <1>6, <2>1, <2>2 DEF Bit
  <2>5. Receives'
    BY <1>4, <2>1, <2>3, <2>4 DEF Receives, io_ack
  <2>6. QED BY <1>1, <1>9, <1>11, <2>5 DEF Data, Side, Moving, Following
<1>12. CASE Job.op = "inquiry"
  BY <1>1, <1>8, <1>9, <1>12 DEF Data, Side, Moving, Following
<1>13. QED BY <1>10, <1>11, <1>12

LEMMA CommandingStep ==
    ASSUME Common, DrvInv, NEW d, NEW c, NEW step, Tick(d, c, step), Commanding
    PROVE  Common' /\ (Commanding \/ Leaving \/ Data \/ Statusing)'
<1>1. /\ Common' /\ Running' /\ Fresh' /\ DevIdle' /\ Job' = Job /\ Sent' = Sent /\ wd'.rst_timer = 0
      /\ wd'.state \in Following /\ wd'.cmd_phase < 71 /\ chan'.moved = 0 /\ ~wd'.dma_in_data
  BY CommandGoesOn
<1>2. tg'.phase = IF Target!cmd_timeout THEN "IDLE"
                  ELSE IF Target!cmd_cpl THEN Target!AfterCommand ELSE "CMD_IN"
  BY TargetMoves DEF Commanding, TgPhase
<1>3. CASE Target!cmd_timeout
  <2>1. ~(wd'.cmd_phase >= 80)
    BY <1>1 DEF Common, ChipSat
  <2>2. QED BY <1>1, <1>2, <1>3, <2>1 DEF Leaving
<1>4. CASE ~Target!cmd_timeout /\ ~Target!cmd_cpl
  BY <1>1, <1>2, <1>4, CommandGoesOn
<1>5. CASE ~Target!cmd_timeout /\ Target!cmd_cpl /\ Job.op \in {"read", "write", "inquiry"}
  BY <1>1, <1>5, DataBegins
<1>6. CASE ~Target!cmd_timeout /\ Target!cmd_cpl /\ Job.op \notin {"read", "write", "inquiry"}
  <2>1. wd.cdb_sent /\ Settled /\ Target!Op = Job.op /\ Accepted' /\ tg'.phase = "STATUS_OUT"
    BY <1>6, CommandAccepted DEF Target!AfterCommand
  <2>2. wd'.state = "ST_SAT_PHASE" /\ Settled'
    BY <2>1, CommandGoesOn
  <2>3. DataLength(Job)' = 0 /\ DataLength(Job) = 0
    BY <1>1, <1>6 DEF DataLength
  <2>4. chan'.moved = chan'.room
    <3>1. Sent <= 0 /\ Sent \in Nat
      BY <2>3, SentBound DEF Common, Commanding, Running
    <3>2. chan'.room <= Sent' /\ chan'.room \in Nat
      BY <1>1 DEF Running, Given, Common, ChanSat
    <3>3. QED BY <1>1, <3>1, <3>2
  <2>5. tg'.status_sent = FALSE
    BY TargetMoves DEF TgCount, Commanding
  <2>6. Ending' /\ EopDone' /\ Written'
    BY <1>1, <1>6, <2>3, <2>4 DEF Ending, EopDone, Written
  <2>7. ~(Target!req_wr)'
    BY <1>1, <1>6, <2>1 DEF Target!req_wr, Target!cmd_write, Accepted
  <2>8. wd'.cmd_phase < 80 /\ ~Late'
    BY <1>1, <2>2 DEF Common, ChipSat, Settled, Late
  <2>9. QED BY <1>1, <2>1, <2>2, <2>5, <2>6, <2>7, <2>8 DEF Statusing, Settled
<1>7. QED BY <1>3, <1>4, <1>5, <1>6

-----------------------------------------------------------------------------
\* The end of a job.
LEMMA DoneStays ==
    ASSUME Common, DrvInv, NEW d, NEW c, NEW step, Tick(d, c, step), Calm(step), Done,
           Running', Job' = Job, ~wd'.dma_in_data, wd'.target_lun[1] = "status"
    PROVE  Done' /\ (chan.moved > 0 => chan'.ended)
<1>1. /\ chan'.moved = chan.moved /\ chan'.room = chan.room /\ chan'.ended = (chan.ended \/ wd.dma_eop)
      /\ image' = image
  BY CalmStep
<1>2. DataLength(Job)' = DataLength(Job) /\ Written'
  BY <1>1 DEF DataLength, Done, Written
<1>3. Ending' /\ EopDone' /\ (chan.moved > 0 => chan'.ended)
  BY <1>1, <1>2 DEF Done, Ending, EopDone
<1>4. QED BY <1>2, <1>3 DEF Done

LEMMA MessagingStep ==
    ASSUME Common, DrvInv, NEW d, NEW c, NEW step, Tick(d, c, step), Messaging
    PROVE  Common' /\ (Messaging \/ Leaving)'
<1> DEFINE in == Seen(step)
<1>1. Calm(step)
  BY DEF Messaging, Done, Ending, Calm, Following, Target!req_rd, Target!req_wr
<1>2. /\ Alone(in) /\ DevIdle'
  BY <1>1, CalmStep
<1>3. wd.ack = (wd.state = "ST_SAT_REL") /\ ~wd.dma_in_data /\ wd.state \in Following
  BY DEF Common, ChipSat, Messaging, Done
<1>4. in.bsy /\ in.phase = "MSG_IN" /\ in.req = ~wd.ack
  BY BusSeen DEF Messaging, DevIdle, io_ack, Target!BusPhase, Target!Req, Target!Bsy, Target!io_busy, Target!Flushing
<1>5. /\ ChipSat' /\ KeepsJob /\ KeepsData /\ wd'.pause_cnt = 0 /\ wd'.state \in Following
      /\ wd'.target_lun = wd.target_lun
      /\ wd'.state = "ST_SAT_REL" => wd.state = "ST_SAT_ACK"
      /\ wd.ack => wd'.state = "ST_SAT_PHASE"
  <2> HIDE DEF in
  <2>1. CASE wd.state = "ST_SAT_PHASE"
    BY <1>2, <1>3, <1>4, <2>1, PhaseMessage DEF Common, Following
  <2>2. CASE wd.state = "ST_SAT_ACK"
    <3>1. wd.pause_cnt = 0 /\ in.req
      BY <1>3, <1>4, <2>2 DEF Common, ChipSat
    <3>2. QED BY <1>2, <1>3, <2>2, <3>1, AckRises DEF Common, Following, KeepsEnd
  <2>3. CASE wd.state = "ST_SAT_REL"
    <3>1. wd.pause_cnt = 0 /\ ~in.req
      BY <1>3, <1>4, <2>3 DEF Common, ChipSat
    <3>2. QED BY <1>2, <1>3, <1>4, <2>3, <3>1, RelMessage DEF Common, Following
  <2>4. QED BY <1>3, <2>1, <2>2, <2>3 DEF Following
<1>6. Common' /\ Running' /\ Job' = Job
  <2>1. wd.ack \/ tg.stb_ack => wd'.state \in Moving \union {"ST_SAT_END"} /\ wd'.pause_cnt <= 1
    BY <1>5 DEF Moving
  <2>2. QED BY <1>1, <1>5, <2>1, CalmRuns
<1>7. Done'
  BY <1>1, <1>3, <1>5, <1>6, DoneStays DEF Messaging, Done, KeepsData
<1>8. wd'.rst_timer = 0
  BY <1>5 DEF Messaging, KeepsJob, Chip!Down
<1>9. tg'.phase \in {"MESSAGE_OUT", "IDLE"}
  BY TargetMoves DEF TgPhase, Messaging
<1>10. QED BY <1>2, <1>5, <1>6, <1>7, <1>8, <1>9 DEF Messaging, Leaving

LEMMA LeavingStep ==
    ASSUME Common, DrvInv, NEW d, NEW c, NEW step, Tick(d, c, step), Leaving
    PROVE  Common' /\ (Leaving \/ Ended)'
<1> DEFINE in == Seen(step)
<1>1. Calm(step)
  BY DEF Leaving, Calm, Following, Target!req_rd, Target!req_wr
<1>2. /\ Alone(in) /\ DevIdle'
  BY <1>1, CalmStep
<1>3. /\ wd.ack = (wd.state = "ST_SAT_REL") /\ wd.state \in Following \union {"ST_SAT_END"}
      /\ tg.stb_ack => wd.state = "ST_SAT_PHASE"
      /\ ~wd.paused /\ wd.count \in Nat /\ wd.cmd_phase \in Nat
  BY DEF Common, ChipSat, Pipe, Leaving, Following
<1>4. ~in.bsy /\ in.phase = "DATA_OUT" /\ ~in.req
  BY BusSeen DEF Leaving, Target!BusPhase, Target!Req, Target!Bsy
<1>5. /\ ChipSat' /\ KeepsJob /\ wd'.pause_cnt = 0
      /\ wd'.target_lun = wd.target_lun /\ wd'.cmd_phase \in {wd.cmd_phase, 70}
      /\ wd'.dma_in_data => wd.dma_in_data
      /\ wd'.state \in Following \union {"ST_SAT_END"} \/ wd.state = "ST_SAT_END"
      /\ wd.state = "ST_SAT_END" =>
            /\ wd'.state = "ST_IDLE" /\ ~wd'.paused /\ wd'.int_pending /\ wd'.status = Chip!Outcome
      /\ wd'.state # "ST_SAT_REL" /\ (wd.ack => wd'.state = "ST_SAT_PHASE")
      /\ tg.stb_ack => wd'.state = "ST_SAT_END"
  <2> HIDE DEF in
  <2>1. CASE wd.state = "ST_SAT_PHASE" /\ ~wd.dma_in_data
    BY <1>2, <1>3, <1>4, <2>1, PhaseLeft DEF Common, Following, KeepsEnd, KeepsData
  <2>2. CASE wd.state = "ST_SAT_PHASE" /\ wd.dma_in_data
    BY <1>2, <1>3, <1>4, <2>2, PhaseLeftTells DEF Common, Following, KeepsEnd
  <2>3. CASE wd.state = "ST_SAT_ACK"
    <3>1. wd.pause_cnt = 0
      BY <2>3 DEF Common, ChipSat
    <3>2. QED BY <1>2, <1>3, <1>4, <2>3, <3>1, ChipStands DEF Common, Following, KeepsEnd, KeepsData
  <2>4. CASE wd.state = "ST_SAT_REL"
    <3>1. wd.pause_cnt = 0 /\ in.phase \in Chip!DataPhases
      BY <1>4, <2>4 DEF Common, ChipSat, Chip!DataPhases
    <3>2. CASE wd.count = 0
      BY <1>2, <1>3, <1>4, <2>4, <3>1, <3>2, RelNone DEF Common, Following, KeepsEnd, KeepsData
    <3>3. CASE wd.count = 1
      BY <1>2, <1>3, <1>4, <2>4, <3>1, <3>3, RelLast DEF Common, Following
    <3>4. CASE wd.count \notin {0, 1}
      BY <1>2, <1>3, <1>4, <2>4, <3>1, <3>4, RelCounts DEF Common, Following, KeepsEnd
    <3>5. QED BY <3>2, <3>3, <3>4
  <2>5. CASE wd.state = "ST_SAT_END"
    <3>1. wd.pause_cnt = 0
      BY <2>5 DEF Common, ChipSat
    <3>2. QED BY <1>2, <1>3, <2>5, <3>1, SatOver DEF Common, KeepsEnd, KeepsData
  <2>6. QED BY <1>3, <2>1, <2>2, <2>3, <2>4, <2>5 DEF Following
<1>6. /\ Common' /\ Running' /\ Job' = Job
      /\ ~wd.ack /\ ~tg.stb_ack => Settled'
  <2>1. wd.ack \/ tg.stb_ack => wd'.state \in Moving \union {"ST_SAT_END"} /\ wd'.pause_cnt <= 1
    BY <1>5 DEF Moving, Following
  <2>2. wd.ack => wd'.state = "ST_SAT_PHASE" /\ wd'.pause_cnt = 0
    BY <1>5
  <2>3. QED BY <1>1, <1>5, <2>1, <2>2, CalmRuns
<1>7. wd.cmd_phase >= 80 => Done' /\ (chan.moved > 0 => chan'.ended)
  <2>1. SUFFICES ASSUME wd.cmd_phase >= 80 PROVE Done' /\ (chan.moved > 0 => chan'.ended)
    OBVIOUS
  <2>2. Done /\ ~wd'.dma_in_data /\ wd'.target_lun[1] = "status"
    BY <1>5, <2>1 DEF Leaving, Done
  <2>3. QED BY <1>1, <1>6, <2>2, DoneStays
<1>8. tg'.phase = "IDLE"
  <2>1. ~wd.sel
    BY <1>3 DEF Common, ChipSat, Following
  <2>2. QED BY <2>1, TargetMoves DEF TgPhase, Leaving
<1>9. CASE wd.state # "ST_SAT_END"
  <2>1. wd'.cmd_phase >= 80 => wd.cmd_phase >= 80
    BY <1>3, <1>5
  <2>2. QED BY <1>2, <1>5, <1>6, <1>7, <1>8, <1>9, <2>1 DEF Leaving
<1>10. CASE wd.state = "ST_SAT_END"
  <2>1. Settled'
    BY <1>3, <1>6, <1>10
  <2>2. chan'.moved = chan.moved
    BY <1>1, CalmStep
  <2>3. CASE wd.cmd_phase >= 80
    <3>1. wd'.status = <<"S_SELECT_XFER_OK">>
      BY <1>3, <1>5, <1>10, <2>3 DEF Chip!Outcome, Chip!CP_STATUS_RECVD
    <3>2. QED BY <1>2, <1>5, <1>6, <1>7, <1>8, <1>10, <2>1, <2>2, <2>3, <3>1 DEF Ended
  <2>4. CASE ~(wd.cmd_phase >= 80)
    <3>1. wd'.status = <<"S_DISCONNECT">>
      BY <1>3, <1>5, <1>10, <2>4 DEF Chip!Outcome, Chip!CP_STATUS_RECVD
    <3>2. QED BY <1>2, <1>5, <1>6, <1>8, <1>10, <2>1, <3>1 DEF Ended
  <2>5. QED BY <2>3, <2>4
<1>11. QED BY <1>6, <1>9, <1>10

\* In the status phase, what the chip does.
LEMMA StatusBytes ==
    ASSUME ChipSat, Pipe, Accepted, tg.phase = "STATUS_OUT", wd.state \in Following,
           ~tg.io_rd, ~Target!Flushing(io_ack) \/ wd.state = "ST_SAT_PHASE",
           NEW step, Alone(Seen(step))
    PROVE  /\ ChipSat' /\ KeepsJob /\ wd'.pause_cnt = 0 /\ wd'.state \in Following
           /\ wd'.cmd_phase \in {wd.cmd_phase, 71}
           /\ wd'.state = "ST_SAT_REL" => wd.state = "ST_SAT_ACK"
           /\ wd.ack => wd'.state = "ST_SAT_PHASE"
           /\ wd'.state = "ST_SAT_ACK" => /\ wd.state = "ST_SAT_PHASE" /\ ~Target!Flushing(io_ack)
                                          /\ ~wd.dma_in_data /\ wd'.target_lun[1] = "status"
           /\ wd'.target_lun = wd.target_lun \/ wd'.target_lun[1] = "status"
           /\ ~wd'.dma_in_data => ~wd.dma_in_data \/ wd'.dma_eop
           /\ wd'.dma_in_data => wd.dma_in_data
<1> DEFINE in == Seen(step)
<1>1. wd.ack = (wd.state = "ST_SAT_REL")
  BY DEF ChipSat
<1>2. /\ in.bsy /\ in.phase = "STATUS" /\ in.din[1] = "status"
      /\ in.req = (~wd.ack /\ ~Target!Flushing(io_ack))
  BY BusSeen DEF Accepted, Target!BusPhase, Target!Req, Target!Bsy, Target!io_busy, Target!Dout
<1> HIDE DEF in
<1>3. CASE wd.state = "ST_SAT_PHASE" /\ wd.dma_in_data
  <2>1. in.phase \notin Chip!DataPhases
    BY <1>2 DEF Chip!DataPhases
  <2>2. QED BY <1>1, <1>2, <1>3, <2>1, PhaseTells DEF Following, KeepsEnd, in
<1>4. CASE wd.state = "ST_SAT_PHASE" /\ ~wd.dma_in_data /\ ~in.req
  BY <1>1, <1>2, <1>4, PhaseWaits DEF Following, KeepsEnd, KeepsData, in
<1>5. CASE wd.state = "ST_SAT_PHASE" /\ ~wd.dma_in_data /\ in.req
  BY <1>1, <1>2, <1>5, PhaseStatus DEF Following, KeepsData, in
<1>6. CASE wd.state = "ST_SAT_ACK"
  <2>1. wd.pause_cnt = 0 /\ in.req
    BY <1>1, <1>2, <1>6 DEF ChipSat
  <2>2. QED BY <1>1, <1>2, <1>6, <2>1, AckRises DEF Following, KeepsEnd, KeepsData, in
<1>7. CASE wd.state = "ST_SAT_REL"
  <2>1. wd.pause_cnt = 0 /\ ~in.req
    BY <1>1, <1>2, <1>7 DEF ChipSat
  <2>2. QED BY <1>1, <1>2, <1>7, <2>1, RelOther DEF Following, KeepsEnd, KeepsData, in
<1>8. QED BY <1>3, <1>4, <1>5, <1>6, <1>7 DEF Following

LEMMA StatusingRuns ==
    ASSUME Common, DrvInv, NEW d, NEW c, NEW step, Tick(d, c, step), Statusing, DevIdle, Written,
           Target!req_wr => tg.old_wr
    PROVE  Common' /\ (Statusing \/ Messaging)'
<1>1. Calm(step)
  BY DEF Statusing, Ending, Calm, Following, Target!req_rd
<1>2. /\ Alone(Seen(step)) /\ DevIdle' /\ image' = image
      /\ chan'.moved = chan.moved /\ chan'.room = chan.room /\ chan'.ended = (chan.ended \/ wd.dma_eop)
  BY <1>1, CalmStep
<1>3. ~tg.io_rd /\ ~Target!Flushing(io_ack) /\ tg.phase = "STATUS_OUT" /\ wd.state \in Following /\ Accepted
  BY DEF DevIdle, Target!Flushing, io_ack, Statusing
<1>4. /\ ChipSat' /\ KeepsJob /\ wd'.pause_cnt = 0 /\ wd'.state \in Following
      /\ wd'.cmd_phase \in {wd.cmd_phase, 71}
      /\ wd'.state = "ST_SAT_REL" => wd.state = "ST_SAT_ACK"
      /\ wd.ack => wd'.state = "ST_SAT_PHASE"
      /\ wd'.state = "ST_SAT_ACK" => wd.state = "ST_SAT_PHASE" /\ ~wd.dma_in_data /\ wd'.target_lun[1] = "status"
      /\ wd'.target_lun = wd.target_lun \/ wd'.target_lun[1] = "status"
      /\ ~wd'.dma_in_data => ~wd.dma_in_data \/ wd'.dma_eop
      /\ wd'.dma_in_data => wd.dma_in_data
  BY <1>2, <1>3, StatusBytes DEF Common
<1>5. /\ Common' /\ Running' /\ Job' = Job
      /\ (tg'.stb_ack <=> wd.ack) /\ (tg'.stb_adv <=> tg.stb_ack)
  <2>1. wd.ack \/ tg.stb_ack => wd'.state \in Moving \union {"ST_SAT_END"} /\ wd'.pause_cnt <= 1
    BY <1>4 DEF Moving
  <2>2. QED BY <1>1, <1>4, <2>1, CalmRuns
<1>6. Ending' /\ Written' /\ (~wd'.dma_in_data => EopDone')
  <2>1. DataLength(Job)' = DataLength(Job)
    BY <1>5 DEF DataLength
  <2>2. Ending'
    BY <1>2, <1>5, <2>1 DEF Statusing, Ending
  <2>3. Written'
    BY <1>2, <1>5 DEF Written
  <2>4. ~wd'.dma_in_data => EopDone'
    BY <1>2, <1>4 DEF Statusing, EopDone
  <2>5. QED BY <2>2, <2>3, <2>4
<1>7. Done => Done'
  <2>1. Done => ~wd'.dma_in_data /\ wd'.target_lun[1] = "status"
    BY <1>4 DEF Done
  <2>2. QED BY <1>1, <1>5, <2>1, DoneStays
<1>8. wd'.state # "ST_SAT_PHASE" \/ Late' \/ tg'.status_sent => Done'
  <2>1. wd.state # "ST_SAT_PHASE" \/ Late \/ tg.status_sent => Done
    BY DEF Statusing
  <2>2. tg'.status_sent => tg.stb_adv \/ tg.status_sent
    BY TargetMoves DEF TgCount
  <2>3. wd.ack => wd.state # "ST_SAT_PHASE"
    BY DEF Common, ChipSat
  <2>4. Late' \/ tg'.status_sent => Done
    BY <1>5, <2>1, <2>2, <2>3 DEF Late
  <2>5. wd'.state = "ST_SAT_REL" => Done
    BY <1>4, <2>1
  <2>6. wd'.state = "ST_SAT_ACK" => Done'
    BY <1>4, <1>6 DEF Done
  <2>7. QED BY <1>4, <1>7, <2>4, <2>5, <2>6 DEF Following
<1>9. Accepted' /\ tg'.phase = (IF tg.status_sent THEN "MESSAGE_OUT" ELSE "STATUS_OUT")
  <2>1. tg'.cmd = tg.cmd /\ tg'.tlen = tg.tlen /\ tg'.status = tg.status
    BY <1>3, TargetMoves DEF TgCommand, Target!Accepts
  <2>2. QED BY <1>3, <1>5, <2>1, TargetMoves DEF Accepted, Target!Op, TgPhase, Statusing
<1>10. wd'.rst_timer = 0 /\ wd'.cmd_phase < 80
  BY <1>4 DEF Statusing, KeepsJob, Chip!Down
<1>11. CASE tg.status_sent
  <2>1. Done'
    BY <1>7, <1>11 DEF Statusing
  <2>2. QED BY <1>2, <1>4, <1>5, <1>9, <1>10, <1>11, <2>1 DEF Messaging
<1>12. CASE ~tg.status_sent
  <2>1. Target!req_wr' => tg'.old_wr
    <3>1. Target!req_wr' => Target!req_wr
      BY <1>3, <1>9, <1>12, TargetMoves DEF Target!req_wr, Target!cmd_write, Target!data_len, Target!Op, TgCommand, Target!Accepts
    <3>2. tg'.old_wr <=> Target!req_wr
      BY TargetMoves DEF TgBlocks, Statusing
    <3>3. QED BY <3>1, <3>2
  <2>2. QED BY <1>2, <1>4, <1>5, <1>6, <1>8, <1>9, <1>10, <1>12, <2>1 DEF Statusing
<1>13. QED BY <1>5, <1>11, <1>12

-----------------------------------------------------------------------------
(* Blocks and places.                                                      *)

LEMMA Division ==
    ASSUME NEW a \in Nat, NEW b \in Nat \ {0}
    PROVE  a \div b \in Nat /\ (a % b) \in 0..(b - 1) /\ a = b * (a \div b) + (a % b)
OBVIOUS

LEMMA Quotient ==
    ASSUME NEW q \in Nat, NEW m \in Nat, NEW b \in Nat \ {0}, m < b
    PROVE  (b * q + m) \div b = q /\ (b * q + m) % b = m
OBVIOUS

LEMMA Above ==
    ASSUME NEW q \in Nat, NEW m \in Nat, NEW b \in Nat \ {0}, q < m
    PROVE  b * q + b <= b * m
OBVIOUS

LEMMA Product ==
    ASSUME NEW q \in Nat, NEW b \in Nat
    PROVE  b * q \in Nat /\ q * b = b * q /\ b * (q + 1) = b * q + b /\ b * (q + 2) = b * q + 2 * b
OBVIOUS

\* The next place is in the same block, or the first of the next one.
LEMMA NextPlace ==
    ASSUME NEW b \in Nat, b >= 2, NEW n \in Nat
    PROVE  /\ (n + 1) % b = 0 => (n + 1) \div b = (n \div b) + 1 /\ n % b # 0
           /\ (n + 1) % b # 0 => (n + 1) \div b = n \div b
<1> DEFINE q == n \div b
           m == n % b
           x == b * q
<1>0. b \in Nat \ {0}
  OBVIOUS
<1>1. q \in Nat /\ m \in 0..(b - 1) /\ n = x + m /\ x \in Nat
  <2>1. q \in Nat /\ m \in 0..(b - 1) /\ n = x + m
    BY <1>0, Division
  <2>2. x \in Nat
    <3> HIDE DEF q
    <3>1. QED BY <2>1, Product
  <2>3. QED BY <2>1, <2>2
<1>2. CASE m + 1 < b
  <2>1. (x + (m + 1)) \div b = q /\ (x + (m + 1)) % b = m + 1
    <3>1. m + 1 \in Nat
      BY <1>1
    <3> HIDE DEF q, m
    <3>2. QED BY <1>0, <1>1, <1>2, <3>1, Quotient
  <2> HIDE DEF q, m, x
  <2>2. n + 1 = x + (m + 1)
    BY <1>1
  <2>3. (n + 1) \div b = q /\ (n + 1) % b = m + 1 /\ m + 1 # 0
    BY <1>1, <2>1, <2>2
  <2>4. QED BY <2>3 DEF q
<1>3. CASE m + 1 = b
  <2>1. (b * (q + 1) + 0) \div b = q + 1 /\ (b * (q + 1) + 0) % b = 0 /\ b * (q + 1) = x + b
    <3>1. (b * (q + 1) + 0) \div b = q + 1 /\ (b * (q + 1) + 0) % b = 0
      BY <1>1, Quotient
    <3>2. b * (q + 1) = b * q + b
      BY <1>1, Product
    <3>3. QED BY <3>1, <3>2
  <2> DEFINE y == b * (q + 1)
  <2>2. y \in Nat /\ y = x + b
    BY <1>1, <2>1
  <2>3. (y + 0) \div b = q + 1 /\ (y + 0) % b = 0
    BY <2>1
  <2> HIDE DEF q, m, x, y
  <2>4. n + 1 = y + 0 /\ m # 0
    BY <1>1, <1>3, <2>2
  <2>5. (n + 1) \div b = q + 1 /\ (n + 1) % b = 0
    BY <2>3, <2>4
  <2>6. QED BY <2>4, <2>5 DEF q, m
<1>4. QED BY <1>1, <1>2, <1>3

\* Two places of the same lane and entry are two blocks apart.
LEMMA Spread ==
    ASSUME NEW h \in Nat \ {0}, NEW p \in Nat, NEW n \in Nat, p < n, n < p + 4 * h,
           p % 2 = n % 2
    PROVE  (p \div 2) % (2 * h) # (n \div 2) % (2 * h)
<1> DEFINE a == p \div 2
           c == n \div 2
           b == 2 * h
           qa == a \div b
           qc == c \div b
           x == b * qa
           y == b * qc
<1>1. b \in Nat \ {0}
  OBVIOUS
<1>2. a \in Nat /\ c \in Nat /\ p = 2 * a + (p % 2) /\ n = 2 * c + (n % 2) /\ p % 2 \in 0..1
  BY Division
<1>3. a < c /\ c < a + b
  BY <1>2
<1>4. /\ qa \in Nat /\ qc \in Nat /\ a % b \in 0..(b - 1) /\ c % b \in 0..(b - 1)
      /\ a = x + (a % b) /\ c = y + (c % b)
  <2> HIDE DEF a, c, b
  <2>1. QED BY <1>1, <1>2, Division
<1>5. qa < qc => x + b <= y
  <2> HIDE DEF a, c, b
  <2>1. qa \in Nat /\ qc \in Nat
    BY <1>4
  <2> HIDE DEF qa, qc
  <2>2. QED BY <1>1, <2>1, Above DEF x, y
<1>6. qc < qa => y + b <= x
  <2> HIDE DEF a, c, b
  <2>1. qa \in Nat /\ qc \in Nat
    BY <1>4
  <2> HIDE DEF qa, qc
  <2>2. QED BY <1>1, <2>1, Above DEF x, y
<1>7. qa = qc => x = y
  OBVIOUS
<1>8. x \in Nat /\ y \in Nat
  <2> HIDE DEF a, c, b, qa, qc
  <2>1. QED BY <1>1, <1>4, Product DEF x, y
<1> DEFINE r == a % b
           s == c % b
<1>9. r \in Nat /\ s \in Nat /\ a = x + r /\ c = y + s
  <2> HIDE DEF x, y
  <2>1. QED BY <1>1, <1>4
<1>10. r # s
  <2> HIDE DEF r, s, x, y, qa, qc, a, c, b
  <2>1. QED BY <1>1, <1>2, <1>3, <1>4, <1>5, <1>6, <1>7, <1>8, <1>9
<1>11. QED BY <1>10

\* Where the pair k of block q lies.
LEMMA PairPlace ==
    ASSUME NEW h \in Nat \ {0}, NEW q \in Nat, NEW k \in 0..(h - 1)
    PROVE  (h * q + k) % (2 * h) = h * (q % 2) + k
<1> DEFINE a == q \div 2
           r == q % 2
<1>1. a \in Nat /\ r \in 0..1 /\ q = 2 * a + r
  BY Division
<1> HIDE DEF a, r
<1> DEFINE b == 2 * h
           v == h * r + k
<1>2. h * q = b * a + h * r
  BY <1>1
<1>3. v \in Nat /\ v < b
  BY <1>1
<1>4. (b * a + v) % b = v
  <2>1. b \in Nat \ {0}
    OBVIOUS
  <2> HIDE DEF v, b
  <2>2. QED BY <1>1, <1>3, <2>1, Quotient
<1>5. h * q + k = b * a + v
  BY <1>1, <1>2
<1>6. QED BY <1>4, <1>5 DEF r

LEMMA Flip ==
    ASSUME NEW q \in Nat
    PROVE  (q + 1) % 2 = 1 - (q % 2) /\ q % 2 \in 0..1
OBVIOUS

-----------------------------------------------------------------------------
(* The bytes of a write.                                                   *)

\* A clock in which those that come are the next ones.
Sending ==
    /\ wd.rst_timer = 0 /\ tg.phase \in {"DATA_IN", "STATUS_OUT"} /\ Target!cmd_write
    /\ Writes
    /\ Late => tg.phase = "DATA_IN"
    /\ tg.stb_adv => /\ wd.data_latch = <<"mem", tg.data_cnt + 1>>
                     /\ tg.data_cnt \div BLOCK <= tg.lba + 1 /\ ~Edge
    /\ tg'.data_cnt = tg.data_cnt + Bit(tg.stb_adv) /\ tg'.data_cnt <= 4 * BLOCK
    /\ Edge' <=> (tg.stb_adv /\ tg'.data_cnt % BLOCK = 0)

\* What the device does in it.
LEMMA WriterMoves ==
    ASSUME Shapes, Writes, NEW d, NEW c, NEW step, Tick(d, c, step)
    PROVE  /\ dev'.does \in {"idle", "write"}
           /\ dev.does = "idle" =>
                /\ image' = image
                /\ dev'.does = "write" =>
                     tg.io_wr /\ dev'.k = 0 /\ dev'.settled = FALSE /\ dev'.lba = tg.lba
           /\ dev.does = "write" /\ dev'.does = "idle" => dev.k = HALF /\ image' = image
           /\ dev.does = "write" /\ dev'.does = "write" =>
                /\ dev'.lba = dev.lba
                /\ dev'.pair = [l \in {0, 1} |-> ram[l][Target!HpsAddress(DevAddress)]]
                /\ \/ dev'.k = dev.k /\ image' = image
                   \/ /\ dev'.k = dev.k + 1 /\ dev.k < HALF /\ dev.settled /\ ~dev'.settled
                      /\ image' = [p \in DOMAIN image |->
                                      IF p - MediumAt(dev.k) \in {0, 1} THEN dev.pair[p - MediumAt(dev.k)]
                                      ELSE image[p]]
<1>1. dev.does \in {"idle", "write"} /\ ~tg.io_rd
  BY DEF Writes
<1>2. {"does", "k", "pair", "settled", "lba"} \subseteq DOMAIN dev
  BY DEF Shapes
<1>3. DevClock(d) /\ (d => DevCanMove) /\ d \in BOOLEAN
  BY DEF Tick, ClockWith
<1>4. CASE dev.does = "idle"
  <2>1. image' = image
    BY <1>3, <1>4 DEF DevClock, Samples
  <2>2. CASE d
    <3>1. tg.io_wr
      BY <1>1, <1>3, <1>4, <2>2 DEF DevCanMove
    <3>2. dev' = [dev EXCEPT !.does = "write", !.k = 0, !.settled = FALSE, !.lba = tg.lba]
      BY <1>3, <1>4, <2>2, <3>1 DEF DevClock
    <3>3. QED BY <1>2, <1>4, <2>1, <3>1, <3>2
  <2>3. CASE ~d
    <3>1. dev' = dev
      BY <1>3, <1>4, <2>3 DEF DevClock
    <3>2. QED BY <1>4, <2>1, <3>1
  <2>4. QED BY <2>2, <2>3
<1>5. CASE dev.does = "write" /\ d /\ dev.k = HALF
  <2>1. HALF \in Nat
    BY BlockIsEven
  <2>2. dev' = [dev EXCEPT !.does = "idle"]
    BY <1>3, <1>5 DEF DevClock
  <2>3. image' = image
    BY <1>3, <1>5, <2>1 DEF DevClock, Samples
  <2>4. QED BY <1>2, <1>5, <2>2, <2>3
<1>6. CASE dev.does = "write" /\ ~(d /\ dev.k = HALF)
  <2>1. dev' = [dev EXCEPT !.pair = [l \in {0, 1} |-> ram[l][Target!HpsAddress(DevAddress)]],
                           !.k = IF Strobes(d) \/ Samples(d) THEN @ + 1 ELSE @,
                           !.settled = ~Samples(d)]
    BY <1>3, <1>6 DEF DevClock
  <2>2. ~Strobes(d)
    BY <1>6 DEF Strobes
  <2>3. CASE Samples(d)
    <3>1. /\ image' = [p \in DOMAIN image |->
                          IF p - MediumAt(dev.k) \in {0, 1} THEN dev.pair[p - MediumAt(dev.k)]
                          ELSE image[p]]
          /\ dev.k < HALF /\ dev.settled
      BY <1>3, <2>3 DEF DevClock, Samples
    <3>2. QED BY <1>2, <1>6, <2>1, <2>3, <3>1
  <2>4. CASE ~Samples(d)
    <3>1. image' = image
      BY <1>3, <2>4 DEF DevClock
    <3>2. QED BY <1>2, <1>6, <2>1, <2>2, <2>4, <3>1
  <2>5. QED BY <2>3, <2>4
<1>7. QED BY <1>1, <1>4, <1>5, <1>6

\* The blocks received are those written, the one on its way and the one that waits.
LEMMA BlocksAdd ==
    ASSUME Common, NEW d, NEW c, NEW step, Tick(d, c, step), Sending
    PROVE  /\ tg'.lba \in Nat /\ tg'.data_cnt \in Nat
           /\ tg'.data_cnt \div BLOCK = tg'.lba + Bit(Edge') + Bit(tg'.wr_pending) + Bit(Flying')
           /\ ~(Edge' /\ tg'.wr_pending)
           /\ tg'.sd_buff_sel = tg'.lba % 2
           /\ ~tg'.io_rd /\ ~tg'.rd_busy
           /\ tg'.buffer_wr = IF tg'.stb_adv THEN {tg'.data_cnt % 2} ELSE {}
           /\ ~(tg'.old_io_ack /\ tg'.io_wr)
           /\ tg'.lba = IF Falls THEN tg.lba + 1 ELSE tg.lba
           /\ Falls => ~Flying' \/ dev'.does = "idle"
<1>1. Writes
  BY DEF Sending
<1>2. /\ tg.lba \in Nat /\ tg.data_cnt \in Nat
      /\ tg.data_cnt \div BLOCK = tg.lba + Bit(Edge) + Bit(tg.wr_pending) + Bit(Flying)
      /\ ~(Edge /\ tg.wr_pending)
      /\ tg.sd_buff_sel = tg.lba % 2 /\ ~tg.io_rd /\ ~tg.rd_busy
      /\ ~(tg.old_io_ack /\ tg.io_wr)
  BY <1>1 DEF Writes
<1>3. /\ tg'.lba = IF Falls THEN tg.lba + 1 ELSE tg.lba
      /\ tg'.sd_buff_sel = IF Falls THEN 1 - tg.sd_buff_sel ELSE tg.sd_buff_sel
      /\ ~tg'.io_rd /\ ~tg'.rd_busy
      /\ tg'.io_wr <=> (~io_ack /\ (tg.io_wr \/ AsksWr))
      /\ tg'.wr_pending <=> (~AsksWr /\ (tg.wr_pending \/ Edge))
      /\ tg'.old_io_ack <=> io_ack
  <2>1. ~AsksRd /\ ~Target!Accepts
    BY DEF Sending, AsksRd, Target!req_rd, Target!Accepts
  <2>2. TgBlocks
    BY TargetMoves
  <2>3. wd.rst_timer = 0 /\ tg.phase # "IDLE"
    BY DEF Sending
  <2>4. /\ tg'.lba = IF Falls THEN tg.lba + 1 ELSE tg.lba
        /\ tg'.sd_buff_sel = IF Falls THEN 1 - tg.sd_buff_sel ELSE tg.sd_buff_sel
    BY <2>1, <2>2, <2>3 DEF TgBlocks
  <2>5. ~tg'.io_rd /\ ~tg'.rd_busy
    BY <1>2, <2>1, <2>2, <2>3 DEF TgBlocks
  <2>6. /\ tg'.io_wr <=> (~io_ack /\ (tg.io_wr \/ AsksWr))
        /\ tg'.wr_pending <=> (~AsksWr /\ (tg.wr_pending \/ Edge))
        /\ tg'.old_io_ack <=> io_ack
    BY <2>2, <2>3 DEF TgBlocks, Edge
  <2>7. QED BY <2>4, <2>5, <2>6
<1>4. /\ io_ack <=> dev.does = "write"
      /\ ~io_ack /\ ~tg.io_wr => ~io_ack'
      /\ dev.does = "idle" /\ io_ack' => tg.io_wr
  BY <1>1, WriterMoves DEF Common, Writes, io_ack
<1>5. (tg.data_cnt \div BLOCK) = tg'.lba + Bit(tg'.wr_pending) + Bit(Flying')
  <2>1. CASE Falls
    <3>1. tg.old_io_ack /\ ~io_ack /\ ~tg.io_wr /\ ~io_ack'
      BY <1>2, <1>4, <2>1 DEF Falls
    <3>2. /\ tg'.lba = tg.lba + 1 /\ (tg'.wr_pending <=> Edge) /\ (Flying' <=> tg.wr_pending)
      BY <1>2, <1>3, <2>1, <3>1 DEF Flying, AsksWr
    <3>3. Bit(Flying) = 1
      BY <3>1 DEF Flying, Bit
    <3>4. QED BY <1>2, <3>2, <3>3 DEF Bit
  <2>2. CASE ~Falls /\ (io_ack \/ tg.io_wr)
    <3>1. /\ tg'.lba = tg.lba /\ (tg'.wr_pending <=> (tg.wr_pending \/ Edge)) /\ Flying'
      BY <1>3, <2>2 DEF Flying, AsksWr
    <3>2. Bit(Flying) = 1 /\ Bit(Flying') = 1
      BY <2>2, <3>1 DEF Flying, Bit
    <3>3. Bit(tg'.wr_pending) = Bit(tg.wr_pending) + Bit(Edge)
      BY <1>2, <3>1 DEF Bit
    <3>4. QED BY <1>2, <3>1, <3>2, <3>3 DEF Bit
  <2>3. CASE ~Falls /\ ~io_ack /\ ~tg.io_wr
    <3>1. ~tg.old_io_ack /\ ~io_ack'
      BY <1>4, <2>3 DEF Falls
    <3>2. /\ tg'.lba = tg.lba /\ (tg'.wr_pending <=> Edge) /\ (Flying' <=> tg.wr_pending)
      BY <1>2, <1>3, <2>3, <3>1 DEF Flying, AsksWr
    <3>3. Bit(Flying) = 0
      BY <2>3, <3>1 DEF Flying, Bit
    <3>4. QED BY <1>2, <3>2, <3>3 DEF Bit
  <2>4. QED BY <2>1, <2>2, <2>3
<1>6. /\ tg'.data_cnt \in Nat
      /\ tg'.data_cnt \div BLOCK = (tg.data_cnt \div BLOCK) + Bit(Edge')
  <2>1. tg'.data_cnt = tg.data_cnt + Bit(tg.stb_adv) /\ (Edge' <=> (tg.stb_adv /\ tg'.data_cnt % BLOCK = 0))
    BY DEF Sending
  <2>2. BLOCK \in Nat /\ BLOCK >= 2 /\ BLOCK \in Nat \ {0}
    BY BlockIsEven
  <2>3. CASE tg.stb_adv
    <3>1. tg'.data_cnt = tg.data_cnt + 1
      BY <1>2, <2>1, <2>3 DEF Bit
    <3>2. /\ (tg.data_cnt + 1) % BLOCK = 0 => (tg.data_cnt + 1) \div BLOCK = (tg.data_cnt \div BLOCK) + 1
          /\ (tg.data_cnt + 1) % BLOCK # 0 => (tg.data_cnt + 1) \div BLOCK = tg.data_cnt \div BLOCK
      BY <1>2, <2>2, NextPlace
    <3> DEFINE q0 == tg.data_cnt \div BLOCK
               q1 == tg'.data_cnt \div BLOCK
    <3>3. q0 \in Nat
      BY <1>2, <2>2, Division
    <3>4. q1 = IF Edge' THEN q0 + 1 ELSE q0
      BY <2>1, <2>3, <3>1, <3>2
    <3> HIDE DEF q0, q1
    <3>5. q1 = q0 + Bit(Edge')
      BY <3>3, <3>4 DEF Bit
    <3>6. QED BY <1>2, <3>1, <3>5 DEF q0, q1
  <2>4. CASE ~tg.stb_adv
    <3>1. tg'.data_cnt = tg.data_cnt /\ Bit(Edge') = 0
      BY <1>2, <2>1, <2>4 DEF Bit
    <3>2. tg.data_cnt \div BLOCK \in Nat
      BY <1>2, <2>2, Division
    <3>3. QED BY <1>2, <3>1, <3>2
  <2>5. QED BY <2>3, <2>4
<1>7. tg'.lba \in Nat
  BY <1>2, <1>3
<1>8. ~(Edge' /\ tg'.wr_pending)
  <2>1. SUFFICES ASSUME Edge', tg'.wr_pending PROVE FALSE
    OBVIOUS
  <2>2. tg.stb_adv /\ tg.data_cnt \div BLOCK <= tg.lba + 1 /\ ~Edge
    BY <2>1 DEF Sending
  <2>3. tg.wr_pending /\ ~AsksWr
    BY <1>3, <2>1, <2>2
  <2>4. Flying
    BY <2>3 DEF AsksWr, Flying
  <2>5. QED BY <1>2, <2>2, <2>3, <2>4 DEF Bit
<1>9. tg'.sd_buff_sel = tg'.lba % 2
  BY <1>2, <1>3, Flip
<1>10. tg'.buffer_wr = IF tg'.stb_adv THEN {tg'.data_cnt % 2} ELSE {}
  <2>1. TgShake
    BY TargetMoves
  <2>2. /\ tg.old_ack <=> tg.stb_ack
        /\ wd.ack => ~tg.stb_ack
        /\ tg.stb_ack => ~tg.stb_adv
    BY DEF Common, Pipe, Settled
  <2>3. tg'.stb_adv <=> tg.stb_ack
    BY <2>1, <2>2 DEF TgShake
  <2>4. tg.stb_ack => tg'.data_cnt = tg.data_cnt
    BY <1>2, <2>2 DEF Sending, Bit
  <2>5. tg.stb_ack => tg.phase = "DATA_IN"
    BY DEF Sending, Late
  <2>6. QED BY <2>1, <2>3, <2>4, <2>5 DEF TgShake
<1>11. ~(tg'.old_io_ack /\ tg'.io_wr)
  BY <1>3
<1>12. Falls => ~Flying' \/ dev'.does = "idle"
  BY <1>2, <1>4 DEF Falls, io_ack
<1>13. tg'.data_cnt \div BLOCK = tg'.lba + Bit(Edge') + Bit(tg'.wr_pending) + Bit(Flying')
  BY <1>5, <1>6, <1>7 DEF Bit
<1>14. QED BY <1>3, <1>6, <1>7, <1>8, <1>9, <1>10, <1>11, <1>12, <1>13

\* The buffers hold the bytes that are not on the medium yet.
LEMMA BuffersHold ==
    ASSUME Common, NEW d, NEW c, NEW step, Tick(d, c, step), Sending,
           NEW p \in Nat, p < tg'.data_cnt, tg'.lba * BLOCK <= p
    PROVE  BufferAt(p)' = <<"mem", p + 1>>
<1> DEFINE n == tg.data_cnt
           l == p % 2
           e == (p \div 2) % BLOCK
           here == (n \div 2) % BLOCK
<1>1. /\ tg.lba \in Nat /\ n \in Nat /\ dev.does \in {"idle", "write"}
      /\ tg.buffer_wr = IF tg.stb_adv THEN {n % 2} ELSE {}
      /\ \A x \in 0..(n - 1) : x >= tg.lba * BLOCK => BufferAt(x) = <<"mem", x + 1>>
  BY DEF Sending, Writes
<1>2. BLOCK \in Nat \ {0} /\ HALF \in Nat \ {0} /\ BLOCK = 2 * HALF /\ RING \in Nat /\ RING >= 2
  BY BlockIsEven, TargetAssumption
<1>3. BLOCK <= RING * HALF /\ RING * HALF \in Nat
  BY <1>2
<1>4. l \in Target!Lanes /\ e \in Target!Entries
  <2>1. p \div 2 \in Nat /\ p % 2 \in 0..1
    BY Division
  <2>2. e \in 0..(BLOCK - 1)
    <3> DEFINE a == p \div 2
    <3> HIDE DEF a
    <3>1. a \in Nat
      BY <2>1 DEF a
    <3>2. a % BLOCK \in 0..(BLOCK - 1)
      BY <1>2, <3>1, Division
    <3>3. QED BY <3>2 DEF a
  <2>3. Target!Entries = 0..(RING * HALF - 1)
    BY DEF Target!Entries, Target!HALF, HALF
  <2> DEFINE all == RING * HALF
  <2> HIDE DEF all, e
  <2>4. e \in 0..(all - 1)
    BY <1>2, <1>3, <2>2 DEF all
  <2>5. QED BY <2>1, <2>3, <2>4 DEF Target!Lanes, all
<1> DEFINE in == [rst |-> wd.rst_timer # 0, sel |-> wd.sel, atn |-> wd.atn,
                  ack |-> wd.ack, din |-> wd.data_latch,
                  io_ack |-> io_ack, addr |-> DevAddress, wr |-> Strobes(d),
                  dout |-> PairAt(DevAddress)]
<1>5. ram' = [x \in Target!Lanes |-> Target!NextRam(x, in)]
  BY DEF Tick, ClockWith, Target!Clock
<1>6. ~in.wr /\ in.din = wd.data_latch
  <2>1. ~Strobes(d)
    BY <1>1 DEF Strobes
  <2>2. QED BY <2>1
<1> HIDE DEF in
<1>7. BufferAt(p)' = IF tg.stb_adv /\ l = n % 2 /\ e = here THEN wd.data_latch ELSE ram[l][e]
  <2>1. BufferAt(p)' = ram'[l][e]
    BY DEF BufferAt
  <2>2. ram'[l] = Target!NextRam(l, in)
    BY <1>4, <1>5
  <2>3. Target!NextRam(l, in)[e] = IF Target!wren_b(l) /\ e = Target!Position THEN wd.data_latch ELSE ram[l][e]
    BY <1>4, <1>6 DEF Target!NextRam
  <2>4. Target!wren_b(l) <=> (tg.stb_adv /\ l = n % 2)
    BY <1>1 DEF Target!wren_b
  <2>5. tg.stb_adv => Target!Position = here
    BY DEF Sending, Late, Target!Position
  <2>6. QED BY <2>1, <2>2, <2>3, <2>4, <2>5
<1>8. n' = n + Bit(tg.stb_adv)
  BY DEF Sending
<1>9. CASE p = n
  <2>1. tg.stb_adv /\ wd.data_latch = <<"mem", n + 1>>
    BY <1>1, <1>8, <1>9 DEF Sending, Bit
  <2>2. QED BY <1>7, <1>9, <2>1
<1>10. CASE p < n
  <2>1. tg.lba * BLOCK <= p
    <3>1. tg'.lba \in {tg.lba, tg.lba + 1} /\ tg'.lba \in Nat
      BY <1>1, BlocksAdd
    <3>2. tg.lba * BLOCK \in Nat /\ (tg.lba + 1) * BLOCK = tg.lba * BLOCK + BLOCK
      BY <1>1, <1>2
    <3> DEFINE x == tg.lba * BLOCK
               y == tg'.lba * BLOCK
    <3>3. y = x \/ y = x + BLOCK
      BY <3>1, <3>2
    <3>4. x \in Nat /\ y <= p
      BY <3>2
    <3> HIDE DEF x, y
    <3>5. x <= p
      BY <1>2, <3>3, <3>4
    <3>6. QED BY <3>5 DEF x
  <2>2. ram[l][e] = <<"mem", p + 1>>
    <3>1. p \in 0..(n - 1)
      BY <1>1, <1>10
    <3>2. QED BY <1>1, <2>1, <3>1 DEF BufferAt
  <2>3. tg.stb_adv /\ l = n % 2 => e # here
    <3>1. SUFFICES ASSUME tg.stb_adv, l = n % 2 PROVE e # here
      OBVIOUS
    <3>2. n \div BLOCK <= tg.lba + 1
      BY <3>1 DEF Sending
    <3> DEFINE q == n \div BLOCK
               m == n % BLOCK
               x == BLOCK * q
               y == tg.lba * BLOCK
    <3>3. q \in Nat /\ m \in 0..(BLOCK - 1) /\ n = x + m
      BY <1>1, <1>2, Division
    <3>4. q <= tg.lba + 1
      BY <3>2
    <3>5. x <= y + BLOCK /\ x \in Nat /\ y \in Nat
      <4> HIDE DEF q
      <4> DEFINE z == BLOCK * (tg.lba + 1)
      <4>1. y \in Nat /\ x \in Nat /\ z = y + BLOCK /\ z \in Nat
        BY <1>1, <1>2, <3>3
      <4>2. q < tg.lba + 1 => x + BLOCK <= z
        BY <1>1, <1>2, <3>3, Above
      <4>3. q = tg.lba + 1 => x = z
        OBVIOUS
      <4> HIDE DEF x, y, z
      <4>4. q < tg.lba + 1 \/ q = tg.lba + 1
        BY <1>1, <3>3, <3>4
      <4>5. QED BY <1>2, <4>1, <4>2, <4>3, <4>4
    <3>6. n < p + 4 * HALF
      <4>1. y <= p
        BY <2>1
      <4> HIDE DEF q, m, x, y
      <4>2. QED BY <1>1, <1>2, <3>3, <3>5, <4>1
    <3>7. (p \div 2) % (2 * HALF) # (n \div 2) % (2 * HALF)
      BY <1>1, <1>2, <1>10, <3>1, <3>6, Spread
    <3>8. QED BY <1>2, <3>7
  <2>4. QED BY <1>7, <2>2, <2>3
<1>11. p = n \/ p < n
  BY <1>1, <1>8 DEF Bit
<1>12. QED BY <1>9, <1>10, <1>11

\* The block that is on its way is complete.
LEMMA BlockIsWhole ==
    ASSUME Writes, Flying
    PROVE  /\ tg.lba * BLOCK \in Nat
           /\ tg.lba * BLOCK + BLOCK <= tg.data_cnt
<1> DEFINE q == tg.data_cnt \div BLOCK
           m == tg.data_cnt % BLOCK
           x == BLOCK * q
           y == tg.lba * BLOCK
<1>1. tg.lba \in Nat /\ tg.data_cnt \in Nat /\ BLOCK \in Nat \ {0}
  BY BlockIsEven DEF Writes
<1>2. q \in Nat /\ m \in 0..(BLOCK - 1) /\ tg.data_cnt = x + m
  BY <1>1, Division
<1>3. q >= tg.lba + 1
  <2>1. tg.data_cnt \div BLOCK = tg.lba + Bit(Edge) + Bit(tg.wr_pending) + Bit(Flying)
    BY DEF Writes
  <2>2. q = tg.lba + Bit(Edge) + Bit(tg.wr_pending) + 1
    BY <2>1 DEF Bit
  <2> HIDE DEF q
  <2>3. QED BY <1>1, <2>2 DEF Bit
<1>4. y + BLOCK <= x /\ y \in Nat /\ x \in Nat
  <2> HIDE DEF q
  <2>1. BLOCK * tg.lba + BLOCK <= BLOCK * q
    BY <1>1, <1>2, <1>3, Above
  <2>2. y \in Nat /\ x \in Nat /\ y = BLOCK * tg.lba
    BY <1>1, <1>2
  <2>3. QED BY <2>1, <2>2
<1>5. y + BLOCK <= tg.data_cnt /\ y \in Nat
  <2> HIDE DEF q, m, x, y
  <2>1. QED BY <1>1, <1>2, <1>4
<1>6. QED BY <1>5

\* The pair the device is shown is the one of its place.
LEMMA PairShown ==
    ASSUME Common, NEW d, NEW c, NEW step, Tick(d, c, step), Sending,
           dev.does = "write", dev.k < HALF, NEW l \in {0, 1}
    PROVE  ram[l][Target!HpsAddress(DevAddress)] = <<"mem", tg.lba * BLOCK + 2 * dev.k + l + 1>>
<1> DEFINE p == tg.lba * BLOCK + 2 * dev.k + l
           y == HALF * tg.lba
<1>1. /\ tg.lba \in Nat /\ tg.data_cnt \in Nat /\ dev.k \in 0..HALF /\ tg.sd_buff_sel = tg.lba % 2
      /\ \A x \in 0..(tg.data_cnt - 1) : x >= tg.lba * BLOCK => BufferAt(x) = <<"mem", x + 1>>
  BY DEF Sending, Writes
<1>2. BLOCK \in Nat /\ HALF \in Nat \ {0} /\ BLOCK = 2 * HALF
  BY BlockIsEven
<1>3. y \in Nat /\ tg.lba * BLOCK = 2 * y
  BY <1>1, <1>2
<1>4. tg.lba * BLOCK + BLOCK <= tg.data_cnt
  BY BlockIsWhole DEF Sending, Flying, io_ack
<1>5. p \in Nat /\ p = 2 * y + 2 * dev.k + l /\ p < tg.data_cnt /\ p >= tg.lba * BLOCK
  <2> DEFINE z == tg.lba * BLOCK
  <2>1. z \in Nat /\ z = 2 * y /\ z + BLOCK <= tg.data_cnt
    BY <1>3, <1>4
  <2> HIDE DEF z, y
  <2>2. z + 2 * dev.k + l \in Nat /\ z + 2 * dev.k + l = 2 * y + 2 * dev.k + l
        /\ z + 2 * dev.k + l < tg.data_cnt /\ z + 2 * dev.k + l >= z
    BY <1>1, <1>2, <1>3, <2>1
  <2>3. QED BY <2>2 DEF z
<1>6. BufferAt(p) = <<"mem", p + 1>>
  <2> HIDE DEF p
  <2>1. p \in 0..(tg.data_cnt - 1)
    BY <1>1, <1>5
  <2>2. QED BY <1>1, <1>5, <2>1
<1>7. p % 2 = l /\ (p \div 2) % (2 * HALF) = HALF * (tg.lba % 2) + dev.k
  <2> DEFINE x == y + dev.k
  <2>1. x \in Nat /\ p = 2 * x + l
    BY <1>1, <1>2, <1>3, <1>5
  <2>2. p \div 2 = x /\ p % 2 = l
    <3> HIDE DEF p, x
    <3>1. QED BY <2>1, Quotient
  <2>3. dev.k \in 0..(HALF - 1) /\ HALF \in Nat \ {0} /\ tg.lba \in Nat
    BY <1>1, <1>2
  <2>4. (HALF * tg.lba + dev.k) % (2 * HALF) = HALF * (tg.lba % 2) + dev.k
    BY <2>3, PairPlace
  <2>5. x = HALF * tg.lba + dev.k
    OBVIOUS
  <2> HIDE DEF p, x, y
  <2>6. QED BY <2>2, <2>4, <2>5
<1>8. Target!HpsAddress(DevAddress) = HALF * (tg.lba % 2) + dev.k
  <2>1. tg.lba % 2 \in Nat
    BY <1>1, Flip
  <2>2. (tg.lba % 2) * HALF = HALF * (tg.lba % 2)
    BY <1>2, <2>1
  <2>3. Target!HpsAddress(DevAddress) = (tg.lba % 2) * HALF + dev.k
    BY <1>1 DEF Sending, Target!HpsAddress, DevAddress, Target!HALF, HALF
  <2>4. QED BY <2>2, <2>3
<1>9. BufferAt(p) = ram[l][Target!HpsAddress(DevAddress)]
  <2> HIDE DEF p
  <2>1. BufferAt(p) = ram[p % 2][(p \div 2) % (2 * HALF)]
    BY <1>2 DEF BufferAt
  <2>2. QED BY <1>7, <1>8, <2>1
<1>10. QED BY <1>6, <1>9

\* What the device has taken lies in its place.
LEMMA ImageHolds ==
    ASSUME Common, NEW d, NEW c, NEW step, Tick(d, c, step), Sending
    PROVE  /\ BytesInPlace'
           /\ \A p \in 0..(Stored' - 1) : image'[p] = <<"mem", p + 1>>
<1> DEFINE y == tg.lba * BLOCK
<1>1. /\ tg.lba \in Nat /\ dev.does \in {"idle", "write"} /\ tg.data_cnt \in Nat
      /\ dev.does = "write" =>
            /\ dev.lba = tg.lba /\ dev.k \in 0..HALF
            /\ dev.settled /\ dev.k < HALF =>
                  \A l \in {0, 1} : dev.pair[l] = <<"mem", dev.lba * BLOCK + 2 * dev.k + l + 1>>
            /\ ~tg.io_wr => tg.old_io_ack
      /\ ~(tg.old_io_ack /\ tg.io_wr)
      /\ \A p \in 0..(Stored - 1) : image[p] = <<"mem", p + 1>>
  BY DEF Sending, Writes
<1>2. BLOCK \in Nat \ {0} /\ HALF \in Nat \ {0} /\ BLOCK = 2 * HALF
  BY BlockIsEven
<1>3. y \in Nat /\ (tg.lba + 1) * BLOCK = y + BLOCK
  BY <1>1, <1>2
<1>4. /\ tg'.lba = (IF Falls THEN tg.lba + 1 ELSE tg.lba)
      /\ tg'.old_io_ack <=> dev.does # "idle"
  BY BlocksAdd, TargetMoves DEF TgBlocks, io_ack
<1>5. tg'.lba * BLOCK = IF Falls THEN y + BLOCK ELSE y
  BY <1>3, <1>4
<1>6. DOMAIN image = 0..(BLOCK * 4 - 1) /\ \A p \in DOMAIN image : image[p] \in {<<"disk", p>>, <<"mem", p + 1>>}
  BY DEF Common, Shapes, BytesInPlace
<1> HIDE DEF y
<1>7. /\ Stored = y + (IF dev.does = "write" THEN 2 * dev.k ELSE IF tg.old_io_ack THEN BLOCK ELSE 0)
      /\ Stored' = (IF Falls THEN y + BLOCK ELSE y)
                   + (IF dev'.does = "write" THEN 2 * dev'.k ELSE IF tg'.old_io_ack THEN BLOCK ELSE 0)
      /\ Falls <=> (tg.old_io_ack /\ dev.does = "idle")
  BY <1>5 DEF Stored, y, Falls, io_ack
<1>8. ASSUME image' = image, Stored' = Stored
      PROVE  BytesInPlace' /\ \A p \in 0..(Stored' - 1) : image'[p] = <<"mem", p + 1>>
  BY <1>1, <1>6, <1>8 DEF BytesInPlace
<1>9. CASE dev.does = "idle" /\ dev'.does = "write"
  <2>1. tg.io_wr /\ dev'.k = 0 /\ image' = image
    BY <1>9, WriterMoves DEF Common, Sending
  <2>2. ~tg.old_io_ack
    BY <1>1, <2>1
  <2>3. Stored' = Stored
    BY <1>3, <1>7, <1>9, <2>1, <2>2
  <2>4. QED BY <1>8, <2>1, <2>3
<1>10. CASE dev.does = "idle" /\ dev'.does = "idle"
  <2>1. image' = image
    BY <1>10, WriterMoves DEF Common, Sending
  <2>2. Stored' = Stored
    BY <1>2, <1>3, <1>4, <1>7, <1>10
  <2>3. QED BY <1>8, <2>1, <2>2
<1>11. CASE dev.does = "write" /\ dev'.does = "idle"
  <2>1. dev.k = HALF /\ image' = image
    BY <1>11, WriterMoves DEF Common, Sending
  <2>2. Stored' = Stored
    BY <1>2, <1>3, <1>4, <1>7, <1>11, <2>1
  <2>3. QED BY <1>8, <2>1, <2>2
<1>12. CASE dev.does = "write" /\ dev'.does = "write" /\ dev'.k = dev.k /\ image' = image
  <2>1. Stored' = Stored
    BY <1>1, <1>2, <1>3, <1>7, <1>12
  <2>2. QED BY <1>8, <1>12, <2>1
<1>13. CASE /\ dev.does = "write" /\ dev'.does = "write" /\ dev'.k = dev.k + 1 /\ dev.k < HALF /\ dev.settled
            /\ image' = [p \in DOMAIN image |->
                          IF p - MediumAt(dev.k) \in {0, 1} THEN dev.pair[p - MediumAt(dev.k)] ELSE image[p]]
  <2> DEFINE m == y + 2 * dev.k
  <2>1. MediumAt(dev.k) = m /\ m \in Nat
    BY <1>1, <1>2, <1>3, <1>13 DEF MediumAt, y
  <2>2. \A l \in {0, 1} : dev.pair[l] = <<"mem", m + l + 1>>
    BY <1>1, <1>13 DEF y
  <2>3. Stored = m /\ Stored' = m + 2
    BY <1>1, <1>2, <1>3, <1>7, <1>13
  <2>4. m + 2 <= BLOCK * 4
    <3>1. y + BLOCK <= tg.data_cnt
      BY <1>13, BlockIsWhole DEF Sending, Flying, io_ack, y
    <3>2. tg.data_cnt <= 4 * BLOCK
      <4>1. tg'.data_cnt = tg.data_cnt + Bit(tg.stb_adv) /\ tg'.data_cnt <= 4 * BLOCK
        BY DEF Sending
      <4>2. QED BY <1>1, <1>2, <4>1 DEF Bit
    <3>3. QED BY <1>1, <1>2, <1>3, <1>13, <3>1, <3>2
  <2> HIDE DEF m
  <2>5. ASSUME NEW p \in 0..(BLOCK * 4 - 1)
        PROVE  image'[p] = IF p - m \in {0, 1} THEN <<"mem", p + 1>> ELSE image[p]
    <3>1. image'[p] = IF p - m \in {0, 1} THEN dev.pair[p - m] ELSE image[p]
      BY <1>6, <1>13, <2>1
    <3>2. p - m \in {0, 1} => dev.pair[p - m] = <<"mem", p + 1>>
      <4>1. SUFFICES ASSUME p - m \in {0, 1} PROVE dev.pair[p - m] = <<"mem", p + 1>>
        OBVIOUS
      <4>2. dev.pair[p - m] = <<"mem", m + (p - m) + 1>>
        BY <2>2, <4>1
      <4>3. m + (p - m) + 1 = p + 1
        BY <2>1, <2>5
      <4>4. QED BY <4>2, <4>3
    <3>3. QED BY <3>1, <3>2
  <2>6. DOMAIN image' = 0..(BLOCK * 4 - 1)
    BY <1>6, <1>13
  <2>7. BytesInPlace'
    BY <1>6, <2>5, <2>6 DEF BytesInPlace
  <2>8. \A p \in 0..(Stored' - 1) : image'[p] = <<"mem", p + 1>>
    <3>1. SUFFICES ASSUME NEW p \in 0..(m + 1) PROVE image'[p] = <<"mem", p + 1>>
      BY <2>1, <2>3
    <3>2. p \in 0..(BLOCK * 4 - 1)
      BY <1>2, <2>1, <2>4
    <3>3. ~(p - m \in {0, 1}) => p \in 0..(Stored - 1)
      BY <2>1, <2>3
    <3>4. QED BY <1>1, <2>5, <3>2, <3>3
  <2>9. QED BY <2>7, <2>8
<1>14. QED BY <1>1, <1>9, <1>10, <1>11, <1>12, <1>13, WriterMoves DEF Common, Sending

LEMMA WritesStep ==
    ASSUME Common, NEW d, NEW c, NEW step, Tick(d, c, step), Sending
    PROVE  Writes' /\ BytesInPlace'
<1>1. /\ tg'.lba \in Nat /\ tg'.data_cnt \in Nat
      /\ tg'.data_cnt \div BLOCK = tg'.lba + Bit(Edge') + Bit(tg'.wr_pending) + Bit(Flying')
      /\ ~(Edge' /\ tg'.wr_pending)
      /\ tg'.sd_buff_sel = tg'.lba % 2
      /\ ~tg'.io_rd /\ ~tg'.rd_busy
      /\ tg'.buffer_wr = IF tg'.stb_adv THEN {tg'.data_cnt % 2} ELSE {}
      /\ ~(tg'.old_io_ack /\ tg'.io_wr)
      /\ tg'.lba = IF Falls THEN tg.lba + 1 ELSE tg.lba
  BY BlocksAdd
<1>2. tg'.lba * BLOCK \in Nat
  BY <1>1, BlockIsEven
<1>3. \A p \in 0..(tg'.data_cnt - 1) : p >= tg'.lba * BLOCK => BufferAt(p)' = <<"mem", p + 1>>
  <2> DEFINE y == tg'.lba * BLOCK
  <2>1. SUFFICES ASSUME NEW p \in 0..(tg'.data_cnt - 1), p >= y PROVE BufferAt(p)' = <<"mem", p + 1>>
    OBVIOUS
  <2>2. y \in Nat
    BY <1>2
  <2>3. p \in Nat /\ p < tg'.data_cnt /\ y <= p
    <3> HIDE DEF y
    <3>1. QED BY <1>1, <2>1, <2>2
  <2>4. QED BY <2>3, BuffersHold
<1>4. dev'.does = "write" =>
          /\ dev'.lba = tg'.lba /\ dev'.k \in 0..HALF
          /\ dev'.settled /\ dev'.k < HALF =>
                \A l \in {0, 1} : dev'.pair[l] = <<"mem", dev'.lba * BLOCK + 2 * dev'.k + l + 1>>
          /\ tg'.io_wr => dev'.k = 0 /\ ~dev'.settled
          /\ ~tg'.io_wr => tg'.old_io_ack
  <2>1. /\ tg'.old_io_ack <=> dev.does # "idle"
        /\ tg'.io_wr <=> (dev.does = "idle" /\ (tg.io_wr \/ AsksWr))
    BY TargetMoves DEF TgBlocks, Sending, io_ack
  <2>2. /\ dev.does \in {"idle", "write"} /\ ~(tg.old_io_ack /\ tg.io_wr)
        /\ dev.does = "write" => dev.lba = tg.lba /\ dev.k \in 0..HALF
    BY DEF Sending, Writes
  <2>3. HALF \in Nat
    BY BlockIsEven
  <2>4. CASE dev.does = "idle" /\ dev'.does = "write"
    <3>1. tg.io_wr /\ dev'.k = 0 /\ dev'.settled = FALSE /\ dev'.lba = tg.lba
      BY <2>4, WriterMoves DEF Common, Sending
    <3>2. tg'.lba = tg.lba
      BY <1>1, <2>2, <3>1 DEF Falls
    <3>3. QED BY <2>1, <2>3, <2>4, <3>1, <3>2
  <2>5. CASE dev.does = "write" /\ dev'.does = "write"
    <3>1. /\ dev'.lba = dev.lba
          /\ dev'.pair = [l \in {0, 1} |-> ram[l][Target!HpsAddress(DevAddress)]]
          /\ \/ dev'.k = dev.k
             \/ dev'.k = dev.k + 1 /\ dev.k < HALF /\ ~dev'.settled
      BY <2>5, WriterMoves DEF Common, Sending
    <3>2. tg'.lba = tg.lba
      BY <1>1, <2>5 DEF Falls, io_ack
    <3>3. dev'.lba = tg'.lba /\ dev'.k \in 0..HALF
      BY <2>2, <2>3, <2>5, <3>1, <3>2
    <3>4. ASSUME dev'.settled, dev'.k < HALF, NEW l \in {0, 1}
          PROVE  dev'.pair[l] = <<"mem", dev'.lba * BLOCK + 2 * dev'.k + l + 1>>
      <4>1. dev'.k = dev.k /\ dev'.lba = tg.lba
        BY <2>2, <2>5, <3>1, <3>4
      <4>2. dev'.pair[l] = ram[l][Target!HpsAddress(DevAddress)]
        BY <3>1
      <4>3. dev.k < HALF
        BY <3>4, <4>1
      <4>4. ram[l][Target!HpsAddress(DevAddress)] = <<"mem", tg.lba * BLOCK + 2 * dev.k + l + 1>>
        BY <2>5, <4>3, PairShown
      <4>5. QED BY <4>1, <4>2, <4>4
    <3>5. QED BY <2>1, <2>5, <3>3, <3>4
  <2>6. QED BY <2>2, <2>4, <2>5
<1>5. dev'.does \in {"idle", "write"}
  BY WriterMoves DEF Common, Sending
<1>6. BytesInPlace' /\ \A p \in 0..(Stored' - 1) : image'[p] = <<"mem", p + 1>>
  BY ImageHolds
<1>7. QED BY <1>1, <1>3, <1>4, <1>5, <1>6 DEF Writes

-----------------------------------------------------------------------------
(* The data phase: what the chip does in a clock of it.                    *)

Awaits ==
    /\ wd'.state = wd.state /\ wd.state # "ST_SAT_REL" /\ KeepsData /\ KeepsLatch
    /\ wd.state = "ST_SAT_DMA" => ~chan.ack
    /\ wd.state = "ST_SAT_PHASE" => wd'.pause_cnt \in {0, wd.pause_cnt + 1}
Gives ==
    /\ wd.state = "ST_SAT_PHASE" /\ wd'.state = "ST_IDLE" /\ wd.count = 0 /\ wd.pause_cnt = PAUSE
    /\ ~Target!data_done /\ KeepsData /\ KeepsLatch
    /\ wd'.int_pending /\ wd'.status \in Pauses /\ wd'.paused
Begins ==
    /\ wd.state = "ST_SAT_PHASE" /\ wd'.state \in {"ST_SAT_DMA", "ST_SAT_DIN"}
    /\ wd.count # 0 /\ ~Target!data_done /\ wd'.count = wd.count /\ wd'.dma_in_data
    /\ Job.op = "write" => wd'.state = "ST_SAT_DMA" /\ ~wd'.dma_dir_in /\ KeepsLatch
Takes == wd.state = "ST_SAT_DIN" /\ wd'.state = "ST_SAT_DMA" /\ KeepsData
Moves ==
    /\ wd.state = "ST_SAT_DMA" /\ wd'.state = "ST_SAT_ACK" /\ chan.ack /\ KeepsData
    /\ ~wd.dma_dir_in => wd'.data_latch = <<"mem", chan.moved>>
Raises ==
    /\ wd.state = "ST_SAT_ACK" /\ wd'.state = "ST_SAT_REL" /\ KeepsData /\ KeepsLatch
    /\ Target!Req(wd.ack, io_ack)
Drops ==
    /\ wd.state = "ST_SAT_REL" /\ wd'.state = "ST_SAT_PHASE" /\ wd'.count = wd.count - 1
    /\ wd'.dma_in_data = wd.dma_in_data /\ KeepsLatch /\ wd'.pause_cnt = 0
Turn == Awaits \/ Gives \/ Begins \/ Takes \/ Moves \/ Raises \/ Drops

LEMMA DataChip ==
    ASSUME Common, Data, NEW step, Alone(Seen(step))
    PROVE  ChipSat' /\ KeepsJob /\ wd'.cmd_phase < 71 /\ Turn
<1> DEFINE in == Seen(step)
<1>1. /\ ChipSat /\ wd.state \in Moving /\ wd.ack = (wd.state = "ST_SAT_REL") /\ wd.use_dma
      /\ wd.cmd_phase < 71
      /\ wd.count \in Nat /\ wd.pause_cnt \in Nat /\ (wd.state # "ST_SAT_PHASE" => wd.pause_cnt = 0)
      /\ wd.state \in Moving \ {"ST_SAT_PHASE"} => wd.count # 0 /\ wd.dma_in_data
  <2>1. ChipSat /\ wd.state \in Moving /\ wd.use_dma
    BY DEF Common, Data, Running, Given
  <2>2. wd.cmd_phase < 71 /\ (wd.state \in Moving \ {"ST_SAT_PHASE"} => wd.count # 0 /\ wd.dma_in_data)
    BY DEF Data, Counts
  <2>3. QED BY <2>1, <2>2 DEF ChipSat
<1>2. /\ in.bsy /\ in.phase = (IF tg.phase = "DATA_OUT" THEN "DATA_IN" ELSE "DATA_OUT")
      /\ in.phase \in Chip!DataPhases /\ in.req = Target!Req(wd.ack, io_ack)
      /\ in.req => ~wd.ack /\ ~Target!data_done
      /\ in.dma_ack = chan.ack /\ in.dma_rdata = <<"mem", chan.moved>>
  <2>1. tg.phase \in DataStages
    BY DEF Data, Counts
  <2>2. QED BY <2>1, BusSeen DEF DataStages, Target!BusPhase, Target!Req, Target!Bsy, Chip!DataPhases
<1>3. Job.op = "write" => in.phase = "DATA_OUT"
  BY <1>2 DEF Data, Side, Sends
<1>4. Alone(in)
  OBVIOUS
<1> HIDE DEF in
<1>5. CASE wd.state = "ST_SAT_PHASE" /\ ~in.req
  <2>1. /\ ChipSat' /\ KeepsJob /\ wd'.state = wd.state /\ KeepsData /\ KeepsEnd /\ KeepsLatch
        /\ wd'.pause_cnt = 0
    BY <1>1, <1>2, <1>4, <1>5, PhaseWaits
  <2>2. Awaits
    BY <1>5, <2>1 DEF Awaits
  <2>3. QED BY <1>1, <2>1, <2>2 DEF KeepsEnd, Turn
<1>6. CASE wd.state = "ST_SAT_PHASE" /\ in.req /\ wd.count = 0 /\ wd.pause_cnt # PAUSE
  <2>1. /\ ChipSat' /\ KeepsJob /\ wd'.state = wd.state /\ KeepsData /\ KeepsEnd /\ KeepsLatch
        /\ wd'.pause_cnt = wd.pause_cnt + 1
    BY <1>1, <1>2, <1>4, <1>6, PhaseCounts
  <2>2. Awaits
    BY <1>6, <2>1 DEF Awaits
  <2>3. QED BY <1>1, <2>1, <2>2 DEF KeepsEnd, Turn
<1>7. CASE wd.state = "ST_SAT_PHASE" /\ in.req /\ wd.count = 0 /\ wd.pause_cnt = PAUSE
  <2>1. /\ ChipSat' /\ KeepsJob /\ wd'.state = "ST_IDLE" /\ KeepsData /\ KeepsEnd /\ KeepsLatch
        /\ wd'.int_pending = TRUE /\ wd'.paused = TRUE
        /\ wd'.status = <<IF in.phase = "DATA_IN" THEN "S_PAUSE_READ" ELSE "S_PAUSE_WRITE">>
    BY <1>1, <1>2, <1>4, <1>7, PhasePauses
  <2>2. Gives
    BY <1>2, <1>7, <2>1 DEF Gives, Pauses
  <2>3. QED BY <1>1, <2>1, <2>2 DEF KeepsEnd, Turn
<1>8. CASE wd.state = "ST_SAT_PHASE" /\ in.req /\ wd.count # 0 /\ in.phase = "DATA_OUT"
  <2>1. /\ ChipSat' /\ KeepsJob /\ wd'.state = "ST_SAT_DMA"
        /\ wd'.count = wd.count /\ wd'.dma_in_data = TRUE /\ wd'.dma_dir_in = FALSE
        /\ KeepsEnd /\ KeepsLatch
    BY <1>1, <1>2, <1>4, <1>8, PhaseSends
  <2>2. Begins
    BY <1>2, <1>8, <2>1 DEF Begins
  <2>3. QED BY <1>1, <2>1, <2>2 DEF KeepsEnd, Turn
<1>9. CASE wd.state = "ST_SAT_PHASE" /\ in.req /\ wd.count # 0 /\ in.phase = "DATA_IN"
  <2>1. /\ ChipSat' /\ KeepsJob /\ wd'.state \in {"ST_SAT_DMA", "ST_SAT_DIN"}
        /\ wd'.count = wd.count /\ wd'.dma_in_data = TRUE /\ KeepsEnd
    <3>1. CASE wd.din_ahead # <<>>
      BY <1>1, <1>2, <1>4, <1>9, <3>1, PhaseTakes
    <3>2. CASE wd.din_ahead = <<>>
      BY <1>1, <1>2, <1>4, <1>9, <3>2, PhaseSettles
    <3>3. QED BY <3>1, <3>2
  <2>2. Begins
    BY <1>2, <1>3, <1>9, <2>1 DEF Begins
  <2>3. QED BY <1>1, <2>1, <2>2 DEF KeepsEnd, Turn
<1>10. CASE wd.state = "ST_SAT_DIN" /\ wd.din_settle = 0
  <2>1. ChipSat' /\ KeepsJob /\ wd'.state = "ST_SAT_DMA" /\ KeepsData /\ KeepsEnd
    BY <1>1, <1>4, <1>10, DinTakes
  <2>2. Takes
    BY <1>10, <2>1 DEF Takes
  <2>3. QED BY <1>1, <2>1, <2>2 DEF KeepsEnd, Turn
<1>11. CASE wd.state = "ST_SAT_DMA" /\ chan.ack
  <2>1. /\ ChipSat' /\ KeepsJob /\ wd'.state = "ST_SAT_ACK" /\ KeepsData /\ KeepsEnd
        /\ ~wd.dma_dir_in => wd'.data_latch = <<"mem", chan.moved>>
    <3>1. CASE wd.dma_dir_in
      BY <1>1, <1>2, <1>4, <1>11, <3>1, DmaTakes
    <3>2. CASE ~wd.dma_dir_in
      BY <1>1, <1>2, <1>4, <1>11, <3>2, DmaSends
    <3>3. QED BY <3>1, <3>2
  <2>2. Moves
    BY <1>11, <2>1 DEF Moves
  <2>3. QED BY <1>1, <2>1, <2>2 DEF KeepsEnd, Turn
<1>12. CASE wd.state = "ST_SAT_ACK" /\ in.req
  <2>1. ChipSat' /\ KeepsJob /\ wd'.state = "ST_SAT_REL" /\ KeepsData /\ KeepsLatch /\ KeepsEnd
    BY <1>1, <1>4, <1>12, AckRises
  <2>2. Raises
    BY <1>2, <1>12, <2>1 DEF Raises
  <2>3. QED BY <1>1, <2>1, <2>2 DEF KeepsEnd, Turn
<1>13. CASE \/ wd.state = "ST_SAT_DIN" /\ wd.din_settle # 0
            \/ wd.state = "ST_SAT_DMA" /\ ~chan.ack
            \/ wd.state = "ST_SAT_ACK" /\ ~in.req
  <2>1. ChipSat' /\ KeepsJob /\ wd'.state = wd.state /\ KeepsData /\ KeepsLatch /\ KeepsEnd
    BY <1>1, <1>2, <1>4, <1>13, ChipStands
  <2>2. Awaits
    BY <1>13, <2>1 DEF Awaits
  <2>3. QED BY <1>1, <2>1, <2>2 DEF KeepsEnd, Turn
<1>14. CASE wd.state = "ST_SAT_REL"
  <2>1. ~in.req /\ wd.pause_cnt = 0 /\ wd.count # 0 /\ wd.count \in Nat
    BY <1>1, <1>2, <1>14 DEF Moving, Following
  <2>2. /\ ChipSat' /\ KeepsJob /\ wd'.state = "ST_SAT_PHASE" /\ wd'.count = wd.count - 1
        /\ wd'.dma_in_data = wd.dma_in_data /\ KeepsLatch /\ wd'.cmd_phase \in {wd.cmd_phase, 70}
        /\ wd'.pause_cnt = wd.pause_cnt
    <3>1. CASE wd.count = 1
      BY <1>1, <1>2, <1>4, <1>14, <2>1, <3>1, RelLast
    <3>2. CASE wd.count # 1
      BY <1>1, <1>2, <1>4, <1>14, <2>1, <3>2, RelCounts DEF KeepsEnd
    <3>3. QED BY <3>1, <3>2
  <2>3. Drops
    BY <1>14, <2>1, <2>2 DEF Drops
  <2>4. QED BY <1>1, <2>2, <2>3 DEF Turn
<1>15. QED BY <1>1, <1>2, <1>5, <1>6, <1>7, <1>8, <1>9, <1>10, <1>11, <1>12, <1>13, <1>14 DEF Moving, Following

\* What the target counts in it.
LEMMA DataTarget ==
    ASSUME Common, DrvInv, NEW d, NEW c, NEW step, Tick(d, c, step), Given, Counts
    PROVE  LET all == DataLength(Job)
           IN  /\ all \in Nat /\ Sent \in Nat /\ Sent <= all /\ Job.len \in Nat /\ Sound(Job)
               /\ Target!data_len = all
               /\ tg'.cmd = tg.cmd /\ tg'.tlen = tg.tlen /\ tg'.status = tg.status
               /\ tg'.data_cnt = tg.data_cnt + Bit(tg.stb_adv)
               /\ tg'.data_cnt \in Nat /\ tg'.data_cnt <= all
               /\ tg'.data_complete <=> (tg'.data_cnt = all /\ all # 0)
               /\ tg'.phase = IF Target!data_done THEN "STATUS_OUT" ELSE tg.phase
               /\ tg.stb_adv => ~Target!data_done
               /\ Target!data_done <=> tg.data_cnt = all
               /\ ~tg'.status_sent
<1> DEFINE all == DataLength(Job)
<1>1. all \in Nat /\ Sent \in Nat /\ Sent <= all /\ Job.len \in Nat /\ Sound(Job)
  BY SentBound DEF Common
<1>2. /\ tg.phase \in DataStages /\ wd.rst_timer = 0 /\ Accepted
      /\ tg.data_cnt \in Nat /\ tg.data_cnt <= all
      /\ tg.data_complete <=> (tg.data_cnt = all /\ all # 0)
      /\ Target!data_done => Settled
  BY DEF Counts
<1>3. Target!data_len = all
  BY <1>2 DEF Accepted, Target!data_len, DataLength
<1> HIDE DEF all
<1>4. Target!data_done <=> tg.data_cnt = all
  BY <1>1, <1>2, <1>3 DEF Target!data_done
<1>5. tg.stb_adv => ~Target!data_done
  BY <1>2 DEF Settled
<1>6. tg'.cmd = tg.cmd /\ tg'.tlen = tg.tlen /\ tg'.status = tg.status /\ ~tg'.status_sent
  BY <1>2, TargetMoves DEF TgCommand, TgCount, Target!Accepts, DataStages
<1>7. tg.phase \in Target!Transferring
  BY <1>2 DEF DataStages, Target!Transferring
<1>8. /\ ~tg.stb_adv => tg'.data_cnt = tg.data_cnt /\ tg'.data_complete = tg.data_complete
      /\ tg.stb_adv => /\ tg'.data_cnt = tg.data_cnt + 1
                       /\ tg'.data_complete <=> (all # 0 /\ tg.data_cnt = all - 1)
  BY <1>2, <1>3, <1>4, <1>5, <1>7, TargetMoves DEF TgCount
<1>9. tg'.data_cnt = tg.data_cnt + Bit(tg.stb_adv)
  BY <1>2, <1>8 DEF Bit
<1>10. tg'.data_cnt \in Nat /\ tg'.data_cnt <= all
  BY <1>1, <1>2, <1>4, <1>5, <1>8
<1>11. tg'.data_complete <=> (tg'.data_cnt = all /\ all # 0)
  BY <1>1, <1>2, <1>8
<1>12. tg'.phase = IF Target!data_done THEN "STATUS_OUT" ELSE tg.phase
  BY <1>2, TargetMoves DEF TgPhase
<1>13. QED BY <1>1, <1>3, <1>4, <1>5, <1>6, <1>9, <1>10, <1>11, <1>12 DEF all

\* The driver and the channel while the chip runs.
LEMMA JobWaits ==
    ASSUME Common, DrvInv, NEW d, NEW c, NEW step, Tick(d, c, step), Running, wd.state # "ST_IDLE"
    PROVE  /\ Alone(Seen(step)) /\ Shapes'
           /\ drv' = drv \/ drv' = At("result") \/ (Stopped /\ drv.pc = "result" /\ drv' = NextJob)
           /\ chan'.ack = c /\ chan'.moved = chan.moved + Bit(c)
           /\ chan'.op = chan.op /\ chan'.room = chan.room
           /\ chan'.ended = (chan.ended \/ wd.dma_eop)
           /\ c => wd.state = "ST_SAT_DMA" /\ ~chan.ack /\ chan.moved < chan.room
<1>1. /\ step.access = Idle /\ step.reset = FALSE /\ step.arms = {}
      /\ drv' = drv \/ drv' = At("result") \/ (Stopped /\ drv.pc = "result" /\ drv' = NextJob)
  BY DriverWaits DEF Common
<1>2. Alone(Seen(step))
  BY <1>1, ClockSeen DEF Alone, Idle, Tick
<1>3. Shapes'
  BY <1>1, ShapesStay DEF Common
<1>4. /\ chan'.ack = c /\ chan'.moved = chan.moved + Bit(c)
      /\ chan'.op = chan.op /\ chan'.room = chan.room
      /\ chan'.ended = (chan.ended \/ wd.dma_eop)
  BY <1>1, ChannelMoves DEF Common, Bit, ChanSat
<1>5. c => wd.state = "ST_SAT_DMA" /\ ~chan.ack /\ chan.moved < chan.room
  BY DEF Tick, ChanCanMove, Common, ChipSat
<1>6. QED BY <1>1, <1>2, <1>3, <1>4, <1>5

\* What is being moved adds up.
LEMMA DataCounts ==
    ASSUME Common, DrvInv, NEW d, NEW c, NEW step, Tick(d, c, step), Data, PAUSE >= 2
    PROVE  /\ ChipSat' /\ Pipe' /\ ChanSat' /\ Shapes' /\ KeepsJob /\ Turn /\ wd'.rst_timer = 0
           /\ (tg'.stb_ack <=> wd.ack) /\ (tg'.stb_adv <=> tg.stb_ack)
           /\ ~wd.ack /\ ~tg.stb_ack => Settled'
           /\ wd'.cmd_phase < 71
           /\ wd'.state \in Moving \/ (Gives /\ Settled)
           /\ wd'.count + tg'.data_cnt + Bit(Late') = Sent
           /\ chan'.moved = tg'.data_cnt + Bit(Late') + Bit((chan.ack \/ wd.state \in {"ST_SAT_ACK", "ST_SAT_REL"})')
           /\ wd'.state \in Moving \ {"ST_SAT_PHASE"} => wd'.count # 0 /\ wd'.dma_in_data
           /\ chan'.moved > 0 => wd'.dma_in_data
           /\ (wd.state = "ST_SAT_ACK" \/ chan.ack)' => Settled'
           /\ wd'.count \in Nat
<1>1. Alone(Seen(step))
  BY JobWaits DEF Data, Moving, Following
<1>2. ChipSat' /\ KeepsJob /\ wd'.cmd_phase < 71 /\ Turn
  BY <1>1, DataChip
<1>3. /\ wd.state \in Moving /\ wd.rst_timer = 0
      /\ wd.ack = (wd.state = "ST_SAT_REL") /\ wd.count \in Nat
      /\ wd.ack => Settled
      /\ tg.old_ack <=> tg.stb_ack
      /\ tg.stb_ack => wd.state = "ST_SAT_PHASE" /\ ~tg.stb_adv /\ wd.pause_cnt = 0
      /\ tg.stb_adv => wd.pause_cnt <= 1
      /\ chan.moved \in Nat /\ chan.room \in Nat /\ chan.moved <= chan.room
      /\ chan.ack => wd.state = "ST_SAT_DMA"
      /\ wd.pause_cnt \in Nat
  BY DEF Common, ChipSat, Pipe, ChanSat, Data, Counts
<1>4. /\ wd.count + tg.data_cnt + Bit(Late) = Sent
      /\ chan.moved = tg.data_cnt + Bit(Late) + Bit(chan.ack \/ wd.state \in {"ST_SAT_ACK", "ST_SAT_REL"})
      /\ wd.state \in Moving \ {"ST_SAT_PHASE"} => wd.count # 0 /\ wd.dma_in_data
      /\ chan.moved > 0 => wd.dma_in_data
      /\ wd.state = "ST_SAT_ACK" \/ chan.ack => Settled
      /\ tg.data_cnt \in Nat
  BY DEF Data, Counts
<1>5. /\ chan'.ack = c /\ chan'.moved = chan.moved + Bit(c) /\ chan'.room = chan.room
      /\ c => wd.state = "ST_SAT_DMA" /\ ~chan.ack /\ chan.moved < chan.room
      /\ c \in BOOLEAN /\ Shapes'
  BY <1>3, JobWaits DEF Data, Moving, Following, Tick
<1>6. tg'.data_cnt = tg.data_cnt + Bit(tg.stb_adv) /\ Sent \in Nat
  BY DataTarget DEF Data, Running
<1>7. wd'.state = "ST_SAT_REL" => wd.state = "ST_SAT_ACK"
  BY <1>2, <1>3 DEF Turn, Awaits, Gives, Begins, Takes, Moves, Raises, Drops
<1>8. wd'.state \in Moving \/ Gives
  BY <1>2, <1>3 DEF Turn, Awaits, Begins, Takes, Moves, Raises, Drops, Moving, Following
<1>9. Gives => Settled /\ ~wd.ack
  <2>1. SUFFICES ASSUME Gives PROVE Settled /\ ~wd.ack
    OBVIOUS
  <2>2. wd.state = "ST_SAT_PHASE" /\ wd.pause_cnt = PAUSE /\ PAUSE \in Nat
    BY <2>1, ChipAssumption DEF Gives
  <2>3. ~wd.ack
    BY <1>3, <2>2
  <2>4. ~tg.stb_adv /\ ~tg.stb_ack
    BY <1>3, <2>2
  <2>5. QED BY <1>3, <2>3, <2>4 DEF Settled
<1>10. wd.ack => wd'.state = "ST_SAT_PHASE" /\ wd'.pause_cnt = 0
  BY <1>2, <1>3 DEF Turn, Awaits, Gives, Begins, Takes, Moves, Raises, Drops
<1>11. tg.stb_ack => wd'.pause_cnt <= 1
  <2>1. wd'.state # "ST_SAT_PHASE" => wd'.pause_cnt = 0
    BY <1>2 DEF ChipSat
  <2>2. QED BY <1>2, <1>3, <2>1 DEF Turn, Awaits, Gives, Begins, Takes, Moves, Raises, Drops
<1>12. /\ Pipe' /\ (tg'.stb_ack <=> wd.ack) /\ (tg'.stb_adv <=> tg.stb_ack)
       /\ ~wd.ack /\ ~tg.stb_ack => Settled'
  <2>1. wd.ack \/ tg.stb_ack => wd'.state \in Moving \union {"ST_SAT_END"} /\ wd'.pause_cnt <= 1
    BY <1>3, <1>8, <1>9, <1>10, <1>11 DEF Settled
  <2>2. TgShake
    BY TargetMoves
  <2>3. QED BY <1>2, <1>7, <1>10, <2>1, <2>2, PipeStep DEF Common
<1>13. Bit(Late') = Bit(wd.ack) + Bit(tg.stb_ack) /\ Bit(Late) = Bit(tg.stb_ack) + Bit(tg.stb_adv)
  BY <1>3, <1>12 DEF Late, Bit, Settled
<1>14. wd'.count = wd.count - Bit(wd.ack) /\ wd'.count \in Nat
  <2>1. CASE wd.ack
    <3>1. Drops /\ wd.count # 0
      <4>1. wd.state = "ST_SAT_REL"
        BY <1>3, <2>1
      <4>2. Drops
        BY <1>2, <4>1 DEF Turn, Awaits, Gives, Begins, Takes, Moves, Raises
      <4>3. QED BY <1>4, <4>1, <4>2 DEF Moving, Following
    <3>2. QED BY <1>3, <2>1, <3>1 DEF Drops, Bit
  <2>2. CASE ~wd.ack
    <3>1. wd'.count = wd.count
      BY <1>2, <1>3, <2>2 DEF Turn, Awaits, Gives, Begins, Takes, Moves, Raises, Drops, KeepsData
    <3>2. QED BY <1>3, <2>2, <3>1 DEF Bit
  <2>3. QED BY <2>1, <2>2
<1>15. wd'.count + tg'.data_cnt + Bit(Late') = Sent
  BY <1>3, <1>4, <1>6, <1>13, <1>14 DEF Bit
<1> DEFINE held == chan.ack \/ wd.state \in {"ST_SAT_ACK", "ST_SAT_REL"}
<1>16. Bit((held)') = Bit(held) + Bit(c) - Bit(wd.ack)
  <2>1. CASE wd.state \in {"ST_SAT_PHASE", "ST_SAT_DIN"}
    <3>1. ~held /\ ~c /\ ~wd.ack /\ wd'.state \notin {"ST_SAT_ACK", "ST_SAT_REL"}
      BY <1>2, <1>3, <1>5, <2>1 DEF Turn, Awaits, Gives, Begins, Takes, Moves, Raises, Drops
    <3>2. QED BY <1>5, <3>1 DEF Bit
  <2>2. CASE wd.state = "ST_SAT_DMA"
    <3>1. ~wd.ack /\ wd'.state = IF chan.ack THEN "ST_SAT_ACK" ELSE "ST_SAT_DMA"
      BY <1>2, <1>3, <2>2 DEF Turn, Awaits, Gives, Begins, Takes, Moves, Raises, Drops
    <3>2. QED BY <1>5, <2>2, <3>1 DEF Bit
  <2>3. CASE wd.state = "ST_SAT_ACK"
    <3>1. ~wd.ack /\ wd'.state \in {"ST_SAT_ACK", "ST_SAT_REL"} /\ ~c
      BY <1>2, <1>3, <1>5, <2>3 DEF Turn, Awaits, Gives, Begins, Takes, Moves, Raises, Drops
    <3>2. QED BY <2>3, <3>1 DEF Bit
  <2>4. CASE wd.state = "ST_SAT_REL"
    <3>1. wd.ack /\ wd'.state = "ST_SAT_PHASE" /\ ~c
      BY <1>3, <1>5, <1>10, <2>4
    <3>2. QED BY <1>5, <2>4, <3>1 DEF Bit
  <2>5. QED BY <1>3, <2>1, <2>2, <2>3, <2>4 DEF Moving, Following
<1>17. chan'.moved = tg'.data_cnt + Bit(Late') + Bit(held')
  BY <1>3, <1>4, <1>5, <1>6, <1>13, <1>16 DEF Bit
<1>18. wd'.state \in Moving \ {"ST_SAT_PHASE"} => wd'.count # 0 /\ wd'.dma_in_data
  <2>1. CASE wd.state = "ST_SAT_PHASE"
    BY <1>2, <2>1 DEF Turn, Awaits, Gives, Begins, Takes, Moves, Raises, Drops, Moving, Following
  <2>2. CASE wd.state # "ST_SAT_PHASE"
    <3>1. wd.count # 0 /\ wd.dma_in_data
      BY <1>3, <1>4, <2>2
    <3>2. QED BY <1>2, <1>3, <2>2, <3>1 DEF Turn, Awaits, Gives, Begins, Takes, Moves, Raises, Drops, KeepsData
  <2>3. QED BY <2>1, <2>2
<1>19. wd.dma_in_data => wd'.dma_in_data
  BY <1>2 DEF Turn, Awaits, Gives, Begins, Takes, Moves, Raises, Drops, KeepsData
<1>20. chan'.moved > 0 => wd'.dma_in_data
  <2>1. CASE c
    <3>1. wd.dma_in_data
      BY <1>4, <1>5, <2>1 DEF Moving, Following
    <3>2. QED BY <1>19, <3>1
  <2>2. CASE ~c
    <3>1. chan'.moved = chan.moved
      BY <1>3, <1>5, <2>2 DEF Bit
    <3>2. QED BY <1>4, <1>19, <3>1
  <2>3. QED BY <2>1, <2>2
<1>21. (wd.state = "ST_SAT_ACK" \/ chan.ack)' => Settled'
  <2>1. wd'.state = "ST_SAT_ACK" => wd.state \in {"ST_SAT_DMA", "ST_SAT_ACK"}
    BY <1>2 DEF Turn, Awaits, Gives, Begins, Takes, Moves, Raises, Drops
  <2>2. wd.state \in {"ST_SAT_DMA", "ST_SAT_ACK"} => ~wd.ack /\ ~tg.stb_ack
    BY <1>3
  <2>3. QED BY <1>5, <1>12, <2>1, <2>2
<1>22. ChanSat'
  <2>1. chan'.moved \in Nat /\ chan'.room \in Nat /\ chan'.moved <= chan'.room
    BY <1>3, <1>5 DEF Bit
  <2>2. chan'.ack => wd'.state = "ST_SAT_DMA" /\ ~tg'.stb_adv
    <3>1. c => wd'.state = "ST_SAT_DMA"
      BY <1>2, <1>5 DEF Turn, Awaits, Gives, Begins, Takes, Moves, Raises, Drops
    <3>2. c => ~tg.stb_ack
      BY <1>3, <1>5
    <3>3. QED BY <1>5, <1>12, <3>1, <3>2
  <2>3. QED BY <2>1, <2>2 DEF ChanSat
<1>23. wd'.rst_timer = 0
  BY <1>2, <1>3 DEF KeepsJob, Chip!Down
<1>24. wd'.state \in Moving \/ (Gives /\ Settled)
  BY <1>8, <1>9
<1>25. QED BY <1>2, <1>5, <1>12, <1>14, <1>15, <1>17, <1>18, <1>20, <1>21, <1>22, <1>23, <1>24

-----------------------------------------------------------------------------
(* The two sides of the data phase.                                        *)

LEMMA SendsInOrder ==
    ASSUME Common, DrvInv, NEW d, NEW c, NEW step, Tick(d, c, step), Given, Counts, Sends, Job.op = "write"
    PROVE  Sending /\ (Target!data_done => ~Edge')
<1> DEFINE all == DataLength(Job)
           n == tg.data_cnt
<1>1. /\ all \in Nat /\ Target!data_len = all /\ Sound(Job)
      /\ tg'.cmd = tg.cmd /\ tg'.tlen = tg.tlen
      /\ tg'.data_cnt = n + Bit(tg.stb_adv) /\ tg'.data_cnt \in Nat /\ tg'.data_cnt <= all
      /\ tg'.phase = IF Target!data_done THEN "STATUS_OUT" ELSE tg.phase
      /\ tg.stb_adv => ~Target!data_done
      /\ Target!data_done <=> n = all
  BY DataTarget
<1>2. /\ wd.rst_timer = 0 /\ Accepted /\ n \in Nat /\ n <= all
      /\ Target!data_done => Settled
  BY DEF Counts
<1>3. /\ tg.phase = "DATA_IN" /\ Writes
      /\ Late => wd.data_latch = <<"mem", n + 1>>
      /\ Late => n \div BLOCK <= tg.lba + 1
      /\ Edge => Settled
  BY DEF Sends
<1>4. Target!cmd_write /\ Target!cmd_write'
  BY <1>1, <1>2 DEF Accepted, Target!cmd_write, Target!Op
<1>5. BLOCK \in Nat \ {0} /\ BLOCK >= 2
  BY BlockIsEven
<1>6. all = Job.len * BLOCK /\ Job.len \in Nat /\ Job.len <= 4
  BY <1>1 DEF DataLength, Sound, Given
<1>7. all <= 4 * BLOCK /\ (n = all => n % BLOCK = 0)
  <2>1. Job.len \in {0, 1, 2, 3, 4}
    BY <1>6
  <2>2. Job.len * BLOCK <= 4 * BLOCK
    BY <1>5, <2>1
  <2>3. (BLOCK * Job.len + 0) % BLOCK = 0 /\ BLOCK * Job.len + 0 = Job.len * BLOCK
    BY <1>5, <1>6, Quotient
  <2>4. QED BY <1>6, <2>2, <2>3
<1>8. Target!data_len' = all
  BY <1>1, <1>4, <1>2 DEF Target!data_len, Target!Op, Accepted
<1> HIDE DEF all, n
<1>9. Target!req_wr <=> (n % BLOCK = 0 /\ n # 0 /\ all # 0)
  BY <1>1, <1>3, <1>4 DEF Target!req_wr, n
<1>10. Target!req_wr' <=> (tg'.phase = "STATUS_OUT" \/ (tg'.data_cnt % BLOCK = 0 /\ tg'.data_cnt # 0)) /\ all # 0
  BY <1>1, <1>3, <1>4, <1>8 DEF Target!req_wr
<1>11. tg'.old_wr <=> Target!req_wr
  BY <1>2, TargetMoves DEF TgBlocks
<1>12. Edge' <=> (tg.stb_adv /\ tg'.data_cnt % BLOCK = 0)
  <2>1. CASE Target!data_done
    <3>1. ~tg.stb_adv /\ tg'.data_cnt = n /\ n = all
      BY <1>1, <1>2, <2>1 DEF Bit
    <3>2. Target!req_wr' => Target!req_wr
      BY <1>7, <1>9, <1>10, <3>1
    <3>3. QED BY <1>11, <3>1, <3>2 DEF Edge
  <2>2. CASE ~Target!data_done /\ tg.stb_adv
    <3>1. tg'.data_cnt = n + 1 /\ tg'.phase = "DATA_IN" /\ all # 0
      BY <1>1, <1>2, <1>3, <2>2 DEF Bit
    <3>2. (n + 1) % BLOCK = 0 => n % BLOCK # 0
      BY <1>2, <1>5, NextPlace
    <3>3. tg'.data_cnt # 0
      BY <1>2, <3>1
    <3>4. QED BY <1>9, <1>10, <1>11, <2>2, <3>1, <3>2, <3>3 DEF Edge
  <2>3. CASE ~Target!data_done /\ ~tg.stb_adv
    <3>1. tg'.data_cnt = n /\ tg'.phase = "DATA_IN"
      BY <1>1, <1>2, <1>3, <2>3 DEF Bit
    <3>2. QED BY <1>9, <1>10, <1>11, <2>3, <3>1 DEF Edge
  <2>4. QED BY <2>1, <2>2, <2>3
<1>13. tg.stb_adv => wd.data_latch = <<"mem", tg.data_cnt + 1>> /\ tg.data_cnt \div BLOCK <= tg.lba + 1 /\ ~Edge
  BY <1>3 DEF Late, Settled, n
<1>14. tg'.data_cnt = tg.data_cnt + Bit(tg.stb_adv) /\ tg'.data_cnt <= 4 * BLOCK
  <2>1. tg'.data_cnt <= all /\ tg'.data_cnt \in Nat
    BY <1>1
  <2>2. QED BY <1>1, <1>5, <1>7, <2>1 DEF n
<1>15. Sending
  BY <1>2, <1>3, <1>4, <1>12, <1>13, <1>14 DEF Sending
<1>16. QED BY <1>1, <1>12, <1>15

\* After a byte was let through, at most one block is not on its way.
LEMMA RoomForOne ==
    ASSUME Writes, tg.phase = "DATA_IN", Target!Req(wd.ack, io_ack)
    PROVE  tg.data_cnt \div BLOCK <= (IF Falls THEN tg.lba + 1 ELSE tg.lba) + 1
<1> DEFINE q == tg.data_cnt \div BLOCK
<1>1. /\ tg.lba \in Nat /\ q = tg.lba + Bit(Edge) + Bit(tg.wr_pending) + Bit(Flying)
      /\ ~(Edge /\ tg.wr_pending) /\ tg.sd_buff_sel = tg.lba % 2
  BY DEF Writes
<1>2. ~(Target!Flushing(io_ack) /\ q % 2 = tg.sd_buff_sel)
  BY DEF Target!Req, Target!io_busy, Target!Half, Target!rd_cur_blk
<1>3. ~Falls /\ (Flying \/ tg.wr_pending) => Target!Flushing(io_ack)
  BY DEF Falls, Flying, Target!Flushing
<1>4. (tg.lba + 2) % 2 = tg.lba % 2
  BY <1>1
<1> HIDE DEF q
<1>5. CASE Falls
  BY <1>1, <1>5 DEF Bit, q
<1>6. CASE ~Falls /\ q > tg.lba + 1
  <2>1. q = tg.lba + 2 /\ Flying
    BY <1>1, <1>6 DEF Bit
  <2>2. QED BY <1>1, <1>2, <1>3, <1>4, <1>6, <2>1
<1>7. CASE ~Falls /\ q <= tg.lba + 1
  BY <1>7 DEF q
<1>8. q \in Nat
  BY <1>1 DEF Bit
<1>9. QED BY <1>1, <1>5, <1>6, <1>7, <1>8

LEMMA SendsStep ==
    ASSUME Common, DrvInv, NEW d, NEW c, NEW step, Tick(d, c, step), Data, Job.op = "write", PAUSE >= 2
    PROVE  /\ Writes' /\ BytesInPlace' /\ (Target!data_done => ~Edge')
           /\ tg'.phase = "DATA_IN" => Sends'
<1>1. Given /\ Counts /\ Sends
  BY DEF Data, Running, Side
<1>2. Sending /\ (Target!data_done => ~Edge')
  BY <1>1, SendsInOrder
<1>3. Writes' /\ BytesInPlace'
  BY <1>2, WritesStep
<1>4. /\ Turn /\ (tg'.stb_ack <=> wd.ack) /\ (tg'.stb_adv <=> tg.stb_ack)
      /\ ~wd.ack /\ ~tg.stb_ack => Settled'
      /\ wd'.state \in Moving \/ Gives
      /\ ChipSat'
  BY DataCounts
<1>5. /\ wd.state \in {"ST_SAT_ACK", "ST_SAT_REL"} \/ Late => wd.data_latch = <<"mem", tg.data_cnt + 1>>
      /\ wd.state = "ST_SAT_DMA" => ~wd.dma_dir_in
      /\ wd.state # "ST_SAT_DIN" /\ wd.state \in Moving
      /\ wd.ack \/ Late => tg.data_cnt \div BLOCK <= tg.lba + 1
      /\ Edge => Settled /\ ~wd.ack
      /\ tg.data_cnt \in Nat
  BY DEF Data, Side, Sends, Counts
<1>6. /\ wd.ack = (wd.state = "ST_SAT_REL") /\ wd'.ack = (wd'.state = "ST_SAT_REL")
      /\ wd.ack => Settled
      /\ tg.stb_ack => wd.state = "ST_SAT_PHASE" /\ ~tg.stb_adv
      /\ wd.state = "ST_SAT_ACK" \/ chan.ack => Settled
      /\ chan.moved = tg.data_cnt + Bit(Late) + Bit(chan.ack \/ wd.state \in {"ST_SAT_ACK", "ST_SAT_REL"})
  BY <1>4 DEF Common, ChipSat, Pipe, Data, Counts
<1>7. tg'.data_cnt = tg.data_cnt + Bit(tg.stb_adv)
  BY <1>2 DEF Sending
<1>8. ~tg.stb_adv => tg'.data_cnt = tg.data_cnt
  BY <1>5, <1>7 DEF Bit
<1>9. wd'.state \in {"ST_SAT_ACK", "ST_SAT_REL"} \/ Late' => wd'.data_latch = <<"mem", tg'.data_cnt + 1>>
  <2>1. CASE wd'.state = "ST_SAT_ACK" /\ wd.state = "ST_SAT_DMA"
    <3>1. Moves
      BY <1>4, <2>1 DEF Turn, Awaits, Gives, Begins, Takes, Raises, Drops
    <3>2. Settled /\ chan.ack /\ ~wd.dma_dir_in
      BY <1>5, <1>6, <2>1, <3>1 DEF Moves
    <3>3. chan.moved = tg.data_cnt + 1
      BY <1>5, <1>6, <3>2 DEF Bit, Late, Settled
    <3>4. tg'.data_cnt = tg.data_cnt /\ wd'.data_latch = <<"mem", chan.moved>>
      BY <1>8, <3>1, <3>2 DEF Moves, Settled
    <3>5. QED BY <3>3, <3>4
  <2>2. CASE wd'.state \in {"ST_SAT_ACK", "ST_SAT_REL"} /\ wd.state = "ST_SAT_ACK"
    <3>1. KeepsLatch /\ ~tg.stb_adv
      BY <1>4, <1>6, <2>2 DEF Turn, Awaits, Gives, Begins, Takes, Moves, Raises, Drops, Settled
    <3>2. QED BY <1>5, <1>8, <2>2, <3>1 DEF KeepsLatch
  <2>3. CASE wd.ack
    <3>1. wd.state = "ST_SAT_REL" /\ ~tg.stb_adv
      BY <1>6, <2>3 DEF Settled
    <3>2. KeepsLatch
      BY <1>4, <3>1 DEF Turn, Awaits, Gives, Begins, Takes, Moves, Raises, Drops
    <3>3. QED BY <1>5, <1>8, <3>1, <3>2 DEF KeepsLatch
  <2>4. CASE tg.stb_ack
    <3>1. wd.state = "ST_SAT_PHASE" /\ ~tg.stb_adv /\ Late
      BY <1>6, <2>4 DEF Late
    <3>2. KeepsLatch
      BY <1>4, <3>1 DEF Turn, Awaits, Gives, Begins, Takes, Moves, Raises, Drops
    <3>3. QED BY <1>5, <1>8, <3>1, <3>2 DEF KeepsLatch
  <2>5. Late' => wd.ack \/ tg.stb_ack
    BY <1>4 DEF Late
  <2>6. wd'.state \in {"ST_SAT_ACK", "ST_SAT_REL"} => wd.state \in {"ST_SAT_DMA", "ST_SAT_ACK"}
    BY <1>4 DEF Turn, Awaits, Gives, Begins, Takes, Moves, Raises, Drops
  <2>7. wd.state = "ST_SAT_DMA" => wd'.state # "ST_SAT_REL"
    BY <1>4 DEF Turn, Awaits, Gives, Begins, Takes, Moves, Raises, Drops
  <2>8. QED BY <2>1, <2>2, <2>3, <2>4, <2>5, <2>6, <2>7
<1>10. wd'.state = "ST_SAT_DMA" => ~wd'.dma_dir_in
  BY <1>4, <1>5 DEF Turn, Awaits, Gives, Begins, Takes, Moves, Raises, Drops, KeepsData
<1>11. wd'.state # "ST_SAT_DIN"
  BY <1>4, <1>5 DEF Turn, Awaits, Gives, Begins, Takes, Moves, Raises, Drops
<1>12. wd'.ack \/ Late' => tg'.data_cnt \div BLOCK <= tg'.lba + 1
  <2> DEFINE q == tg.data_cnt \div BLOCK
  <2>1. tg'.lba = (IF Falls THEN tg.lba + 1 ELSE tg.lba) /\ tg.lba \in Nat /\ q \in Nat
    <3>1. tg'.lba = (IF Falls THEN tg.lba + 1 ELSE tg.lba)
      BY <1>2, BlocksAdd
    <3>2. tg.lba \in Nat
      BY <1>2 DEF Sending, Writes
    <3>3. BLOCK \in Nat \ {0}
      BY BlockIsEven
    <3>4. q \in Nat
      BY <1>5, <3>3, Division
    <3>5. QED BY <3>1, <3>2, <3>4
  <2>2. CASE wd'.ack
    <3>1. wd'.state = "ST_SAT_REL"
      BY <1>6, <2>2
    <3>2. wd.state = "ST_SAT_ACK" /\ Target!Req(wd.ack, io_ack)
      BY <1>4, <3>1 DEF Turn, Awaits, Gives, Begins, Takes, Moves, Raises, Drops
    <3>3. tg'.data_cnt = tg.data_cnt
      BY <1>6, <1>8, <3>2 DEF Settled
    <3>4. tg.data_cnt \div BLOCK <= (IF Falls THEN tg.lba + 1 ELSE tg.lba) + 1
      BY <1>2, <3>2, RoomForOne DEF Sending, Data, Side, Sends
    <3>5. QED BY <2>1, <3>3, <3>4
  <2>3. CASE wd.ack \/ tg.stb_ack
    <3>1. ~tg.stb_adv
      BY <1>6, <2>3 DEF Settled
    <3>2. tg'.data_cnt = tg.data_cnt /\ q <= tg.lba + 1
      BY <1>5, <1>8, <2>3, <3>1 DEF Late
    <3>3. q <= tg'.lba + 1
      <4> HIDE DEF q
      <4>1. QED BY <2>1, <3>2
    <3>4. QED BY <3>2, <3>3
  <2>4. QED BY <1>4, <2>2, <2>3 DEF Late
<1>13. Edge' => Settled' /\ ~wd'.ack
  <2>1. SUFFICES ASSUME Edge' PROVE Settled' /\ ~wd'.ack
    OBVIOUS
  <2>2. tg.stb_adv
    BY <1>2, <2>1 DEF Sending
  <2>3. ~tg.stb_ack /\ ~wd.ack /\ wd.state # "ST_SAT_ACK"
    BY <1>6, <2>2 DEF Settled
  <2>4. wd'.state # "ST_SAT_REL"
    BY <1>4, <2>3 DEF Turn, Awaits, Gives, Begins, Takes, Moves, Raises, Drops
  <2>5. QED BY <1>4, <1>6, <2>3, <2>4
<1>14. QED BY <1>2, <1>3, <1>9, <1>10, <1>11, <1>12, <1>13 DEF Sends

LEMMA ReceivesStep ==
    ASSUME Common, DrvInv, NEW d, NEW c, NEW step, Tick(d, c, step), Given, Counts, Receives, Job.op = "read",
           tg'.stb_ack <=> wd.ack, tg'.stb_adv <=> tg.stb_ack,
           wd'.ack => Settled /\ ~wd.ack /\ Target!Req(wd.ack, io_ack)
    PROVE  /\ BytesInPlace' /\ image' = image
           /\ tg'.phase = "DATA_OUT" => Receives'
           /\ Target!data_done => DevIdle'
<1> DEFINE b == tg.rd_hps_blk
           n == tg.data_cnt
           all == DataLength(Job)
<1>1. /\ tg.phase = "DATA_OUT" /\ b \in Nat
      /\ b + Bit(tg.rd_busy) <= tg.tlen
      /\ tg.rd_busy <=> (tg.io_rd \/ io_ack \/ tg.old_io_ack)
      /\ ~tg.io_wr /\ ~tg.wr_pending
      /\ dev.does \in {"idle", "read"}
      /\ dev.does = "read" /\ ~tg.io_rd => tg.old_io_ack
      /\ ~(tg.old_io_ack /\ tg.io_rd)
      /\ n + Bit(wd.ack \/ Late) <= b * BLOCK
  BY DEF Receives
<1>2. /\ all \in Nat /\ Target!data_len = all /\ all = Job.len * BLOCK /\ Job.len \in Nat
      /\ tg'.tlen = tg.tlen /\ tg'.cmd = tg.cmd
      /\ tg'.data_cnt = n + Bit(tg.stb_adv) /\ tg'.data_cnt \in Nat
      /\ Target!data_done <=> n = all
  BY DataTarget DEF DataLength
<1>3. /\ wd.rst_timer = 0 /\ Accepted /\ n \in Nat /\ n <= all
      /\ tg.data_complete <=> (n = all /\ all # 0)
      /\ Target!data_done => Settled
  BY DEF Counts
<1>4. Target!cmd_read /\ ~Target!cmd_write /\ tg.tlen = Job.len
  BY <1>3 DEF Accepted, Target!cmd_read, Target!cmd_write
<1>5. BLOCK \in Nat \ {0}
  BY BlockIsEven
<1>6. ~Target!req_wr /\ (Target!req_rd => b < tg.tlen /\ ~tg.data_complete)
  BY <1>4 DEF Target!req_wr, Target!req_rd
<1>7. /\ io_ack <=> dev.does = "read"
      /\ ~io_ack /\ ~tg.io_rd => ~io_ack'
      /\ ~io_ack /\ io_ack' => tg.io_rd
      /\ dev'.does \in {"idle", "read"} /\ image' = image
  <2>1. DevClock(d) /\ (d => DevCanMove) /\ {"does", "k", "pair", "settled", "lba"} \subseteq DOMAIN dev
    BY DEF Tick, ClockWith, Common, Shapes
  <2>2. image' = image
    BY <1>1, <2>1 DEF DevClock, Samples
  <2>3. CASE dev.does = "idle"
    <3>1. dev'.does = IF d THEN "read" ELSE "idle"
      BY <1>1, <2>1, <2>3 DEF DevClock
    <3>2. d => tg.io_rd
      BY <1>1, <2>1, <2>3 DEF DevCanMove
    <3>3. QED BY <2>2, <2>3, <3>1, <3>2 DEF io_ack
  <2>4. CASE dev.does = "read"
    <3>1. dev'.does \in {"idle", "read"}
      BY <2>1, <2>4 DEF DevClock
    <3>2. QED BY <2>2, <2>4, <3>1 DEF io_ack
  <2>5. QED BY <1>1, <2>3, <2>4
<1>8. /\ tg'.rd_hps_blk = IF Falls THEN b + 1 ELSE b
      /\ tg'.io_rd <=> (~io_ack /\ (tg.io_rd \/ AsksRd))
      /\ tg'.rd_busy <=> (~Falls /\ (tg.rd_busy \/ AsksRd))
      /\ ~tg'.io_wr /\ ~tg'.wr_pending /\ (tg'.old_io_ack <=> io_ack)
  <2>1. TgBlocks /\ tg.phase \in Target!Transferring
    BY <1>1, TargetMoves DEF Target!Transferring
  <2>2. ~AsksWr
    BY <1>1 DEF AsksWr
  <2>3. tg'.rd_hps_blk = IF Falls THEN b + 1 ELSE b
    BY <1>4, <2>1 DEF TgBlocks
  <2>4. /\ tg'.io_rd <=> (~io_ack /\ (tg.io_rd \/ AsksRd))
        /\ tg'.rd_busy <=> (~Falls /\ (tg.rd_busy \/ AsksRd))
    BY <1>3, <2>1 DEF TgBlocks
  <2>5. ~tg'.io_wr /\ ~tg'.wr_pending /\ (tg'.old_io_ack <=> io_ack)
    BY <1>1, <1>6, <2>1, <2>2 DEF TgBlocks
  <2>6. QED BY <2>3, <2>4, <2>5
<1>9. /\ AsksRd => ~io_ack /\ Target!req_rd /\ ~tg.io_rd /\ ~tg.rd_busy
      /\ ~io_ack /\ Target!req_rd /\ ~tg.io_rd /\ ~tg.rd_busy => AsksRd
      /\ Falls <=> (tg.old_io_ack /\ ~io_ack)
  BY DEF AsksRd, Falls
<1>10. /\ tg'.rd_busy <=> (tg'.io_rd \/ io_ack' \/ tg'.old_io_ack)
       /\ tg'.rd_hps_blk \in Nat
       /\ tg'.rd_hps_blk + Bit(tg'.rd_busy) <= tg.tlen
  <2>1. CASE Falls
    <3>1. ~tg'.rd_busy /\ ~tg'.io_rd /\ ~io_ack' /\ ~tg'.old_io_ack /\ tg.rd_busy
      BY <1>1, <1>7, <1>8, <1>9, <2>1
    <3>2. tg'.rd_hps_blk = b + 1
      BY <1>8, <2>1
    <3>3. QED BY <1>1, <3>1, <3>2 DEF Bit
  <2>2. CASE ~Falls /\ tg.rd_busy
    <3>1. tg'.rd_busy /\ (tg'.io_rd \/ tg'.old_io_ack) /\ tg'.rd_hps_blk = b
      BY <1>1, <1>8, <1>9, <2>2
    <3>2. QED BY <1>1, <2>2, <3>1 DEF Bit
  <2>3. CASE ~Falls /\ ~tg.rd_busy
    <3>1. /\ tg'.rd_busy <=> Target!req_rd
          /\ tg'.io_rd <=> Target!req_rd
          /\ ~io_ack' /\ ~tg'.old_io_ack /\ tg'.rd_hps_blk = b
      BY <1>1, <1>7, <1>8, <1>9, <2>3
    <3>2. b <= tg.tlen /\ (Target!req_rd => b + 1 <= tg.tlen)
      BY <1>1, <1>2, <1>4, <1>6, <2>3 DEF Bit
    <3>3. QED BY <1>1, <3>1, <3>2 DEF Bit
  <2>4. QED BY <2>1, <2>2, <2>3
<1>11. /\ dev'.does = "read" /\ ~tg'.io_rd => tg'.old_io_ack
       /\ ~(tg'.old_io_ack /\ tg'.io_rd)
  BY <1>7, <1>8 DEF io_ack
<1> DEFINE x == b * BLOCK
<1>12. x \in Nat /\ (tg'.rd_hps_blk * BLOCK = x \/ tg'.rd_hps_blk * BLOCK = x + BLOCK)
  BY <1>1, <1>5, <1>8
<1>13. tg'.data_cnt + Bit((wd.ack \/ Late)') <= x
  <2>1. n + Bit(wd.ack \/ Late) <= x
    BY <1>1
  <2>2. CASE wd'.ack
    <3>1. n \div BLOCK < b
      <4>1. ~Target!Unfilled(Target!rd_cur_blk)
        BY <1>1, <1>4, <2>2 DEF Target!Req, Target!io_busy
      <4>2. Target!rd_cur_blk \in Nat
        BY <1>3, <1>5, Division DEF Target!rd_cur_blk
      <4>3. QED BY <1>1, <4>1, <4>2 DEF Target!Unfilled, Target!rd_cur_blk
    <3>2. n + 1 <= x
      <4> DEFINE q == n \div BLOCK
                 m == n % BLOCK
                 y == BLOCK * q
      <4>1. q \in Nat /\ m \in 0..(BLOCK - 1) /\ n = y + m
        BY <1>3, <1>5, Division
      <4>2. y + BLOCK <= BLOCK * b /\ y \in Nat
        <5>1. q < b
          BY <3>1
        <5> HIDE DEF q
        <5>2. y + BLOCK <= BLOCK * b
          BY <1>1, <1>5, <4>1, <5>1, Above
        <5>3. y \in Nat
          BY <1>5, <4>1
        <5>4. QED BY <5>2, <5>3
      <4>3. BLOCK * b = x
        BY <1>1, <1>5
      <4> HIDE DEF q, m, y, x
      <4>4. QED BY <1>3, <1>5, <1>12, <4>1, <4>2, <4>3
    <3>3. tg'.data_cnt = n
      BY <1>2, <1>3, <2>2 DEF Settled, Bit
    <3>4. QED BY <2>2, <3>2, <3>3 DEF Bit
  <2>3. CASE ~wd'.ack
    <3>1. Late' <=> (wd.ack \/ tg.stb_ack)
      BY DEF Late
    <3>2. /\ wd.ack => ~tg.stb_ack /\ ~tg.stb_adv
          /\ tg.stb_ack => ~tg.stb_adv
      BY DEF Common, Pipe, Settled
    <3>3. tg'.data_cnt + Bit((wd.ack \/ Late)') = n + Bit(wd.ack \/ Late)
      BY <1>2, <1>3, <2>3, <3>1, <3>2 DEF Bit, Late
    <3>4. QED BY <2>1, <3>3
  <2>4. QED BY <2>2, <2>3
<1>14. tg'.data_cnt + Bit((wd.ack \/ Late)') <= tg'.rd_hps_blk * BLOCK
  <2> DEFINE l == tg'.data_cnt + Bit((wd.ack \/ Late)')
             y == tg'.rd_hps_blk * BLOCK
  <2>1. l \in Nat /\ l <= x /\ x \in Nat /\ (y = x \/ y = x + BLOCK)
    BY <1>2, <1>12, <1>13 DEF Bit
  <2> HIDE DEF l, y, x
  <2>2. l <= y
    BY <1>5, <2>1
  <2>3. QED BY <2>2 DEF l, y
<1>15. tg'.phase = "DATA_OUT" => Receives'
  BY <1>2, <1>7, <1>8, <1>10, <1>11, <1>14 DEF Receives
<1>16. Target!data_done => DevIdle'
  <2>1. SUFFICES ASSUME Target!data_done PROVE DevIdle'
    OBVIOUS
  <2>2. b >= Job.len
    <3>1. n = Job.len * BLOCK /\ n <= b * BLOCK
      BY <1>1, <1>2, <1>3, <1>12, <2>1 DEF Bit
    <3>2. CASE b < Job.len
      <4>1. BLOCK * b + BLOCK <= BLOCK * Job.len
        BY <1>1, <1>2, <1>5, <3>2, Above
      <4>2. BLOCK * b = b * BLOCK /\ BLOCK * Job.len = Job.len * BLOCK
        BY <1>1, <1>2, <1>5
      <4> DEFINE u == b * BLOCK
                 v == Job.len * BLOCK
      <4>3. u + BLOCK <= v /\ v <= u /\ u \in Nat /\ v \in Nat
        BY <1>1, <1>2, <1>5, <3>1, <4>1, <4>2
      <4> HIDE DEF u, v
      <4>4. QED BY <1>5, <4>3
    <3>3. QED BY <1>1, <1>2, <3>2
  <2>3. ~tg.rd_busy
    BY <1>1, <1>2, <1>4, <2>2 DEF Bit
  <2>4. ~Target!req_rd
    BY <1>2, <1>3, <2>1 DEF Target!req_rd
  <2>5. DevIdle
    BY <1>1, <2>3 DEF DevIdle, io_ack
  <2>6. QED BY <1>6, <2>4, <2>5, DeviceStands DEF Common
<1>17. BytesInPlace'
  BY <1>7 DEF Common, BytesInPlace
<1>18. QED BY <1>7, <1>15, <1>16, <1>17

\* The other side of it.
LEMMA SideStep ==
    ASSUME Common, DrvInv, NEW d, NEW c, NEW step, Tick(d, c, step), Data, PAUSE >= 2
    PROVE  /\ BytesInPlace'
           /\ ~Target!data_done /\ Job' = Job => Side'
           /\ Target!data_done => IF Job.op = "write" /\ Job.len # 0 THEN Writes' ELSE DevIdle'
<1>1. /\ Given /\ Counts /\ wd.state \in Moving
      /\ Job.op = "write" => Sends
      /\ Job.op = "read" => Receives
      /\ Job.op \notin {"read", "write"} => DevIdle /\ tg.phase = "DATA_OUT" /\ Job.op = "inquiry"
  BY DEF Data, Running, Side
<1>2. /\ Job.len \in Nat /\ DataLength(Job) \in Nat
      /\ Target!data_len = DataLength(Job)
      /\ tg'.phase = IF Target!data_done THEN "STATUS_OUT" ELSE tg.phase
      /\ Target!data_done <=> tg.data_cnt = DataLength(Job)
  BY <1>1, DataTarget
<1>3. Target!Op = Job.op
  BY <1>1 DEF Counts, Accepted
<1>4. CASE Job.op = "write"
  <2>1. Writes' /\ BytesInPlace' /\ (tg'.phase = "DATA_IN" => Sends')
    BY <1>4, SendsStep
  <2>2. ~Target!data_done => tg'.phase = "DATA_IN"
    BY <1>1, <1>2, <1>4 DEF Sends
  <2>3. Target!data_done /\ Job.len = 0 => DevIdle'
    <3>1. SUFFICES ASSUME Target!data_done, Job.len = 0 PROVE DevIdle'
      OBVIOUS
    <3>2. BLOCK \in Nat \ {0}
      BY BlockIsEven
    <3>3. tg.data_cnt = 0
      BY <1>2, <1>4, <3>1, <3>2 DEF DataLength
    <3>4. tg.data_cnt \div BLOCK = 0
      BY <3>2, <3>3
    <3>5. Writes /\ tg.phase = "DATA_IN"
      BY <1>1, <1>4 DEF Sends
    <3>6. Bit(Edge) + Bit(tg.wr_pending) + Bit(Flying) = 0
      BY <3>4, <3>5 DEF Writes, Bit
    <3>7. ~tg.wr_pending /\ ~Flying
      BY <3>6 DEF Bit
    <3>8. DevIdle
      BY <3>5, <3>7 DEF DevIdle, Writes, Flying, io_ack
    <3>9. ~Target!req_rd /\ ~Target!req_wr
      BY <3>3, <3>5 DEF Target!req_rd, Target!req_wr
    <3>10. QED BY <3>8, <3>9, DeviceStands DEF Common
  <2>4. ~Target!data_done /\ Job' = Job => Side'
    BY <1>4, <2>1, <2>2 DEF Side
  <2>5. QED BY <1>4, <2>1, <2>3, <2>4
<1>5. CASE Job.op = "read"
  <2>1. /\ tg'.stb_ack <=> wd.ack
        /\ tg'.stb_adv <=> tg.stb_ack
        /\ Turn /\ ChipSat'
    BY DataCounts
  <2>2. wd'.ack => Settled /\ ~wd.ack /\ Target!Req(wd.ack, io_ack)
    <3>1. SUFFICES ASSUME wd'.ack PROVE Settled /\ ~wd.ack /\ Target!Req(wd.ack, io_ack)
      OBVIOUS
    <3>2. wd'.state = "ST_SAT_REL"
      BY <2>1, <3>1 DEF ChipSat
    <3>3. wd.state = "ST_SAT_ACK" /\ Target!Req(wd.ack, io_ack)
      BY <2>1, <3>2 DEF Turn, Awaits, Gives, Begins, Takes, Moves, Raises, Drops
    <3>4. QED BY <1>1, <3>3 DEF Counts, Common, ChipSat
  <2>3. /\ BytesInPlace'
        /\ tg'.phase = "DATA_OUT" => Receives'
        /\ Target!data_done => DevIdle'
    BY <1>1, <1>5, <2>1, <2>2, ReceivesStep
  <2>4. ~Target!data_done => tg'.phase = "DATA_OUT"
    BY <1>1, <1>2, <1>5 DEF Receives
  <2>5. QED BY <1>5, <2>3, <2>4 DEF Side
<1>6. CASE Job.op \notin {"read", "write"}
  <2>1. ~Target!req_rd /\ ~Target!req_wr
    BY <1>3, <1>6 DEF Target!req_rd, Target!req_wr, Target!cmd_read, Target!cmd_write
  <2>2. DevIdle' /\ image' = image
    BY <1>1, <1>6, <2>1, DeviceStands DEF Common
  <2>3. BytesInPlace'
    BY <2>2 DEF Common, BytesInPlace
  <2>4. ~Target!data_done => tg'.phase = "DATA_OUT"
    BY <1>1, <1>2, <1>6
  <2>5. QED BY <1>1, <1>6, <2>2, <2>3, <2>4 DEF Side
<1>7. QED BY <1>4, <1>5, <1>6

\* While there is more of it.
LEMMA DataGoesOn ==
    ASSUME Common, DrvInv, NEW d, NEW c, NEW step, Tick(d, c, step), Data, PAUSE >= 2,
           ~Target!data_done, Running', Job' = Job, Sent' = Sent
    PROVE  (Data \/ Paused)'
<1> DEFINE all == DataLength(Job)
<1>1. Given /\ Counts /\ wd.state \in Moving
  BY DEF Data, Running
<1>2. /\ all \in Nat /\ Sent \in Nat /\ Sent <= all /\ Target!data_len = all
      /\ tg'.cmd = tg.cmd /\ tg'.tlen = tg.tlen /\ tg'.status = tg.status
      /\ tg'.data_cnt = tg.data_cnt + Bit(tg.stb_adv)
      /\ tg'.data_cnt \in Nat /\ tg'.data_cnt <= all
      /\ tg'.data_complete <=> (tg'.data_cnt = all /\ all # 0)
      /\ tg'.phase = IF Target!data_done THEN "STATUS_OUT" ELSE tg.phase
      /\ Target!data_done <=> tg.data_cnt = all
  BY <1>1, DataTarget
<1>3. /\ ChipSat' /\ Pipe' /\ wd'.rst_timer = 0 /\ wd'.cmd_phase < 71
      /\ wd'.state \in Moving \/ (Gives /\ Settled)
      /\ ~wd.ack /\ ~tg.stb_ack => Settled'
      /\ wd'.count + tg'.data_cnt + Bit(Late') = Sent
      /\ chan'.moved = tg'.data_cnt + Bit(Late') + Bit((chan.ack \/ wd.state \in {"ST_SAT_ACK", "ST_SAT_REL"})')
      /\ wd'.state \in Moving \ {"ST_SAT_PHASE"} => wd'.count # 0 /\ wd'.dma_in_data
      /\ chan'.moved > 0 => wd'.dma_in_data
      /\ (wd.state = "ST_SAT_ACK" \/ chan.ack)' => Settled'
      /\ wd'.count \in Nat
  BY DataCounts
<1>4. DataLength(Job)' = all
  BY DEF DataLength
<1>5. Target!Op' = Target!Op /\ Target!data_len' = all
  BY <1>2 DEF Target!Op, Target!data_len
<1>6. Target!data_done' <=> tg'.data_cnt = all
  BY <1>2, <1>5 DEF Target!data_done
<1>7. Accepted'
  BY <1>1, <1>2, <1>5 DEF Counts, Accepted
<1>8. tg'.phase = tg.phase /\ tg.phase \in DataStages /\ tg.data_cnt \in Nat
  BY <1>1, <1>2 DEF Counts
<1>9. Side'
  BY SideStep
<1> HIDE DEF all
<1>10. Target!data_done' => wd'.count = 0 /\ ~Late'
  <2>1. SUFFICES ASSUME Target!data_done' PROVE wd'.count = 0 /\ ~Late'
    OBVIOUS
  <2>2. tg'.data_cnt = all
    BY <1>6, <2>1
  <2>3. QED BY <1>2, <1>3, <2>2 DEF Bit
<1>11. ~Late' => Settled'
  BY <1>3 DEF Late, Settled, Pipe
<1>12. Gives => ~Target!data_done' /\ wd'.state = "ST_IDLE" /\ Settled'
  <2>1. SUFFICES ASSUME Gives PROVE ~Target!data_done' /\ wd'.state = "ST_IDLE" /\ Settled'
    OBVIOUS
  <2>2. wd.state = "ST_SAT_PHASE" /\ wd'.state = "ST_IDLE" /\ Settled
    BY <1>3, <2>1 DEF Gives, Moving, Following
  <2>3. ~wd.ack /\ ~tg.stb_ack /\ ~tg.stb_adv
    BY <2>2 DEF Common, ChipSat, Settled
  <2>4. tg'.data_cnt = tg.data_cnt
    BY <1>2, <1>8, <2>3 DEF Bit
  <2>5. QED BY <1>2, <1>3, <1>6, <2>2, <2>3, <2>4
<1>13. Target!data_done' => wd'.state = "ST_SAT_PHASE" /\ Settled'
  <2>1. SUFFICES ASSUME Target!data_done' PROVE wd'.state = "ST_SAT_PHASE" /\ Settled'
    OBVIOUS
  <2>2. wd'.state \in Moving
    BY <1>3, <1>12, <2>1
  <2>3. QED BY <1>3, <1>10, <1>11, <2>1, <2>2
<1>14. Counts'
  <2>1. /\ tg'.data_cnt <= DataLength(Job)'
        /\ tg'.data_complete <=> (tg'.data_cnt = DataLength(Job)' /\ DataLength(Job)' # 0)
    BY <1>2, <1>4
  <2>2. QED BY <1>2, <1>3, <1>7, <1>8, <1>13, <2>1 DEF Counts
<1>15. CASE wd'.state \in Moving
  BY <1>9, <1>14, <1>15 DEF Data
<1>16. CASE Gives
  <2>1. /\ wd'.count = 0 /\ wd'.int_pending /\ wd'.status \in Pauses /\ wd'.paused
    BY <1>16 DEF Gives, KeepsData
  <2>2. QED BY <1>9, <1>12, <1>14, <1>16, <2>1 DEF Paused, Running
<1>17. QED BY <1>3, <1>15, <1>16

\* At its end.
LEMMA DataEnds ==
    ASSUME Common, DrvInv, NEW d, NEW c, NEW step, Tick(d, c, step), Data, PAUSE >= 2,
           Target!data_done, Running', Job' = Job, Sent' = Sent
    PROVE  Statusing'
<1> DEFINE all == DataLength(Job)
<1>1. Given /\ Counts /\ wd.state = "ST_SAT_PHASE" /\ Settled
  BY DEF Data, Running, Counts
<1>2. /\ all \in Nat /\ Sent \in Nat /\ Sent <= all /\ Target!data_len = all /\ Job.len \in Nat
      /\ tg'.cmd = tg.cmd /\ tg'.tlen = tg.tlen /\ tg'.status = tg.status
      /\ tg'.data_cnt = tg.data_cnt + Bit(tg.stb_adv)
      /\ tg'.phase = "STATUS_OUT"
      /\ tg.data_cnt = all /\ ~tg'.status_sent
  BY <1>1, DataTarget
<1>3. /\ ChipSat' /\ Turn /\ wd'.rst_timer = 0 /\ wd'.cmd_phase < 71
      /\ ~wd.ack /\ ~tg.stb_ack => Settled'
      /\ chan'.moved > 0 => wd'.dma_in_data
  BY DataCounts
<1>4. wd'.state = "ST_SAT_PHASE" /\ Settled'
  <2>1. Awaits
    BY <1>1, <1>2, <1>3 DEF Turn, Gives, Begins, Takes, Moves, Raises, Drops, Target!Req, Counts
  <2>2. QED BY <1>1, <1>3, <2>1 DEF Awaits, Common, ChipSat, Settled
<1>5. chan'.moved = chan.moved /\ chan'.room = chan.room
  <2>1. c \in BOOLEAN /\ chan.moved \in Nat
    BY DEF Tick, Common, ChanSat
  <2>2. QED BY <1>1, <2>1, JobWaits DEF Data, Bit
<1>6. chan.moved = all /\ chan.room = all
  <2>1. /\ wd.count + tg.data_cnt + Bit(Late) = Sent
        /\ chan.moved = tg.data_cnt + Bit(Late) + Bit(chan.ack \/ wd.state \in {"ST_SAT_ACK", "ST_SAT_REL"})
    BY <1>1 DEF Counts
  <2>2. ~Late /\ ~(chan.ack \/ wd.state \in {"ST_SAT_ACK", "ST_SAT_REL"})
    BY <1>1 DEF Late, Settled, Common, ChanSat
  <2>3. wd.count \in Nat /\ chan.moved \in Nat /\ chan.room \in Nat /\ chan.moved <= chan.room /\ chan.room <= Sent
    BY <1>1 DEF Common, ChipSat, ChanSat, Given
  <2> HIDE DEF all
  <2>4. QED BY <1>2, <2>1, <2>2, <2>3 DEF Bit
<1>7. Ending'
  BY <1>5, <1>6 DEF Ending, DataLength
<1>8. Target!Op' = Target!Op /\ Target!data_len' = all /\ Accepted'
  BY <1>1, <1>2 DEF Target!Op, Target!data_len, Counts, Accepted
<1>9. Target!Op = Job.op /\ tg.phase \in DataStages
  BY <1>1 DEF Counts, Accepted
<1>10. IF Job.op = "write" /\ Job.len # 0 THEN Writes' ELSE DevIdle'
  BY SideStep
<1>14. /\ wd'.state \in Following /\ wd'.rst_timer = 0 /\ wd'.cmd_phase < 80
       /\ ~wd'.dma_in_data => EopDone'
  <2>1. wd'.cmd_phase \in Nat /\ wd'.cmd_phase < 71
    BY <1>3 DEF ChipSat
  <2>2. ~wd'.dma_in_data => EopDone'
    BY <1>3 DEF EopDone
  <2>3. QED BY <1>3, <1>4, <2>1, <2>2 DEF Following
<1>11. CASE Job.op = "write" /\ Job.len # 0
  <2>1. BLOCK \in Nat \ {0} /\ all = Job.len * BLOCK
    BY <1>11, BlockIsEven DEF DataLength
  <2>2. all # 0 /\ all % BLOCK = 0
    <3>1. BLOCK * Job.len + 0 \in Nat /\ (BLOCK * Job.len + 0) % BLOCK = 0
      <4>1. 0 \in Nat /\ 0 < BLOCK
        BY <2>1
      <4>2. (BLOCK * Job.len + 0) % BLOCK = 0
        BY <1>2, <2>1, <4>1, Quotient
      <4>3. QED BY <1>2, <2>1, <4>2
    <3>2. BLOCK * Job.len + 0 = Job.len * BLOCK
      BY <1>2, <2>1
    <3>3. Job.len * BLOCK # 0
      BY <1>2, <1>11, <2>1
    <3>4. QED BY <2>1, <3>1, <3>2, <3>3
  <2>3. Target!req_wr
    <3>1. tg.phase = "DATA_IN"
      BY <1>11 DEF Data, Side, Sends
    <3>2. QED BY <1>2, <1>9, <1>11, <2>2, <3>1 DEF Target!req_wr, Target!cmd_write
  <2>4. tg'.old_wr
    <3>1. wd.rst_timer = 0
      BY <1>1 DEF Counts
    <3>2. QED BY <2>3, <3>1, TargetMoves DEF TgBlocks
  <2>5. tg'.data_cnt = Job.len * BLOCK
    BY <1>1, <1>2, <2>1 DEF Settled, Bit
  <2>6. ~Late'
    BY <1>4 DEF Late, Settled
  <2>7. Writes' /\ Job'.op = "write" /\ Job'.len # 0 /\ tg'.data_cnt = Job'.len * BLOCK
    BY <1>10, <1>11, <2>5
  <2>8. QED BY <1>2, <1>4, <1>7, <1>8, <1>14, <2>4, <2>6, <2>7 DEF Statusing
<1>12. CASE ~(Job.op = "write" /\ Job.len # 0)
  <2>1. DevIdle'
    BY <1>10, <1>12
  <2>2. Job.op = "write" => all = 0
    BY <1>12, BlockIsEven DEF DataLength
  <2>3. ~Target!req_wr'
    BY <1>8, <1>9, <2>2 DEF Target!req_wr, Target!cmd_write
  <2>4. Written'
    <3>1. Job'.op = "write" => Job'.len = 0
      BY <1>12
    <3>2. BLOCK \in Nat
      BY BlockIsEven
    <3>3. Job'.op = "write" => 0..(Job'.len * BLOCK - 1) = {}
      BY <3>1, <3>2
    <3>4. QED BY <3>3 DEF Written
  <2>5. ~Late'
    BY <1>4 DEF Late, Settled
  <2>6. QED BY <1>2, <1>4, <1>7, <1>8, <1>14, <2>1, <2>3, <2>4, <2>5 DEF Statusing
<1>13. QED BY <1>11, <1>12

\* The job after this one.
LEMMA NextJobIsSound ==
    ASSUME DrvInv, DrvSat, drv.jobs # <<>>, drv' = NextJob
    PROVE  /\ DrvSat' /\ drv'.pc = "job"
           /\ Job.kind = "sat" /\ ~Ample(Job) /\ drv'.jobs # <<>> => Job'.kind = "reset"
<1>1. drv'.pc = "job" /\ drv'.jobs = Tail(drv.jobs) /\ drv'.seg = 1
  BY DEF NextJob, DrvInv, DrvOk
<1>2. drv.jobs \in Seq(Jobs) /\ drv.jobs # <<>> /\ SoundJobs(drv.jobs)
  BY DEF DrvInv, DrvOk, DrvSat
<1>3. Job.kind = "sat" /\ ~Ample(Job) /\ drv'.jobs # <<>> => Job'.kind = "reset"
  <2>1. SUFFICES ASSUME Job.kind = "sat", ~Ample(Job), Tail(drv.jobs) # <<>> PROVE drv.jobs[2].kind = "reset"
    <3>1. Tail(drv.jobs) # <<>> => Head(Tail(drv.jobs)) = drv.jobs[2]
      BY <1>2
    <3>2. QED BY <1>1, <3>1 DEF Job
  <2>2. 1 < Len(drv.jobs) /\ 1 \in 1..Len(drv.jobs) /\ drv.jobs[1] = Job
    BY <1>2, <2>1 DEF Job
  <2>3. QED BY <1>2, <2>1, <2>2 DEF SoundJobs
<1>4. SoundJobs(Tail(drv.jobs))
  <2> DEFINE t == Tail(drv.jobs)
  <2>1. Len(t) = Len(drv.jobs) - 1 /\ Len(drv.jobs) \in Nat /\ \A i \in 1..Len(t) : t[i] = drv.jobs[i + 1]
    BY <1>2
  <2> HIDE DEF t
  <2>2. ASSUME NEW i \in 1..Len(t)
        PROVE  /\ Sound(t[i])
               /\ t[i].kind = "sat" /\ ~Ample(t[i]) /\ i < Len(t) => t[i + 1].kind = "reset"
    <3>1. i + 1 \in 1..Len(drv.jobs) /\ t[i] = drv.jobs[i + 1]
      BY <2>1
    <3>2. i < Len(t) => i + 1 < Len(drv.jobs) /\ t[i + 1] = drv.jobs[(i + 1) + 1]
      BY <2>1
    <3>3. QED BY <1>2, <3>1, <3>2 DEF SoundJobs
  <2>3. SoundJobs(t)
    BY <2>2 DEF SoundJobs
  <2>4. QED BY <2>3 DEF t
<1>5. QED BY <1>1, <1>3, <1>4 DEF DrvSat

\* A target that has stopped in the data phase stays there until a reset.
LEMMA StillStands ==
    ASSUME Common, NEW d, NEW c, NEW step, Tick(d, c, step), Still, ~wd.ack
    PROVE  /\ Settled' /\ DevIdle' /\ BytesInPlace'
           /\ wd.rst_timer = 0 => Still'
           /\ wd.rst_timer # 0 => tg'.phase = "IDLE"
<1>1. /\ tg.phase \in DataStages /\ TargetRests /\ Settled /\ ~Target!data_done /\ ~tg.rd_busy
  BY DEF Still
<1>2. DevIdle' /\ image' = image
  <2>1. DevIdle
    BY <1>1 DEF TargetRests, DevIdle, io_ack
  <2>2. QED BY <1>1, <2>1, DeviceStands DEF Common, TargetRests
<1>3. BytesInPlace'
  BY <1>2 DEF Common, BytesInPlace
<1>4. Settled'
  BY <1>1, TargetMoves DEF TgShake, Settled
<1>5. ASSUME wd.rst_timer = 0 PROVE Still'
  <2>1. /\ tg'.cmd = tg.cmd /\ tg'.tlen = tg.tlen /\ tg'.phase = tg.phase
        /\ tg'.data_cnt = tg.data_cnt /\ tg'.data_complete = tg.data_complete
    <3>1. tg.phase \in Target!Transferring /\ ~Target!Accepts
      BY <1>1 DEF DataStages, Target!Transferring, Target!Accepts
    <3>2. QED BY <1>1, <1>5, <3>1, TargetMoves DEF TgCommand, TgPhase, TgCount, DataStages, Settled
  <2>2. ~Target!data_done'
    <3>1. Target!data_len' = Target!data_len
      BY <2>1 DEF Target!data_len, Target!Op
    <3>2. QED BY <1>1, <2>1, <3>1 DEF Target!data_done
  <2>3. Target!req_rd' <=> Target!req_rd
    <3>1. tg'.rd_hps_blk = tg.rd_hps_blk
      <4>1. ~Falls /\ tg.phase \in Target!Transferring
        BY <1>1 DEF Falls, TargetRests, DataStages, Target!Transferring
      <4>2. QED BY <4>1, TargetMoves DEF TgBlocks
    <3>2. QED BY <2>1, <3>1 DEF Target!req_rd, Target!cmd_read, Target!Op, Target!data_len, Target!rd_cur_blk
  <2>4. Target!req_wr' => tg'.old_wr
    <3>1. Target!req_wr' <=> Target!req_wr
      BY <2>1 DEF Target!req_wr, Target!cmd_write, Target!Op, Target!data_len
    <3>2. QED BY <1>5, <3>1, TargetMoves DEF TgBlocks
  <2>5. TargetRests'
    BY <1>1, <1>2, <1>4, <2>3, <2>4 DEF TargetRests, DevIdle, io_ack, Settled
  <2>6. QED BY <1>1, <1>2, <1>4, <2>1, <2>2, <2>5 DEF Still, DevIdle
<1>6. wd.rst_timer # 0 => tg'.phase = "IDLE"
  BY TargetMoves DEF TgPhase
<1>7. QED BY <1>2, <1>3, <1>4, <1>5, <1>6

\* The channel has no more room, and the driver gives the job up.
LEMMA DataSticks ==
    ASSUME Common, DrvInv, NEW d, NEW c, NEW step, Tick(d, c, step), Data, PAUSE >= 2,
           Stopped, drv.pc = "result", drv' = NextJob
    PROVE  Common' /\ Stuck'
<1>1. /\ Given /\ Counts /\ wd.state = "ST_SAT_DMA" /\ wd.rst_timer = 0
      /\ chan.moved = chan.room /\ ~chan.ack /\ TargetRests /\ ~wd.ack
  BY DEF Stopped, Common, ChipSat, Data, Running, Counts
<1>2. Still
  <2>1. ~tg.io_rd /\ ~tg.old_io_ack /\ ~io_ack /\ Settled
    BY <1>1 DEF TargetRests, Settled, Common, Pipe
  <2>2. ~tg.rd_busy
    BY <2>1 DEF Data, Side, Sends, Writes, Receives, DevIdle
  <2>3. QED BY <1>1, <2>1, <2>2 DEF Still, Counts
<1>3. Still' /\ BytesInPlace'
  BY <1>1, <1>2, StillStands
<1>4. ChipSat' /\ Pipe' /\ ChanSat' /\ Shapes' /\ Turn /\ wd'.rst_timer = 0
  BY DataCounts
<1>5. wd'.state = "ST_SAT_DMA"
  BY <1>1, <1>4 DEF Turn, Awaits, Gives, Begins, Takes, Moves, Raises, Drops
<1>6. chan'.ack = FALSE /\ chan'.moved = chan.moved /\ chan'.room = chan.room
  <2>1. ~c /\ c \in BOOLEAN /\ chan.moved \in Nat
    BY <1>1, JobWaits DEF Data, Tick, Common, ChanSat
  <2>2. QED BY <1>1, <2>1, JobWaits DEF Data, Bit
<1>7. ~Ample(Job)
  <2>1. SUFFICES ASSUME Ample(Job) PROVE FALSE
    OBVIOUS
  <2>2. chan.moved = Sent /\ Sent \in Nat
    BY <1>1, <2>1, SentBound DEF Given, Common
  <2>3. /\ wd.count + tg.data_cnt + Bit(Late) = Sent
        /\ chan.moved = tg.data_cnt + Bit(Late) + Bit(chan.ack \/ wd.state \in {"ST_SAT_ACK", "ST_SAT_REL"})
        /\ wd.count # 0 /\ tg.data_cnt \in Nat
    BY <1>1 DEF Counts, Moving, Following
  <2>4. wd.count \in Nat
    BY DEF Common, ChipSat
  <2>5. QED BY <1>1, <2>2, <2>3, <2>4 DEF Bit
<1>8. DrvSat' /\ drv'.pc = "job" /\ (drv'.jobs # <<>> => Job'.kind = "reset")
  <2>1. drv.jobs # <<>> /\ Job.kind = "sat"
    BY <1>1 DEF Given
  <2>2. QED BY <1>7, <2>1, NextJobIsSound DEF Common
<1>9. Stuck'
  BY <1>1, <1>3, <1>4, <1>5, <1>6, <1>8 DEF Stuck
<1>10. QED BY <1>3, <1>4, <1>8, <1>9 DEF Common

LEMMA DataStep ==
    ASSUME Common, DrvInv, NEW d, NEW c, NEW step, Tick(d, c, step), Data, PAUSE >= 2
    PROVE  Common' /\ (Data \/ Paused \/ Statusing \/ Stuck)'
<1>1. Running /\ wd.state # "ST_IDLE"
  BY DEF Data, Moving, Following
<1>2. /\ drv' = drv \/ drv' = At("result") \/ (Stopped /\ drv.pc = "result" /\ drv' = NextJob)
      /\ chan'.op = chan.op /\ chan'.room = chan.room
  BY <1>1, JobWaits
<1>3. CASE drv' = drv \/ drv' = At("result")
  <2>1. ChipSat' /\ Pipe' /\ ChanSat' /\ Shapes' /\ KeepsJob
    BY DataCounts
  <2>2. Running' /\ Job' = Job /\ Sent' = Sent /\ DrvSat'
    BY <1>1, <1>2, <1>3, <2>1, JobRuns DEF Common
  <2>3. BytesInPlace'
    BY SideStep
  <2>4. (Data \/ Paused \/ Statusing)'
    BY <2>2, DataGoesOn, DataEnds
  <2>5. QED BY <2>1, <2>2, <2>3, <2>4 DEF Common
<1>4. QED BY <1>2, <1>3, DataSticks

\* The last block of a write is still on its way.
LEMMA StatusingWaits ==
    ASSUME Common, DrvInv, NEW d, NEW c, NEW step, Tick(d, c, step), Statusing,
           Job.op = "write", Job.len # 0, tg.old_wr, tg.data_cnt = Job.len * BLOCK, Writes,
           wd.state = "ST_SAT_PHASE", Settled, ~tg.status_sent
    PROVE  Common' /\ Statusing'
<1>1. /\ Running /\ Given /\ Accepted /\ Ending /\ tg.phase = "STATUS_OUT" /\ wd.rst_timer = 0
      /\ wd.cmd_phase < 80 /\ (~wd.dma_in_data => EopDone)
  BY DEF Statusing, Ending, Running
<1>2. /\ wd.state \in Following /\ ~wd.ack /\ ~tg.stb_ack /\ ~tg.stb_adv /\ ~Late /\ ~Stopped
      /\ c \in BOOLEAN /\ chan.moved \in Nat /\ wd.cmd_phase \in Nat
  BY DEF Following, Common, ChipSat, ChanSat, Settled, Late, Stopped, Tick
<1>3. /\ Alone(Seen(step)) /\ Shapes' /\ (drv' = drv \/ drv' = At("result"))
      /\ chan'.ack = c /\ chan'.moved = chan.moved + Bit(c)
      /\ chan'.op = chan.op /\ chan'.room = chan.room
      /\ chan'.ended = (chan.ended \/ wd.dma_eop)
      /\ ~c
  BY <1>1, <1>2, JobWaits
<1>4. chan'.ack = FALSE /\ chan'.moved = chan.moved
  BY <1>2, <1>3 DEF Bit
<1>5. /\ ChipSat' /\ KeepsJob /\ wd'.pause_cnt = 0 /\ wd'.state \in Following
      /\ wd'.cmd_phase \in {wd.cmd_phase, 71}
      /\ wd'.state # "ST_SAT_REL"
      /\ wd'.state = "ST_SAT_ACK" => ~Target!Flushing(io_ack) /\ ~wd.dma_in_data /\ wd'.target_lun[1] = "status"
      /\ ~wd'.dma_in_data => ~wd.dma_in_data \/ wd'.dma_eop
      /\ wd'.dma_in_data => wd.dma_in_data
  <2>1. ~tg.io_rd
    BY DEF Writes
  <2>2. QED BY <1>1, <1>2, <1>3, <2>1, StatusBytes DEF Common
<1>6. Running' /\ Job' = Job /\ Sent' = Sent /\ DrvSat'
  BY <1>1, <1>3, <1>5, JobRuns DEF Common
<1>7. Pipe' /\ Settled'
  BY <1>2, <1>5, PipeStep, TargetMoves DEF Common
<1>8. ChanSat'
  BY <1>3, <1>4 DEF ChanSat, Common
<1>9. /\ tg'.cmd = tg.cmd /\ tg'.tlen = tg.tlen /\ tg'.status = tg.status
      /\ tg'.phase = "STATUS_OUT" /\ ~tg'.status_sent /\ tg'.data_cnt = tg.data_cnt
  <2>1. tg.phase \in Target!Transferring
    BY <1>1 DEF Target!Transferring
  <2>2. QED BY <1>1, <1>2, <2>1, TargetMoves DEF TgCommand, TgPhase, TgCount, Target!Accepts
<1>10. Sound(Job) /\ Job.len \in Nat /\ Job.len <= 4 /\ BLOCK \in Nat \ {0} /\ Job.kind = "sat"
  <2>1. Sound(Job) /\ Job.len \in Nat /\ Job.kind = "sat"
    BY <1>1, SentBound DEF Common
  <2>2. QED BY <2>1, BlockIsEven DEF Sound
<1>11. Job.len * BLOCK \in Nat /\ Job.len * BLOCK # 0 /\ Job.len * BLOCK <= 4 * BLOCK
  BY <1>10
<1>12. /\ Target!Op = Job.op /\ Target!cmd_write /\ tg.tlen = Job.len /\ Target!data_len # 0
       /\ Target!req_wr /\ Target!req_wr'
  <2>1. Target!Op = Job.op /\ Target!cmd_write /\ tg.tlen = Job.len
    BY <1>1 DEF Accepted, Target!cmd_write
  <2>2. Target!data_len # 0
    BY <1>11, <2>1 DEF Target!data_len
  <2>3. Target!req_wr
    BY <1>1, <2>1, <2>2 DEF Target!req_wr
  <2>4. Target!req_wr'
    BY <1>9, <2>1, <2>2 DEF Target!req_wr, Target!cmd_write, Target!Op, Target!data_len
  <2>5. QED BY <2>1, <2>2, <2>3, <2>4
<1>13. tg'.old_wr /\ ~Edge'
  BY <1>1, <1>12, TargetMoves DEF TgBlocks, Edge
<1>14. Sending
  <2>1. tg'.data_cnt = tg.data_cnt + Bit(tg.stb_adv) /\ tg'.data_cnt <= 4 * BLOCK
    BY <1>2, <1>9, <1>11 DEF Bit
  <2>2. QED BY <1>1, <1>2, <1>12, <1>13, <2>1 DEF Sending
<1>15. Writes' /\ BytesInPlace'
  BY <1>14, WritesStep
<1>16. Common'
  BY <1>3, <1>5, <1>6, <1>7, <1>8, <1>15 DEF Common
<1>17. Accepted' /\ Ending' /\ (~wd'.dma_in_data => EopDone') /\ wd'.rst_timer = 0 /\ wd'.cmd_phase < 80
  <2>1. DataLength(Job)' = DataLength(Job) /\ Target!Op' = Target!Op
    BY <1>6, <1>9 DEF DataLength, Target!Op
  <2>2. Ending'
    BY <1>1, <1>3, <1>4, <1>6, <2>1 DEF Ending
  <2>3. Accepted'
    BY <1>1, <1>6, <1>9, <2>1 DEF Accepted
  <2>4. ~wd'.dma_in_data => EopDone'
    BY <1>1, <1>3, <1>4, <1>5 DEF EopDone
  <2>5. QED BY <1>1, <1>2, <1>5, <2>2, <2>3, <2>4 DEF KeepsJob, Chip!Down
<1>18. CASE wd'.state = "ST_SAT_PHASE"
  <2>1. ~Late'
    BY <1>7 DEF Late, Settled
  <2>2. QED BY <1>5, <1>6, <1>7, <1>9, <1>13, <1>15, <1>16, <1>17, <1>18, <2>1 DEF Statusing
<1>19. CASE wd'.state = "ST_SAT_ACK"
  <2>1. ~tg.io_wr /\ ~tg.wr_pending /\ ~io_ack /\ ~wd.dma_in_data /\ wd'.target_lun[1] = "status"
    BY <1>5, <1>19 DEF Target!Flushing
  <2>2. dev'.does = "idle"
    <3>1. dev.does = "idle" /\ ~tg.io_rd
      BY <2>1 DEF io_ack, Writes
    <3>2. ~d
      BY <2>1, <3>1 DEF Tick, DevCanMove
    <3>3. QED BY <3>1, <3>2 DEF Tick, ClockWith, DevClock
  <2>3. ~tg'.io_wr /\ ~tg'.wr_pending /\ ~tg'.old_io_ack
    BY <1>12, <2>1, TargetMoves DEF TgBlocks, AsksWr
  <2>4. DevIdle'
    BY <1>15, <2>2, <2>3 DEF DevIdle, Writes
  <2>5. ~Flying'
    BY <2>2, <2>3 DEF Flying, io_ack
  <2>6. Written'
    <3>1. tg'.data_cnt \div BLOCK = tg'.lba /\ tg'.lba \in Nat
      BY <1>13, <1>15, <2>3, <2>5 DEF Writes, Bit
    <3>2. tg'.data_cnt \div BLOCK = Job.len
      <4>1. 0 \in Nat /\ 0 < BLOCK
        BY <1>10
      <4>2. (BLOCK * Job.len + 0) \div BLOCK = Job.len
        BY <1>10, <4>1, Quotient
      <4>3. BLOCK * Job.len + 0 = Job.len * BLOCK
        BY <1>10
      <4>4. QED BY <1>9, <4>2, <4>3
    <3>3. Stored' = Job.len * BLOCK
      <4>1. tg'.lba * BLOCK = Job.len * BLOCK
        BY <3>1, <3>2
      <4>2. Stored' = tg'.lba * BLOCK + 0
        BY <2>2, <2>3 DEF Stored
      <4> DEFINE x == Job.len * BLOCK
      <4>3. x \in Nat /\ Stored' = x + 0
        BY <1>11, <4>1, <4>2
      <4> HIDE DEF x
      <4>4. Stored' = x
        BY <4>3
      <4>5. QED BY <4>4 DEF x
    <3>4. \A p \in 0..(Stored' - 1) : image'[p] = <<"mem", p + 1>>
      BY <1>15 DEF Writes
    <3>5. QED BY <1>6, <3>3, <3>4 DEF Written
  <2>7. Done'
    BY <1>5, <1>17, <2>1, <2>6 DEF Done
  <2>8. QED BY <1>5, <1>9, <1>13, <1>16, <1>17, <2>4, <2>6, <2>7 DEF Statusing
<1>20. QED BY <1>5, <1>18, <1>19 DEF Following

LEMMA StatusingStep ==
    ASSUME Common, DrvInv, NEW d, NEW c, NEW step, Tick(d, c, step), Statusing
    PROVE  Common' /\ (Statusing \/ Messaging)'
<1>1. CASE DevIdle /\ Written /\ (Target!req_wr => tg.old_wr)
  BY <1>1, StatusingRuns
<1>2. CASE /\ Job.op = "write" /\ Job.len # 0 /\ tg.old_wr
           /\ tg.data_cnt = Job.len * BLOCK /\ Writes
           /\ wd.state = "ST_SAT_PHASE" /\ Settled /\ ~tg.status_sent
  BY <1>2, StatusingWaits
<1>3. QED BY <1>1, <1>2 DEF Statusing

-----------------------------------------------------------------------------
(* The WD33C93B at rest, and what the driver asks of it.                   *)

\* What the clock assigns beside the defaults.
LEMMA Assigning ==
    ASSUME ChipSat, NEW in, NEW a, Chip!Clock(in), DOMAIN Chip!Sequencer(in) = {},
           \/ ~in.chip_reset /\ a = Chip!Access(in)
           \/ in.chip_reset /\ in.access.kind = "none" /\ a = Chip!ChipReset
    PROVE  Assigned(a)
<1> DEFINE u == Chip!Sequencer(in)
           b == Chip!Access(in)
           rst == Chip!When(in.chip_reset, Chip!ChipReset)
           free == Chip!When(~in.bsy, [pio_done |-> FALSE])
           ahead == Chip!When(wd.state \notin Chip!LoopStates, [din_ahead |-> <<>>])
           always == [bsy_q |-> in.bsy, dma_eop |-> FALSE, rst_timer |-> Chip!Down(wd.rst_timer)]
           d == Chip!Defaults(in)
<1>1. wd' = Chip!@@(Chip!@@(Chip!@@(Chip!@@(u, b), rst), d), wd)
  BY DEF Chip!Clock
<1>2. \/ b = a /\ DOMAIN rst = {}
      \/ rst = a /\ DOMAIN b = {}
  BY NothingIsSilent DEF Chip!Access, Chip!When
<1>3. /\ DOMAIN free \subseteq {"pio_done"} /\ ("pio_done" \in DOMAIN free => free.pio_done = FALSE)
      /\ DOMAIN ahead \subseteq {"din_ahead"}
  BY DEF Chip!When, Chip!Nothing
<1>4. /\ DOMAIN always = {"bsy_q", "dma_eop", "rst_timer"}
      /\ always.dma_eop = FALSE /\ always.rst_timer = Chip!Down(wd.rst_timer)
  OBVIOUS
<1>5. d = Chip!@@(Chip!@@(always, free), ahead)
  BY DEF Chip!Defaults
<1>6. DOMAIN u = {}
  OBVIOUS
<1> HIDE DEF always, free, ahead, rst, u, b
<1>7. /\ DOMAIN d \subseteq {"bsy_q", "dma_eop", "rst_timer", "pio_done", "din_ahead"}
      /\ {"dma_eop", "rst_timer"} \subseteq DOMAIN d
      /\ d.dma_eop = FALSE /\ d.rst_timer = Chip!Down(wd.rst_timer)
      /\ "pio_done" \in DOMAIN d => d.pio_done = FALSE
  BY <1>3, <1>4, <1>5 DEF Chip!@@
<1> HIDE DEF d
<1>8. Regs \subseteq DOMAIN wd /\ wd.pio_done = FALSE
  BY DEF ChipSat
<1>9. \A f \in Regs \ Special : f \notin DOMAIN d
  BY <1>7 DEF Regs, Special
<1>10. \A f : /\ f \in DOMAIN wd' <=> f \in DOMAIN a \/ f \in DOMAIN d \/ f \in DOMAIN wd
              /\ f \in DOMAIN a => wd'[f] = a[f]
              /\ f \notin DOMAIN a /\ f \in DOMAIN d => wd'[f] = d[f]
              /\ f \notin DOMAIN a /\ f \notin DOMAIN d /\ f \in DOMAIN wd => wd'[f] = wd[f]
  <2>1. CASE b = a /\ DOMAIN rst = {}
    BY <1>1, <1>6, <2>1 DEF Chip!@@
  <2>2. CASE rst = a /\ DOMAIN b = {}
    BY <1>1, <1>6, <2>2 DEF Chip!@@
  <2>3. QED BY <1>2, <2>1, <2>2
<1>11. Regs \subseteq DOMAIN wd' /\ \A f \in Regs \ Special : wd'[f] = IF f \in DOMAIN a THEN a[f] ELSE wd[f]
  BY <1>8, <1>9, <1>10
<1>12. /\ "rst_timer" \notin DOMAIN a => wd'.rst_timer = Chip!Down(wd.rst_timer)
       /\ wd'.dma_eop = IF "dma_eop" \in DOMAIN a THEN a.dma_eop ELSE FALSE
  BY <1>7, <1>10
<1>13. "pio_done" \notin DOMAIN a => wd'.pio_done = FALSE
  <2>1. "pio_done" \in DOMAIN wd
    BY <1>8 DEF Regs
  <2>2. QED BY <1>7, <1>8, <1>10, <2>1
<1>14. /\ "rst_timer" \in DOMAIN a => wd'.rst_timer = a.rst_timer
       /\ "pio_done" \in DOMAIN a => wd'.pio_done = a.pio_done
  BY <1>10
<1>15. QED BY <1>11, <1>12, <1>13, <1>14, ByName

LEMMA SequencerIdle ==
    ASSUME NEW in, wd.state = "ST_IDLE" \/ (wd.state = "ST_SAT_DMA" /\ ~in.dma_ack)
    PROVE  DOMAIN Chip!Sequencer(in) = {}
<1>1. CASE wd.state = "ST_IDLE"
  BY <1>1, NothingIsSilent DEF Chip!Sequencer, Chip!PolledStates
<1>2. CASE wd.state = "ST_SAT_DMA" /\ ~in.dma_ack
  <2>1. Chip!Sequencer(in) = Chip!Transfer(in)
    BY <1>2, Transferred DEF SatStates, Moving
  <2>2. QED BY <1>2, <2>1, NothingIsSilent DEF Chip!Transfer, Chip!When
<1>3. QED BY <1>1, <1>2

\* A clock at rest, without a reset: what the access does not name stays.
LEMMA RestAssigns ==
    ASSUME ChipSat, NEW in, Chip!Clock(in), wd.state = "ST_IDLE", ~in.chip_reset
    PROVE  Assigned(Chip!Access(in))
  BY SequencerIdle, Assigning

LEMMA RestWaits ==
    ASSUME ChipSat, NEW in, Chip!Clock(in), wd.state = "ST_IDLE", ~in.chip_reset, in.access.kind = "none"
    PROVE  /\ ChipSat' /\ KeepsJob /\ KeepsCommand /\ KeepsData /\ KeepsEnd /\ KeepsLatch /\ KeepsResult
           /\ wd'.state = "ST_IDLE"
  BY SequencerIdle, Stands DEF Alone

LEMMA RestReads ==
    ASSUME ChipSat, NEW in, Chip!Clock(in), wd.state = "ST_IDLE", ~in.chip_reset, in.access = ReadStatus
    PROVE  /\ ChipSat' /\ KeepsCommand /\ KeepsData /\ KeepsEnd
           /\ wd'.cdb = wd.cdb /\ wd'.cdb_len = wd.cdb_len /\ wd'.use_dma = wd.use_dma
           /\ wd'.rst_timer = Chip!Down(wd.rst_timer)
           /\ wd'.state = "ST_IDLE" /\ wd'.paused = wd.paused /\ wd'.int_pending = FALSE
<1> DEFINE a == Chip!Access(in)
<1>1. a = [int_pending |-> FALSE, lci |-> FALSE]
  BY DEF Chip!Access, ReadStatus
<1>2. Assigned(a)
  BY RestAssigns
<1>3. DOMAIN a = {"int_pending", "lci"} /\ a.int_pending = FALSE
  BY <1>1
<1> HIDE DEF a
<1>4. /\ KeepsCommand /\ KeepsData /\ KeepsEnd
      /\ wd'.cdb = wd.cdb /\ wd'.cdb_len = wd.cdb_len /\ wd'.use_dma = wd.use_dma
      /\ wd'.rst_timer = Chip!Down(wd.rst_timer)
      /\ wd'.state = "ST_IDLE" /\ wd'.paused = wd.paused /\ wd'.int_pending = FALSE
  BY <1>2, <1>3 DEF Assigned, KeepsCommand, KeepsData, KeepsEnd
<1>5. /\ wd'.ack = wd.ack /\ wd'.dma_req = wd.dma_req /\ wd'.sel = wd.sel /\ wd'.cip = wd.cip
      /\ wd'.pause_cnt = wd.pause_cnt /\ wd'.pio_xfer = wd.pio_xfer
      /\ wd'.count = wd.count /\ wd'.cmd_phase = wd.cmd_phase
  BY <1>2, <1>3 DEF Assigned
<1>6. ChipSat'
  BY <1>2, <1>3, <1>4, <1>5, Reshaped DEF ChipSat
<1>7. QED BY <1>4, <1>6

\* A load of the counter.
LEMMA RestCounts ==
    ASSUME ChipSat, NEW in, NEW n \in Nat, Chip!Clock(in), wd.state = "ST_IDLE", ~in.chip_reset,
           in.access = Load([count |-> n])
    PROVE  /\ ChipSat' /\ KeepsJob /\ KeepsCommand /\ KeepsEnd /\ KeepsResult
           /\ wd'.dma_in_data = wd.dma_in_data /\ wd'.dma_dir_in = wd.dma_dir_in
           /\ wd'.state = "ST_IDLE" /\ wd'.count = n
<1> DEFINE a == Chip!Access(in)
<1>1. a = [count |-> n]
  BY DEF Chip!Access, Load
<1>2. Assigned(a)
  BY RestAssigns
<1>3. DOMAIN a = {"count"} /\ a.count = n
  BY <1>1
<1> HIDE DEF a
<1>4. /\ KeepsJob /\ KeepsCommand /\ KeepsEnd /\ KeepsResult
      /\ wd'.dma_in_data = wd.dma_in_data /\ wd'.dma_dir_in = wd.dma_dir_in
      /\ wd'.state = "ST_IDLE" /\ wd'.count = n
  BY <1>2, <1>3 DEF Assigned, KeepsJob, KeepsCommand, KeepsEnd, KeepsResult
<1>5. /\ wd'.ack = wd.ack /\ wd'.dma_req = wd.dma_req /\ wd'.sel = wd.sel /\ wd'.cip = wd.cip
      /\ wd'.pause_cnt = wd.pause_cnt /\ wd'.int_pending = wd.int_pending /\ wd'.paused = wd.paused
      /\ wd'.cmd_phase = wd.cmd_phase
  BY <1>2, <1>3 DEF Assigned
<1>6. ChipSat'
  BY <1>2, <1>3, <1>4, <1>5, Reshaped DEF ChipSat
<1>7. QED BY <1>4, <1>6

\* A load of the job's registers.
LEMMA RestLoads ==
    ASSUME ChipSat, NEW in, Chip!Clock(in), wd.state = "ST_IDLE", ~in.chip_reset,
           in.access = Load(JobRegisters), Job.count[1] \in Nat
    PROVE  /\ ChipSat' /\ KeepsResult
           /\ wd'.cdb = <<<<"op", Job.op>>, <<"len", Job.len>>>> /\ wd'.cdb_len = 2 /\ wd'.use_dma
           /\ wd'.state = "ST_IDLE" /\ wd'.count = Job.count[1]
<1> DEFINE a == Chip!Access(in)
<1>1. a = JobRegisters
  BY DEF Chip!Access, Load
<1>2. Assigned(a)
  BY RestAssigns
<1>3. /\ DOMAIN a = {"cdb", "cdb_len", "dest", "count", "use_dma", "target_lun", "cmd_phase"}
      /\ a.cdb = <<<<"op", Job.op>>, <<"len", Job.len>>>> /\ a.cdb_len = 2 /\ a.use_dma = TRUE
      /\ a.count = Job.count[1] /\ a.cmd_phase = 0
  BY <1>1 DEF JobRegisters
<1> HIDE DEF a
<1>4. /\ KeepsResult
      /\ wd'.cdb = <<<<"op", Job.op>>, <<"len", Job.len>>>> /\ wd'.cdb_len = 2 /\ wd'.use_dma
      /\ wd'.state = "ST_IDLE" /\ wd'.count = Job.count[1] /\ wd'.cmd_phase = 0
  BY <1>2, <1>3 DEF Assigned, KeepsResult
<1>5. /\ wd'.ack = wd.ack /\ wd'.dma_req = wd.dma_req /\ wd'.sel = wd.sel /\ wd'.cip = wd.cip
      /\ wd'.pause_cnt = wd.pause_cnt /\ wd'.int_pending = wd.int_pending /\ wd'.paused = wd.paused
  BY <1>2, <1>3 DEF Assigned
<1>6. ChipSat'
  BY <1>2, <1>3, <1>4, <1>5, Reshaped DEF ChipSat
<1>7. QED BY <1>4, <1>6

\* A command: refused beside a result, or taken.
CommandIs(in, command) == in.access.kind = "command" /\ in.access.value = command

LEMMA RestRefuses ==
    ASSUME ChipSat, NEW in, Chip!Clock(in), wd.state = "ST_IDLE", ~in.chip_reset,
           CommandIs(in, "C_SEL_ATN_XFER") \/ CommandIs(in, "C_DISCONNECT"), wd.int_pending
    PROVE  /\ ChipSat' /\ KeepsCommand /\ KeepsData /\ KeepsEnd /\ KeepsResult
           /\ wd'.cdb = wd.cdb /\ wd'.cdb_len = wd.cdb_len /\ wd'.use_dma = wd.use_dma
           /\ wd'.rst_timer = Chip!Down(wd.rst_timer)
           /\ wd'.state = "ST_IDLE" /\ wd'.lci
<1> DEFINE a == Chip!Access(in)
<1>1. a = [lci |-> TRUE]
  BY DEF Chip!Access, CommandIs, Chip!Command, Chip!Refuses
<1>2. Assigned(a)
  BY RestAssigns
<1>3. DOMAIN a = {"lci"} /\ a.lci = TRUE
  BY <1>1
<1> HIDE DEF a
<1>4. /\ KeepsCommand /\ KeepsData /\ KeepsEnd /\ KeepsResult
      /\ wd'.cdb = wd.cdb /\ wd'.cdb_len = wd.cdb_len /\ wd'.use_dma = wd.use_dma
      /\ wd'.rst_timer = Chip!Down(wd.rst_timer)
      /\ wd'.state = "ST_IDLE" /\ wd'.lci
  BY <1>2, <1>3 DEF Assigned, KeepsCommand, KeepsData, KeepsEnd, KeepsResult
<1>5. /\ wd'.ack = wd.ack /\ wd'.dma_req = wd.dma_req /\ wd'.sel = wd.sel /\ wd'.cip = wd.cip
      /\ wd'.pause_cnt = wd.pause_cnt /\ wd'.int_pending = wd.int_pending /\ wd'.paused = wd.paused
      /\ wd'.count = wd.count /\ wd'.cmd_phase = wd.cmd_phase
  BY <1>2, <1>3 DEF Assigned
<1>6. ChipSat'
  BY <1>2, <1>3, <1>4, <1>5, Reshaped DEF ChipSat
<1>7. QED BY <1>4, <1>6

\* A transfer that paused goes on.
LEMMA RestResumes ==
    ASSUME ChipSat, NEW in, Chip!Clock(in), wd.state = "ST_IDLE", ~in.chip_reset,
           CommandIs(in, "C_SEL_ATN_XFER"), ~wd.int_pending, wd.paused, in.bsy
    PROVE  /\ ChipSat' /\ KeepsData /\ KeepsEnd /\ KeepsLatch
           /\ wd'.cdb = wd.cdb /\ wd'.cdb_len = wd.cdb_len /\ wd'.use_dma = wd.use_dma
           /\ wd'.rst_timer = Chip!Down(wd.rst_timer) /\ ~wd'.lci
           /\ wd'.state = "ST_SAT_PHASE"
<1> DEFINE a == Chip!Access(in)
           r == [paused |-> FALSE, cip |-> TRUE, atn |-> FALSE, identify_sent |-> TRUE,
                 cdb_sent |-> TRUE, state |-> "ST_SAT_PHASE"]
<1>1. a = Chip!@@(Chip!@@(r, [lci |-> FALSE]), [pio_done |-> FALSE])
  <2>1. a = Chip!Command("C_SEL_ATN_XFER", in) /\ ~Chip!Refuses("C_SEL_ATN_XFER")
    BY DEF Chip!Access, CommandIs, Chip!Refuses, ChipSat
  <2>2. Chip!SelectAndTransfer(TRUE, in) = r
    BY DEF Chip!SelectAndTransfer, Chip!Resumes
  <2> HIDE DEF r
  <2>3. QED BY <2>1, <2>2 DEF Chip!Command, Chip!When
<1>2. Assigned(a)
  BY RestAssigns
<1>3. /\ DOMAIN a = {"paused", "cip", "atn", "identify_sent", "cdb_sent", "state", "lci", "pio_done"}
      /\ a.paused = FALSE /\ a.cip = TRUE /\ a.state = "ST_SAT_PHASE" /\ a.lci = FALSE /\ a.pio_done = FALSE
  BY <1>1 DEF Chip!@@
<1> HIDE DEF a
<1>4. /\ KeepsData /\ KeepsEnd /\ KeepsLatch
      /\ wd'.cdb = wd.cdb /\ wd'.cdb_len = wd.cdb_len /\ wd'.use_dma = wd.use_dma
      /\ wd'.rst_timer = Chip!Down(wd.rst_timer) /\ ~wd'.lci
      /\ wd'.state = "ST_SAT_PHASE"
  BY <1>2, <1>3 DEF Assigned, KeepsData, KeepsEnd, KeepsLatch
<1>5. /\ wd'.ack = wd.ack /\ wd'.dma_req = wd.dma_req /\ wd'.sel = wd.sel /\ wd'.cip = TRUE
      /\ wd'.pause_cnt = wd.pause_cnt /\ wd'.int_pending = wd.int_pending /\ wd'.paused = FALSE
      /\ wd'.count = wd.count /\ wd'.cmd_phase = wd.cmd_phase /\ wd'.pio_xfer = wd.pio_xfer
      /\ wd'.pio_done = FALSE /\ Regs \subseteq DOMAIN wd'
  BY <1>2, <1>3 DEF Assigned
<1>6. wd'.rst_timer \in Nat
  BY <1>4 DEF ChipSat, Chip!Down
<1>7. ChipSat'
  BY <1>4, <1>5, <1>6 DEF ChipSat, SatStates, Moving, Following
<1>8. QED BY <1>4, <1>7

\* A new one selects the target.
LEMMA RestSelects ==
    ASSUME ChipSat, NEW in, Chip!Clock(in), wd.state = "ST_IDLE", ~in.chip_reset,
           CommandIs(in, "C_SEL_ATN_XFER"), ~wd.int_pending, ~wd.paused, wd.cdb_len = 2
    PROVE  /\ ChipSat'
           /\ wd'.cdb = wd.cdb /\ wd'.cdb_len = wd.cdb_len /\ wd'.use_dma = wd.use_dma
           /\ wd'.rst_timer = Chip!Down(wd.rst_timer) /\ ~wd'.lci
           /\ wd'.count = wd.count /\ ~wd'.dma_in_data
           /\ wd'.atn /\ ~wd'.identify_sent /\ ~wd'.cdb_sent /\ wd'.cdb_idx = 0 /\ wd'.cmd_phase = 0
           /\ wd'.state = "ST_SAT_SEL"
<1> DEFINE a == Chip!Access(in)
           r == [atn |-> TRUE, cip |-> TRUE, sel_timer |-> 0, cdb_idx |-> 0,
                 dma_in_data |-> FALSE, identify_sent |-> FALSE, cdb_sent |-> FALSE,
                 paused |-> FALSE, cmd_phase |-> 0, state |-> "ST_SAT_SEL"]
<1>1. a = Chip!@@(Chip!@@(r, [lci |-> FALSE]), [pio_done |-> FALSE])
  <2>1. a = Chip!Command("C_SEL_ATN_XFER", in) /\ ~Chip!Refuses("C_SEL_ATN_XFER")
    BY DEF Chip!Access, CommandIs, Chip!Refuses, ChipSat
  <2>2. Chip!SelectAndTransfer(TRUE, in) = r
    BY DEF Chip!SelectAndTransfer, Chip!Resumes, Chip!CP_DISCONNECTED
  <2> HIDE DEF r
  <2>3. QED BY <2>1, <2>2 DEF Chip!Command, Chip!When
<1>2. Assigned(a)
  BY RestAssigns
<1>3. /\ DOMAIN a = {"atn", "cip", "sel_timer", "cdb_idx", "dma_in_data", "identify_sent", "cdb_sent",
                     "paused", "cmd_phase", "state", "lci", "pio_done"}
      /\ a.atn = TRUE /\ a.cip = TRUE /\ a.cdb_idx = 0 /\ a.dma_in_data = FALSE /\ a.identify_sent = FALSE
      /\ a.cdb_sent = FALSE /\ a.paused = FALSE /\ a.cmd_phase = 0 /\ a.state = "ST_SAT_SEL"
      /\ a.lci = FALSE /\ a.pio_done = FALSE
  BY <1>1 DEF Chip!@@
<1> HIDE DEF a
<1>4. /\ wd'.cdb = wd.cdb /\ wd'.cdb_len = wd.cdb_len /\ wd'.use_dma = wd.use_dma
      /\ wd'.rst_timer = Chip!Down(wd.rst_timer) /\ ~wd'.lci
      /\ wd'.count = wd.count /\ ~wd'.dma_in_data
      /\ wd'.atn /\ ~wd'.identify_sent /\ ~wd'.cdb_sent /\ wd'.cdb_idx = 0 /\ wd'.cmd_phase = 0
      /\ wd'.state = "ST_SAT_SEL"
  BY <1>2, <1>3 DEF Assigned
<1>5. /\ wd'.ack = wd.ack /\ wd'.dma_req = wd.dma_req /\ wd'.sel = wd.sel /\ wd'.cip = TRUE
      /\ wd'.pause_cnt = wd.pause_cnt /\ wd'.int_pending = wd.int_pending /\ wd'.paused = FALSE
      /\ wd'.pio_xfer = wd.pio_xfer /\ wd'.pio_done = FALSE /\ Regs \subseteq DOMAIN wd'
  BY <1>2, <1>3 DEF Assigned
<1>6. wd'.rst_timer \in Nat
  BY <1>4 DEF ChipSat, Chip!Down
<1>7. ChipSat'
  BY <1>4, <1>5, <1>6 DEF ChipSat, SatStates
<1>8. QED BY <1>4, <1>7

LEMMA RestDisconnects ==
    ASSUME ChipSat, NEW in, Chip!Clock(in), wd.state = "ST_IDLE", ~in.chip_reset,
           CommandIs(in, "C_DISCONNECT"), ~wd.int_pending
    PROVE  /\ ChipSat' /\ wd'.paused = wd.paused
           /\ wd'.state = "ST_IDLE" /\ wd'.status = <<"S_DISCONNECT">>
<1> DEFINE a == Chip!Access(in)
           r == [sel |-> FALSE, ack |-> FALSE, atn |-> FALSE, pio_xfer |-> FALSE,
                 pio_ack_held |-> FALSE, cmd_phase |-> 0]
           w == Chip!When(wd.state \in Chip!PolledStates, [dbr |-> FALSE, state |-> "ST_IDLE"])
           s == [status |-> <<"S_DISCONNECT">>, int_pending |-> TRUE]
<1>1. a = Chip!@@(Chip!@@(Chip!@@(Chip!@@(r, w), s), [lci |-> FALSE]), [pio_done |-> FALSE])
  <2>1. a = Chip!Command("C_DISCONNECT", in) /\ ~Chip!Refuses("C_DISCONNECT")
    BY DEF Chip!Access, CommandIs, Chip!Refuses, ChipSat
  <2>2. Chip!Disconnect = Chip!@@(Chip!@@(r, w), s)
    BY DEF Chip!Disconnect, Chip!Result, Chip!CP_DISCONNECTED
  <2> HIDE DEF r, w, s
  <2>3. QED BY <2>1, <2>2 DEF Chip!Command, Chip!When
<1>2. Assigned(a)
  BY RestAssigns
<1>3. DOMAIN w = {}
  BY NothingIsSilent DEF Chip!When, Chip!PolledStates
<1> HIDE DEF w
<1>4. /\ DOMAIN a = {"sel", "ack", "atn", "pio_xfer", "pio_ack_held", "cmd_phase", "status", "int_pending",
                     "lci", "pio_done"}
      /\ a.sel = FALSE /\ a.ack = FALSE /\ a.pio_xfer = FALSE /\ a.cmd_phase = 0
      /\ a.status = <<"S_DISCONNECT">> /\ a.pio_done = FALSE
  BY <1>1, <1>3 DEF Chip!@@
<1> HIDE DEF a
<1>5. /\ wd'.ack = FALSE /\ wd'.dma_req = wd.dma_req /\ wd'.sel = FALSE /\ wd'.cip = wd.cip
      /\ wd'.pause_cnt = wd.pause_cnt /\ wd'.paused = wd.paused
      /\ wd'.count = wd.count /\ wd'.cmd_phase = 0 /\ wd'.pio_xfer = FALSE
      /\ wd'.pio_done = FALSE /\ Regs \subseteq DOMAIN wd'
      /\ wd'.state = "ST_IDLE" /\ wd'.status = <<"S_DISCONNECT">>
      /\ wd'.rst_timer = Chip!Down(wd.rst_timer)
  BY <1>2, <1>4 DEF Assigned
<1>6. wd'.rst_timer \in Nat
  BY <1>5 DEF ChipSat, Chip!Down
<1>7. ChipSat'
  BY <1>5, <1>6 DEF ChipSat
<1>8. QED BY <1>5, <1>7

\* The channel's reset, to a chip that rests or waits for the channel.
LEMMA RestResets ==
    ASSUME ChipSat, NEW in, Chip!Clock(in),
           wd.state = "ST_IDLE" \/ (wd.state = "ST_SAT_DMA" /\ ~in.dma_ack),
           in.chip_reset, in.access.kind = "none"
    PROVE  /\ ChipSat' /\ ~wd'.paused /\ wd'.rst_timer # 0
           /\ wd'.state = "ST_IDLE" /\ wd'.status = <<"S_RESET">>
<1> DEFINE a == Chip!ChipReset
<1>1. Assigned(a)
  BY SequencerIdle, Assigning
<1>2. /\ DOMAIN a = {"state", "dbr", "cip", "lci", "sel", "atn", "ack", "cmd_phase", "count", "use_dma",
                     "target_lun", "dest", "dma_req", "dma_in_data", "paused", "pio_xfer", "pio_done",
                     "pio_ack_held", "rst_timer", "status", "int_pending"}
      /\ a.state = "ST_IDLE" /\ a.cip = FALSE /\ a.sel = FALSE /\ a.ack = FALSE /\ a.cmd_phase = 0
      /\ a.count = 0 /\ a.dma_req = FALSE /\ a.paused = FALSE /\ a.pio_xfer = FALSE /\ a.pio_done = FALSE
      /\ a.rst_timer = RST_HOLD /\ a.status = <<"S_RESET">>
  BY DEF Chip!ChipReset, Chip!Result, Chip!@@, Chip!CP_DISCONNECTED
<1> HIDE DEF a
<1>3. /\ wd'.state = "ST_IDLE" /\ wd'.cip = FALSE /\ wd'.sel = FALSE /\ wd'.ack = FALSE /\ wd'.cmd_phase = 0
      /\ wd'.count = 0 /\ wd'.dma_req = FALSE /\ wd'.paused = FALSE /\ wd'.pio_xfer = FALSE
      /\ wd'.pio_done = FALSE /\ wd'.rst_timer = RST_HOLD /\ wd'.status = <<"S_RESET">>
      /\ wd'.pause_cnt = wd.pause_cnt /\ Regs \subseteq DOMAIN wd'
  BY <1>1, <1>2 DEF Assigned
<1>4. RST_HOLD \in Nat \ {0}
  BY ChipAssumption
<1>5. wd.pause_cnt = 0
  BY DEF ChipSat
<1>6. ChipSat'
  BY <1>3, <1>4, <1>5 DEF ChipSat
<1>7. QED BY <1>3, <1>4, <1>6

-----------------------------------------------------------------------------
(* Between the jobs.                                                       *)

\* What is seen of a clock while the chip rests.
LEMMA RestSees ==
    ASSUME Common, DrvInv, NEW d, NEW c, NEW step, Tick(d, c, step), wd.state = "ST_IDLE"
    PROVE  /\ c = FALSE /\ ~chan.ack /\ ~wd.ack /\ ~wd.cip /\ ~Stopped
           /\ Chip!Clock(Seen(step)) /\ Seen(step).chip_reset = step.reset /\ Seen(step).access = step.access
           /\ drv' = step.next
           /\ step.arms = {} =>
                /\ chan'.ack = FALSE /\ chan'.moved = chan.moved /\ chan'.op = chan.op /\ chan'.room = chan.room
                /\ chan'.ended = (chan.ended \/ wd.dma_eop)
                /\ ChanSat' /\ Shapes'
           /\ \A a : step.arms = {a} => chan' = a
<1>1. c = FALSE
  BY DEF Tick, ChanCanMove, Common, ChipSat
<1>2. ~chan.ack /\ ~wd.ack /\ ~wd.cip /\ ~Stopped
  BY DEF Common, ChipSat, ChanSat, Stopped
<1>3. Chip!Clock(Seen(step)) /\ drv' = step.next /\ ChanClock(c, step.arms)
  BY ClockSeen DEF Tick
<1>4. Seen(step).chip_reset = step.reset /\ Seen(step).access = step.access
  BY ClockSeen DEF Tick
<1>5. step.arms = {} =>
        /\ chan'.ack = FALSE /\ chan'.moved = chan.moved /\ chan'.op = chan.op /\ chan'.room = chan.room
        /\ chan'.ended = (chan.ended \/ wd.dma_eop)
        /\ ChanSat' /\ Shapes'
  BY ChannelStands, ShapesStay DEF Common
<1>6. \A a : step.arms = {a} => chan' = a
  BY <1>3 DEF ChanClock
<1>7. QED BY <1>1, <1>2, <1>3, <1>4, <1>5, <1>6

\* What the chip at rest is given.
LEMMA RestInput ==
    ASSUME Common, DrvInv, NEW d, NEW c, NEW step, Tick(d, c, step), wd.state = "ST_IDLE",
           step.reset = FALSE
    PROVE  /\ ChipSat /\ Chip!Clock(Seen(step)) /\ ~Seen(step).chip_reset
           /\ Seen(step).access = step.access
<1>1. ChipSat
  BY DEF Common
<1>2. QED BY <1>1, RestSees

\* The channel armed.
LEMMA RestArms ==
    ASSUME Common, DrvInv, NEW d, NEW c, NEW step, Tick(d, c, step), wd.state = "ST_IDLE",
           NEW a, step.arms = {a}
    PROVE  chan' = a /\ drv' = step.next
<1>1. ChanClock(c, step.arms) /\ drv' = step.next
  BY ClockSeen DEF Tick
<1>2. QED BY <1>1 DEF ChanClock

\* The chip and the channel of a clock without an access.
LEMMA RestStands ==
    ASSUME Common, DrvInv, NEW d, NEW c, NEW step, Tick(d, c, step), wd.state = "ST_IDLE",
           step.reset = FALSE, step.access = Idle, step.arms = {}
    PROVE  /\ ChipSat' /\ KeepsJob /\ KeepsCommand /\ KeepsData /\ KeepsEnd /\ KeepsLatch /\ KeepsResult
           /\ wd'.state = "ST_IDLE"
<1>1. ChipSat /\ Chip!Clock(Seen(step)) /\ ~Seen(step).chip_reset /\ Seen(step).access = step.access
  BY RestInput
<1>2. Seen(step).access.kind = "none"
  BY <1>1 DEF Idle
<1>3. QED BY <1>1, <1>2, RestWaits

\* A job goes on with the registers it was given.
LEMMA GivenStays ==
    ASSUME Given, drv'.jobs = drv.jobs, drv'.seg = drv.seg, drv'.cmd = drv.cmd,
           drv'.pc \in Giving => drv'.then = "result", drv'.pc = "segment" <=> drv.pc = "segment",
           wd'.cdb = wd.cdb, wd'.cdb_len = wd.cdb_len, wd'.use_dma = wd.use_dma,
           chan'.op = chan.op, chan'.room = chan.room
    PROVE  Given' /\ Job' = Job /\ Sent' = Sent
<1>1. Job' = Job
  BY DEF Job
<1>2. Sent' = Sent
  BY <1>1 DEF Sent
<1>3. QED BY <1>1, <1>2 DEF Given

\* The driver gives its command, or is at its next job.
Prepared ==
    /\ ChipSat' /\ ChanSat' /\ DrvSat' /\ Shapes'
    /\ \/ wd'.state = "ST_IDLE" /\ ~wd'.paused /\ Preparing' /\ OldResult'
       \/ /\ wd'.state = "ST_SAT_SEL" /\ Running' /\ Fresh'
          /\ wd'.atn /\ ~wd'.identify_sent /\ ~wd'.cdb_sent /\ wd'.cdb_idx = 0 /\ wd'.cmd_phase = 0

LEMMA PreparingWaits ==
    ASSUME Common, DrvInv, NEW d, NEW c, NEW step, Tick(d, c, step),
           wd.state = "ST_IDLE", ~wd.paused, Preparing, OldResult, step = Waits
    PROVE  Prepared
<1>1. step.access = Idle /\ step.reset = FALSE /\ step.arms = {} /\ step.next = drv
  BY DEF Waits, Step
<1>2. /\ ChipSat' /\ KeepsJob /\ KeepsData /\ KeepsResult /\ wd'.state = "ST_IDLE"
  BY <1>1, RestStands
<1>3. /\ chan'.moved = chan.moved /\ chan'.op = chan.op /\ chan'.room = chan.room
      /\ ChanSat' /\ Shapes' /\ drv' = drv
  BY <1>1, RestSees
<1>4. DrvSat'
  BY <1>3 DEF Common, DrvSat
<1>5. Preparing'
  <2>1. Given => Given' /\ Sent' = Sent
    BY <1>2, <1>3, GivenStays DEF KeepsJob, Given
  <2>2. Job' = Job
    BY <1>3 DEF Job
  <2>3. QED BY <1>2, <1>3, <2>1, <2>2 DEF Preparing, KeepsJob, KeepsData
<1>6. OldResult' /\ ~wd'.paused
  BY <1>2 DEF OldResult, KeepsResult
<1>7. QED BY <1>2, <1>3, <1>4, <1>5, <1>6 DEF Prepared

\* A segment's count, and the job's first.
LEMMA FirstSegment ==
    ASSUME DrvInv, DrvSat, drv.jobs # <<>>, Job.kind = "sat"
    PROVE  LET t == Upto(Job)
           IN  /\ Len(Job.count) \in Nat \ {0} /\ Job.count[1] \in Nat /\ t[1] = Job.count[1]
               /\ Job.room[1] \in Nat /\ Job.room[1] <= Job.count[1]
               /\ Ample(Job) => Job.room[1] = Job.count[1]
<1>1. Sound(Job)
  BY JobSound
<1> DEFINE t == Upto(Job)
<1>2. /\ Len(Job.count) \in Nat \ {0} /\ t[0] = 0
      /\ \A i \in 1..Len(Job.count) :
            /\ t[i] = t[i - 1] + Job.count[i]
            /\ Job.count[i] \in Nat /\ Job.room[i] \in Nat /\ Job.room[i] <= Job.count[i]
  BY <1>1, Segments
<1> HIDE DEF t
<1>3. 1 \in 1..Len(Job.count) /\ 1 - 1 = 0
  BY <1>2
<1>4. t[1] = Job.count[1]
  BY <1>2, <1>3
<1>5. Ample(Job) => Job.room[1] = Job.count[1]
  BY <1>3 DEF Ample
<1>6. QED BY <1>2, <1>3, <1>4, <1>5 DEF t

LEMMA PreparingStarts ==
    ASSUME Common, DrvInv, NEW d, NEW c, NEW step, Tick(d, c, step),
           wd.state = "ST_IDLE", ~wd.paused, OldResult, drv.jobs # <<>>, drv.pc = "job",
           Job.kind = "sat", step = StartsSat
    PROVE  Prepared
<1> DEFINE armed == Armed(Job.op, Job.room[1])
<1>1. /\ step.access = Load(JobRegisters) /\ step.reset = FALSE /\ step.arms = {armed}
      /\ step.next = [At("issue") EXCEPT !.cmd = "C_SEL_ATN_XFER", !.then = "result"]
  BY DEF StartsSat, Step
<1>2. /\ Len(Job.count) \in Nat \ {0} /\ Job.count[1] \in Nat /\ Upto(Job)[1] = Job.count[1]
      /\ Job.room[1] \in Nat /\ Job.room[1] <= Job.count[1]
      /\ Ample(Job) => Job.room[1] = Job.count[1]
  BY FirstSegment DEF Common
<1>3. /\ ChipSat' /\ KeepsResult
      /\ wd'.cdb = <<<<"op", Job.op>>, <<"len", Job.len>>>> /\ wd'.cdb_len = 2 /\ wd'.use_dma
      /\ wd'.state = "ST_IDLE" /\ wd'.count = Job.count[1]
  <2>1. step.reset = FALSE
    BY <1>1
  <2>2. ChipSat /\ Chip!Clock(Seen(step)) /\ ~Seen(step).chip_reset /\ Seen(step).access = step.access
    BY <2>1, RestInput
  <2>3. Seen(step).access = Load(JobRegisters)
    BY <1>1, <2>2
  <2>4. QED BY <1>2, <2>2, <2>3, RestLoads
<1>4. chan' = armed /\ drv' = step.next
  BY <1>1, RestArms
<1>5. /\ chan'.op = Job.op /\ chan'.ack = FALSE /\ chan'.room = Job.room[1] /\ chan'.moved = 0
      /\ {"op", "ack", "room", "moved", "got", "ended"} \subseteq DOMAIN armed
  BY <1>4 DEF Armed
<1> HIDE DEF armed
<1>6. ChanSat'
  BY <1>2, <1>5 DEF ChanSat
<1>7. Shapes'
  BY <1>1, <1>5, ShapesStay DEF Common
<1>8. /\ drv'.jobs = drv.jobs /\ drv'.pc = "issue" /\ drv'.seg = drv.seg
      /\ drv'.cmd = "C_SEL_ATN_XFER" /\ drv'.then = "result"
  BY <1>1, <1>4 DEF At, DrvInv, DrvOk
<1>9. drv.seg = 1
  BY DEF Common, DrvSat
<1>10. DrvSat'
  BY <1>8 DEF Common, DrvSat
<1>11. Job' = Job
  BY <1>8 DEF Job
<1>12. Sent' = Job.count[1]
  BY <1>2, <1>8, <1>9, <1>11 DEF Sent
<1>13. Given'
  BY <1>2, <1>3, <1>5, <1>8, <1>9, <1>11, <1>12 DEF Given
<1>14. Preparing'
  BY <1>3, <1>5, <1>8, <1>12, <1>13 DEF Preparing
<1>15. OldResult' /\ ~wd'.paused
  BY <1>3 DEF OldResult, KeepsResult
<1>16. QED BY <1>3, <1>6, <1>7, <1>10, <1>14, <1>15 DEF Prepared

LEMMA PreparingDisconnects ==
    ASSUME Common, DrvInv, NEW d, NEW c, NEW step, Tick(d, c, step),
           wd.state = "ST_IDLE", ~wd.paused, OldResult, drv.jobs # <<>>, drv.pc = "job",
           Job.kind = "disconnect", step = StartsDisconnect
    PROVE  Prepared
<1>1. /\ step.access = Idle /\ step.reset = FALSE /\ step.arms = {}
      /\ step.next = [At("issue") EXCEPT !.cmd = "C_DISCONNECT", !.then = "next"]
  BY DEF StartsDisconnect, Step
<1>2. ChipSat' /\ KeepsResult /\ wd'.state = "ST_IDLE"
  BY <1>1, RestStands
<1>3. ChanSat' /\ Shapes' /\ drv' = step.next
  <2>1. step.arms = {}
    BY <1>1
  <2>2. QED BY <2>1, RestSees
<1>4. /\ drv'.jobs = drv.jobs /\ drv'.pc = "issue" /\ drv'.seg = drv.seg
      /\ drv'.cmd = "C_DISCONNECT" /\ drv'.then = "next"
  BY <1>1, <1>3 DEF At, DrvInv, DrvOk
<1>5. DrvSat' /\ Preparing'
  BY <1>4 DEF Common, DrvSat, Preparing, Job
<1>6. OldResult' /\ ~wd'.paused
  BY <1>2 DEF OldResult, KeepsResult
<1>7. QED BY <1>2, <1>3, <1>5, <1>6 DEF Prepared

\* A reset, to a chip that rests or waits for a channel without room.
LEMMA ResetRests ==
    ASSUME Common, DrvInv, NEW d, NEW c, NEW step, Tick(d, c, step),
           wd.state = "ST_IDLE" \/ wd.state = "ST_SAT_DMA", ~chan.ack,
           drv.jobs # <<>>, drv.pc = "job", step = Resets
    PROVE  /\ ChipSat' /\ ChanSat' /\ DrvSat' /\ Shapes'
           /\ wd'.state = "ST_IDLE" /\ ~wd'.paused /\ wd'.rst_timer # 0 /\ drv'.pc = "job" /\ OldResult'
<1> DEFINE armed == Armed("none", 0)
<1>1. step.access = Idle /\ step.reset = TRUE /\ step.arms = {armed} /\ step.next = NextJob
  BY DEF Resets, Step
<1>2. /\ Chip!Clock(Seen(step)) /\ Seen(step).chip_reset = TRUE /\ Seen(step).access = Idle
      /\ ~Seen(step).dma_ack
      /\ drv' = NextJob /\ ChanClock(c, step.arms)
  BY <1>1, ClockSeen DEF Tick
<1>3. /\ ChipSat' /\ ~wd'.paused /\ wd'.rst_timer # 0
      /\ wd'.state = "ST_IDLE" /\ wd'.status = <<"S_RESET">>
  BY <1>2, RestResets DEF Common, Idle
<1>4. chan' = armed
  BY <1>1, <1>2 DEF ChanClock
<1>5. /\ chan'.ack = FALSE /\ chan'.room = 0 /\ chan'.moved = 0
      /\ {"op", "ack", "room", "moved", "got", "ended"} \subseteq DOMAIN armed
  BY <1>4 DEF Armed
<1> HIDE DEF armed
<1>6. ChanSat'
  BY <1>5 DEF ChanSat
<1>7. Shapes'
  BY <1>1, <1>5, ShapesStay DEF Common
<1>8. DrvSat' /\ drv'.pc = "job"
  BY <1>2, NextJobIsSound DEF Common
<1>9. QED BY <1>3, <1>6, <1>7, <1>8 DEF OldResult

LEMMA PreparingIssues ==
    ASSUME Common, DrvInv, NEW d, NEW c, NEW step, Tick(d, c, step),
           wd.state = "ST_IDLE", ~wd.paused, Preparing, OldResult, drv.jobs # <<>>, drv.pc = "issue",
           step = Issues
    PROVE  Prepared
<1>1. /\ step.access = [kind |-> "command", value |-> drv.cmd] /\ step.reset = FALSE /\ step.arms = {}
      /\ step.next = At("check")
  BY DEF Issues, Step
<1>2. /\ Chip!Clock(Seen(step)) /\ ~Seen(step).chip_reset /\ CommandIs(Seen(step), drv.cmd)
      /\ chan'.moved = chan.moved /\ chan'.op = chan.op /\ chan'.room = chan.room
      /\ ChanSat' /\ Shapes' /\ drv' = At("check")
  <2>1. Chip!Clock(Seen(step)) /\ ~Seen(step).chip_reset
        /\ Seen(step).access = [kind |-> "command", value |-> drv.cmd]
    BY <1>1, RestInput
  <2>2. /\ chan'.moved = chan.moved /\ chan'.op = chan.op /\ chan'.room = chan.room
        /\ ChanSat' /\ Shapes' /\ drv' = At("check")
    BY <1>1, RestSees
  <2>3. QED BY <2>1, <2>2 DEF CommandIs
<1>3. /\ drv'.jobs = drv.jobs /\ drv'.pc = "check" /\ drv'.seg = drv.seg
      /\ drv'.cmd = drv.cmd /\ drv'.then = drv.then
  BY <1>2 DEF At, DrvInv, DrvOk
<1>4. DrvSat' /\ Job' = Job
  BY <1>3 DEF Common, DrvSat, Job
<1>5. CASE Job.kind = "disconnect"
  <2>1. drv.cmd = "C_DISCONNECT" /\ drv.then = "next"
    BY <1>5 DEF Preparing, Given
  <2>2. /\ ChipSat' /\ ~wd'.paused /\ wd'.state = "ST_IDLE" /\ OldResult'
    <3>1. CASE wd.int_pending
      <4>1. ChipSat' /\ KeepsResult /\ wd'.state = "ST_IDLE"
        BY <1>2, <2>1, <3>1, RestRefuses DEF Common
      <4>2. QED BY <4>1 DEF KeepsResult, OldResult
    <3>2. CASE ~wd.int_pending
      <4>1. ChipSat' /\ wd'.paused = wd.paused /\ wd'.state = "ST_IDLE" /\ wd'.status = <<"S_DISCONNECT">>
        BY <1>2, <2>1, <3>2, RestDisconnects DEF Common
      <4>2. QED BY <4>1 DEF OldResult
    <3>3. QED BY <3>1, <3>2
  <2>3. Preparing'
    BY <1>3, <1>4, <1>5, <2>1 DEF Preparing
  <2>4. QED BY <1>2, <1>4, <2>2, <2>3 DEF Prepared
<1>6. CASE Job.kind # "disconnect"
  <2>1. Given /\ chan.moved = 0 /\ wd.count = Sent
    BY <1>6 DEF Preparing
  <2>2. drv.cmd = "C_SEL_ATN_XFER" /\ wd.cdb_len = 2
    BY <2>1 DEF Given
  <2>3. CASE wd.int_pending
    <3>1. /\ ChipSat' /\ KeepsData /\ KeepsResult /\ wd'.state = "ST_IDLE" /\ wd'.lci
          /\ wd'.cdb = wd.cdb /\ wd'.cdb_len = wd.cdb_len /\ wd'.use_dma = wd.use_dma
      BY <1>2, <2>2, <2>3, RestRefuses DEF Common
    <3>2. Given' /\ Sent' = Sent
      BY <1>2, <1>3, <2>1, <3>1, GivenStays DEF Given, Giving
    <3>3. Preparing'
      BY <1>2, <1>3, <2>1, <3>1, <3>2 DEF Preparing, KeepsData
    <3>4. OldResult' /\ ~wd'.paused
      BY <3>1 DEF OldResult, KeepsResult
    <3>5. QED BY <1>2, <1>4, <3>1, <3>3, <3>4 DEF Prepared
  <2>4. CASE ~wd.int_pending
    <3>1. /\ ChipSat' /\ ~wd'.lci
          /\ wd'.cdb = wd.cdb /\ wd'.cdb_len = wd.cdb_len /\ wd'.use_dma = wd.use_dma
          /\ wd'.count = wd.count /\ ~wd'.dma_in_data
          /\ wd'.atn /\ ~wd'.identify_sent /\ ~wd'.cdb_sent /\ wd'.cdb_idx = 0 /\ wd'.cmd_phase = 0
          /\ wd'.state = "ST_SAT_SEL"
      BY <1>2, <2>2, <2>4, RestSelects DEF Common
    <3>2. Given' /\ Sent' = Sent
      BY <1>2, <1>3, <2>1, <3>1, GivenStays DEF Given, Giving
    <3>3. Running' /\ Fresh'
      BY <1>2, <1>3, <2>1, <3>1, <3>2 DEF Running, Fresh
    <3>4. QED BY <1>2, <1>4, <3>1, <3>3 DEF Prepared
  <2>5. QED BY <2>3, <2>4
<1>7. QED BY <1>5, <1>6

LEMMA PreparingChecks ==
    ASSUME Common, DrvInv, NEW d, NEW c, NEW step, Tick(d, c, step),
           wd.state = "ST_IDLE", ~wd.paused, Preparing, OldResult, drv.jobs # <<>>, drv.pc = "check",
           step = Checks
    PROVE  Prepared
<1>1. CASE wd.lci
  <2>1. step.access = ReadStatus /\ step.reset = FALSE /\ step.arms = {} /\ step.next = At("issue")
    BY <1>1 DEF Checks, Step
  <2>2. /\ ChipSat' /\ KeepsData /\ wd'.state = "ST_IDLE"
        /\ wd'.cdb = wd.cdb /\ wd'.cdb_len = wd.cdb_len /\ wd'.use_dma = wd.use_dma
        /\ wd'.paused = wd.paused /\ wd'.int_pending = FALSE
    <3>1. ChipSat /\ Chip!Clock(Seen(step)) /\ ~Seen(step).chip_reset /\ Seen(step).access = ReadStatus
      BY <2>1, RestInput
    <3>2. QED BY <3>1, RestReads
  <2>3. /\ chan'.moved = chan.moved /\ chan'.op = chan.op /\ chan'.room = chan.room
        /\ ChanSat' /\ Shapes' /\ drv' = At("issue")
    BY <2>1, RestSees
  <2>4. /\ drv'.jobs = drv.jobs /\ drv'.pc = "issue" /\ drv'.seg = drv.seg
        /\ drv'.cmd = drv.cmd /\ drv'.then = drv.then
    BY <2>3 DEF At, DrvInv, DrvOk
  <2>5. DrvSat' /\ Job' = Job
    BY <2>4 DEF Common, DrvSat, Job
  <2>6. Given => Given' /\ Sent' = Sent
    BY <2>2, <2>3, <2>4, GivenStays DEF Given, Giving
  <2>7. Preparing'
    BY <2>2, <2>3, <2>4, <2>5, <2>6 DEF Preparing, KeepsData
  <2>8. QED BY <2>2, <2>3, <2>5, <2>7 DEF Prepared, OldResult
<1>2. CASE ~wd.lci
  <2>1. drv.then = "next"
    BY <1>2 DEF Preparing
  <2>2. step.access = Idle /\ step.reset = FALSE /\ step.arms = {} /\ step.next = NextJob
    BY <1>2, <2>1 DEF Checks, Step
  <2>3. ChipSat' /\ KeepsResult /\ wd'.state = "ST_IDLE"
    BY <2>2, RestStands
  <2>4. ChanSat' /\ Shapes' /\ drv' = NextJob
    BY <2>2, RestSees
  <2>5. DrvSat' /\ drv'.pc = "job"
    BY <2>4, NextJobIsSound DEF Common
  <2>6. QED BY <2>3, <2>4, <2>5 DEF Prepared, Preparing, OldResult, KeepsResult
<1>3. QED BY <1>1, <1>2

\* Whatever it does of it.
LEMMA PreparingStep ==
    ASSUME Common, DrvInv, NEW d, NEW c, NEW step, Tick(d, c, step),
           wd.state = "ST_IDLE", ~wd.paused, Preparing, OldResult
    PROVE  Prepared
<1>1. CASE step = Waits
  BY <1>1, PreparingWaits
<1>2. CASE step \in DrvSteps
  <2>1. drv.jobs # <<>>
    BY <1>2 DEF DrvSteps
  <2>2. CASE drv.pc = "job"
    <3>1. Job.kind \in {"sat", "disconnect", "reset"}
      BY <2>1, JobSound DEF Common, Sound
    <3>2. CASE Job.kind = "sat"
      <4>1. step = StartsSat
        BY <1>2, <2>1, <2>2, <3>2 DEF DrvSteps
      <4>2. QED BY <2>1, <2>2, <3>2, <4>1, PreparingStarts
    <3>3. CASE Job.kind = "disconnect"
      <4>1. step = StartsDisconnect
        BY <1>2, <2>1, <2>2, <3>3 DEF DrvSteps
      <4>2. QED BY <2>1, <2>2, <3>3, <4>1, PreparingDisconnects
    <3>4. CASE Job.kind = "reset"
      <4>1. step = Resets
        BY <1>2, <2>1, <2>2, <3>4 DEF DrvSteps
      <4>2. ~chan.ack
        BY RestSees
      <4>3. /\ ChipSat' /\ ChanSat' /\ DrvSat' /\ Shapes'
            /\ wd'.state = "ST_IDLE" /\ ~wd'.paused /\ drv'.pc = "job" /\ OldResult'
        BY <2>1, <2>2, <4>1, <4>2, ResetRests
      <4>4. QED BY <4>3 DEF Prepared, Preparing
    <3>5. QED BY <3>1, <3>2, <3>3, <3>4
  <2>3. CASE drv.pc = "issue"
    <3>1. step = Issues
      BY <1>2, <2>1, <2>3 DEF DrvSteps
    <3>2. QED BY <2>1, <2>3, <3>1, PreparingIssues
  <2>4. CASE drv.pc = "check"
    <3>1. step = Checks
      BY <1>2, <2>1, <2>4 DEF DrvSteps
    <3>2. QED BY <2>1, <2>4, <3>1, PreparingChecks
  <2>5. QED BY <2>2, <2>3, <2>4 DEF Preparing
<1>3. QED BY <1>1, <1>2 DEF Tick

\* The bus between the jobs.
LEMMA FreeBus ==
    ASSUME Common, NEW d, NEW c, NEW step, Tick(d, c, step), ~wd.ack, ~wd.sel,
           tg.phase = "IDLE", Settled, DevIdle
    PROVE  tg'.phase = "IDLE" /\ Settled' /\ DevIdle' /\ image' = image /\ BytesInPlace'
<1>1. tg'.phase = "IDLE"
  BY TargetMoves DEF TgPhase
<1>2. Settled'
  BY TargetMoves DEF TgShake, Settled
<1>3. ~Target!req_rd /\ ~Target!req_wr
  BY DEF Target!req_rd, Target!req_wr
<1>4. DevIdle' /\ image' = image
  BY <1>3, DeviceStands DEF Common
<1>5. BytesInPlace'
  BY <1>4 DEF Common, BytesInPlace
<1>6. QED BY <1>1, <1>2, <1>4, <1>5

\* No handshake under way.
LEMMA PipeRests ==
    ASSUME ChipSat', Settled', wd'.state \in {"ST_IDLE", "ST_SAT_SEL", "ST_SAT_DMA"}
    PROVE  Pipe'
  BY DEF ChipSat, Settled, Pipe

LEMMA PreparedIsFree ==
    ASSUME Prepared, Settled', DevIdle', BytesInPlace', tg'.phase = "IDLE"
    PROVE  Common' /\ (Free \/ Selecting)'
<1>1. Pipe'
  BY PipeRests DEF Prepared
<1>2. Common'
  BY <1>1 DEF Prepared, Common
<1>3. (Free \/ Selecting)'
  BY DEF Prepared, Free, Selecting
<1>4. QED BY <1>2, <1>3

LEMMA FreeStep ==
    ASSUME Common, DrvInv, NEW d, NEW c, NEW step, Tick(d, c, step), Free
    PROVE  Common' /\ (Free \/ Selecting)'
<1>1. /\ tg.phase = "IDLE" /\ wd.state = "ST_IDLE" /\ ~wd.paused /\ Settled /\ DevIdle
      /\ Preparing /\ OldResult
  BY DEF Free
<1>2. ~wd.ack /\ ~wd.sel
  BY <1>1 DEF Common, ChipSat
<1>3. Prepared
  BY <1>1, PreparingStep
<1>4. tg'.phase = "IDLE" /\ Settled' /\ DevIdle' /\ BytesInPlace'
  BY <1>1, <1>2, FreeBus
<1>5. QED BY <1>3, <1>4, PreparedIsFree

\* The reset of a chain that ran out reaches the target.
LEMMA ResettedStep ==
    ASSUME Common, DrvInv, NEW d, NEW c, NEW step, Tick(d, c, step), Resetted
    PROVE  Common' /\ (Free \/ Selecting)'
<1>1. /\ wd.state = "ST_IDLE" /\ ~wd.paused /\ wd.rst_timer # 0 /\ Still /\ Preparing /\ OldResult
  BY DEF Resetted, Preparing
<1>2. ~wd.ack
  BY <1>1 DEF Common, ChipSat
<1>3. Prepared
  BY <1>1, PreparingStep
<1>4. tg'.phase = "IDLE" /\ Settled' /\ DevIdle' /\ BytesInPlace'
  BY <1>1, <1>2, StillStands
<1>5. QED BY <1>3, <1>4, PreparedIsFree

\* It runs out until the reset.
LEMMA StuckStep ==
    ASSUME Common, DrvInv, NEW d, NEW c, NEW step, Tick(d, c, step), Stuck
    PROVE  Common' /\ (Stuck \/ Resetted)'
<1>1. /\ wd.state = "ST_SAT_DMA" /\ Still /\ drv.pc = "job" /\ wd.rst_timer = 0
      /\ ~chan.ack /\ chan.moved = chan.room /\ (drv.jobs # <<>> => Job.kind = "reset")
  BY DEF Stuck
<1>2. ~wd.ack /\ ~c
  <2>1. ~c
    BY <1>1 DEF Tick, ChanCanMove, Common, ChanSat
  <2>2. QED BY <1>1, <2>1 DEF Common, ChipSat
<1>3. Still' /\ Settled' /\ BytesInPlace'
  BY <1>1, <1>2, StillStands
<1>4. CASE step = Waits
  <2>1. step.access = Idle /\ step.reset = FALSE /\ step.arms = {} /\ step.next = drv
    BY <1>4 DEF Waits, Step
  <2>2. Alone(Seen(step)) /\ ~Seen(step).dma_ack /\ drv' = drv
    BY <1>1, <2>1, ClockSeen DEF Tick, Alone, Idle
  <2>3. ChipSat' /\ wd'.state = "ST_SAT_DMA" /\ wd'.rst_timer = 0
    <3>1. ChipSat' /\ KeepsJob /\ wd'.state = wd.state
      BY <1>1, <2>2, ChipStands DEF Common
    <3>2. QED BY <1>1, <3>1 DEF KeepsJob, Chip!Down
  <2>4. Shapes' /\ ~chan'.ack /\ chan'.moved = chan.moved /\ chan'.room = chan.room
    <3>1. Shapes'
      BY <2>1, ShapesStay DEF Common
    <3>2. QED BY <1>2, <2>1, <3>1, ChannelMoves DEF Common, Tick
  <2>5. ChanSat'
    BY <2>4 DEF ChanSat, Common
  <2>6. DrvSat' /\ Stuck'
    BY <1>1, <1>3, <2>2, <2>3, <2>4 DEF Common, DrvSat, Stuck, Job
  <2>7. Pipe'
    BY <1>3, <2>3, PipeRests
  <2>8. QED BY <1>3, <2>3, <2>4, <2>5, <2>6, <2>7 DEF Common
<1>5. CASE step \in DrvSteps
  <2>1. drv.jobs # <<>> /\ step = Resets
    BY <1>1, <1>5 DEF DrvSteps
  <2>2. /\ ChipSat' /\ ChanSat' /\ DrvSat' /\ Shapes'
        /\ wd'.state = "ST_IDLE" /\ ~wd'.paused /\ wd'.rst_timer # 0 /\ drv'.pc = "job" /\ OldResult'
    BY <1>1, <2>1, ResetRests
  <2>3. Pipe'
    BY <1>3, <2>2, PipeRests
  <2>4. QED BY <1>3, <2>2, <2>3 DEF Common, Resetted
<1>6. QED BY <1>4, <1>5 DEF Tick

-----------------------------------------------------------------------------
(* The result.                                                             *)

\* A chip at rest and its driver, which has not taken the result yet.
LEMMA ResultWaits ==
    ASSUME Common, DrvInv, NEW d, NEW c, NEW step, Tick(d, c, step), wd.state = "ST_IDLE", Running,
           step = Waits \/ (step \in DrvSteps /\ step # TakesResult)
    PROVE  /\ ChipSat' /\ ChanSat' /\ DrvSat' /\ Shapes' /\ Running' /\ Job' = Job /\ Sent' = Sent
           /\ KeepsJob /\ KeepsData /\ KeepsEnd /\ KeepsLatch /\ KeepsResult
           /\ wd'.state = "ST_IDLE"
           /\ chan'.ack = FALSE /\ chan'.moved = chan.moved /\ chan'.op = chan.op /\ chan'.room = chan.room
           /\ chan'.ended = (chan.ended \/ wd.dma_eop)
<1>1. step.access = Idle /\ step.reset = FALSE /\ step.arms = {} /\ (step.next = drv \/ step.next = At("result"))
  <2>1. CASE step = Waits
    BY <2>1 DEF Waits, Step
  <2>2. CASE step \in DrvSteps /\ step # TakesResult /\ drv.pc = "check"
    <3>1. step = Checks
      BY <2>2 DEF DrvSteps
    <3>2. step = Step(Idle, At("result"))
      BY <2>2, <3>1 DEF Checks, Running, Given, Giving
    <3>3. QED BY <3>2 DEF Step
  <2>3. CASE step \in DrvSteps /\ step # TakesResult /\ drv.pc = "result"
    <3>1. ~Stopped
      BY RestSees
    <3>2. FALSE
      BY <2>3, <3>1 DEF DrvSteps
    <3>3. QED BY <3>2
  <2>4. QED BY <2>1, <2>2, <2>3 DEF Running
<1>2. step.access = Idle /\ step.reset = FALSE /\ step.arms = {}
  BY <1>1
<1>3. /\ ChipSat' /\ KeepsJob /\ KeepsData /\ KeepsEnd /\ KeepsLatch /\ KeepsResult
      /\ wd'.state = "ST_IDLE"
  BY <1>2, RestStands
<1>4. /\ chan'.ack = FALSE /\ chan'.moved = chan.moved /\ chan'.op = chan.op /\ chan'.room = chan.room
      /\ chan'.ended = (chan.ended \/ wd.dma_eop) /\ ChanSat' /\ Shapes' /\ drv' = step.next
  BY <1>2, RestSees
<1>5. drv' = drv \/ drv' = At("result")
  BY <1>1, <1>4
<1>6. Running' /\ Job' = Job /\ Sent' = Sent /\ DrvSat'
  BY <1>3, <1>4, <1>5, JobRuns DEF Common
<1>7. QED BY <1>3, <1>4, <1>6

\* The target took a selection the chip had given up: the bus is engaged, and the
\* result is not looked at.
LEMMA StrayStep ==
    ASSUME Common, DrvInv, NEW d, NEW c, NEW step, Tick(d, c, step), Stray
    PROVE  Common' /\ Stray'
<1>1. /\ tg.phase = "MSG_OUT" /\ wd.state = "ST_IDLE" /\ ~wd.paused /\ wd.rst_timer = 0
      /\ wd.int_pending /\ wd.status = <<"S_SELECT_TIMEOUT">>
      /\ Settled /\ DevIdle /\ Running
  BY DEF Stray
<1>2. ~wd.ack /\ ~wd.pio_done
  BY <1>1 DEF Common, ChipSat
<1>3. ~Serviceable /\ ~Stopped
  BY <1>1, <1>2 DEF Serviceable, Chip!AsrBusy, Target!Bsy, Stopped
<1>4. step = Waits \/ (step \in DrvSteps /\ drv.pc = "check")
  BY <1>1, <1>3 DEF Tick, DrvSteps, Running
<1>5. /\ step.access = Idle /\ step.reset = FALSE /\ step.arms = {}
      /\ step.next = drv \/ step.next = At("result")
  <2>1. CASE step = Waits
    BY <2>1 DEF Waits, Step
  <2>2. CASE step \in DrvSteps /\ drv.pc = "check"
    <3>1. step = Checks
      BY <2>2 DEF DrvSteps
    <3>2. step = Step(Idle, At("result"))
      BY <1>1, <2>2, <3>1 DEF Checks, Running, Given, Giving
    <3>3. QED BY <3>2 DEF Step
  <2>3. QED BY <1>4, <2>1, <2>2
<1>6. step.access = Idle /\ step.reset = FALSE /\ step.arms = {}
  BY <1>5
<1>7. ChipSat' /\ KeepsJob /\ KeepsResult /\ wd'.state = "ST_IDLE"
  BY <1>1, <1>6, RestStands
<1>8. chan'.op = chan.op /\ chan'.room = chan.room /\ ChanSat' /\ Shapes' /\ drv' = step.next
  BY <1>1, <1>6, RestSees
<1>9. drv' = drv \/ drv' = At("result")
  BY <1>5, <1>8
<1>10. Running' /\ DrvSat'
  BY <1>1, <1>7, <1>8, <1>9, JobRuns DEF Common
<1>11. Settled' /\ tg'.phase = "MSG_OUT"
  BY <1>1, <1>2, TargetMoves DEF TgShake, TgPhase, Settled
<1>12. DevIdle' /\ BytesInPlace'
  <2>1. ~Target!req_rd /\ ~Target!req_wr
    BY <1>1 DEF Target!req_rd, Target!req_wr
  <2>2. DevIdle' /\ image' = image
    BY <1>1, <2>1, DeviceStands DEF Common
  <2>3. QED BY <2>2 DEF Common, BytesInPlace
<1>13. Pipe'
  BY <1>7, <1>11, PipeRests
<1>14. wd'.rst_timer = 0
  BY <1>1, <1>7 DEF KeepsJob, Chip!Down
<1>15. QED BY <1>1, <1>7, <1>8, <1>10, <1>11, <1>12, <1>13, <1>14 DEF Common, Stray, KeepsResult

\* The result is read, and the next job begins.
LEMMA EndedTakes ==
    ASSUME Common, DrvInv, NEW d, NEW c, NEW step, Tick(d, c, step), Ended, step = TakesResult,
           drv.jobs # <<>>
    PROVE  Prepared
<1>1. /\ wd.state = "ST_IDLE" /\ ~wd.paused /\ wd.status \notin Pauses
  BY DEF Ended, Pauses
<1>2. step.access = ReadStatus /\ step.reset = FALSE /\ step.arms = {} /\ step.next = NextJob
  BY <1>1 DEF TakesResult, Step
<1>3. step.reset = FALSE /\ step.arms = {}
  BY <1>2
<1>4. /\ ChipSat /\ Chip!Clock(Seen(step)) /\ ~Seen(step).chip_reset
      /\ Seen(step).access = step.access
  BY <1>1, <1>3, RestInput
<1>5. Seen(step).access = ReadStatus
  BY <1>2, <1>4
<1>6. ChipSat' /\ wd'.state = "ST_IDLE" /\ wd'.paused = wd.paused /\ wd'.int_pending = FALSE
  BY <1>1, <1>4, <1>5, RestReads
<1>7. ChanSat' /\ Shapes' /\ drv' = step.next
  BY <1>1, <1>3, RestSees
<1>8. DrvSat' /\ drv'.pc = "job"
  BY <1>2, <1>7, NextJobIsSound DEF Common
<1>9. QED BY <1>1, <1>6, <1>7, <1>8 DEF Prepared, Preparing, OldResult

LEMMA EndedStep ==
    ASSUME Common, DrvInv, NEW d, NEW c, NEW step, Tick(d, c, step), Ended
    PROVE  Common' /\ (Ended \/ Free \/ Selecting)'
<1>1. /\ tg.phase = "IDLE" /\ wd.state = "ST_IDLE" /\ ~wd.paused /\ DevIdle /\ Settled /\ Running
      /\ wd.int_pending
  BY DEF Ended
<1>2. ~wd.ack /\ ~wd.sel
  BY <1>1 DEF Common, ChipSat
<1>3. tg'.phase = "IDLE" /\ Settled' /\ DevIdle' /\ image' = image /\ BytesInPlace'
  BY <1>1, <1>2, FreeBus
<1>4. CASE step = TakesResult
  <2>1. drv.jobs # <<>>
    BY <1>1 DEF Running, Given
  <2>2. Prepared
    BY <1>4, <2>1, EndedTakes
  <2>3. QED BY <1>3, <2>2, PreparedIsFree
<1>5. CASE step # TakesResult
  <2>1. step = Waits \/ (step \in DrvSteps /\ step # TakesResult)
    BY <1>5 DEF Tick
  <2>2. /\ ChipSat' /\ ChanSat' /\ DrvSat' /\ Shapes' /\ Running' /\ Job' = Job /\ Sent' = Sent
        /\ KeepsData /\ KeepsEnd /\ KeepsResult
        /\ wd'.state = "ST_IDLE"
        /\ chan'.moved = chan.moved /\ chan'.room = chan.room
        /\ chan'.ended = (chan.ended \/ wd.dma_eop)
    BY <1>1, <2>1, ResultWaits
  <2>3. Pipe'
    BY <1>3, <2>2, PipeRests
  <2>4. Common'
    BY <1>3, <2>2, <2>3 DEF Common
  <2>5. Done => Done'
    <3>1. Ending => Ending'
      <4>1. DataLength(Job)' = DataLength(Job)
        BY <2>2 DEF DataLength
      <4>2. QED BY <2>2, <4>1 DEF Ending
    <3>2. EopDone => EopDone'
      BY <2>2 DEF EopDone
    <3>3. Written => Written'
      BY <1>3, <2>2 DEF Written
    <3>4. QED BY <2>2, <3>1, <3>2, <3>3 DEF Done, KeepsData, KeepsEnd
  <2>6. Ended'
    BY <1>1, <1>3, <2>2, <2>5 DEF Ended, KeepsResult
  <2>7. QED BY <2>4, <2>6
<1>6. QED BY <1>4, <1>5

-----------------------------------------------------------------------------
(* A job that paused: the target holds the data phase.                     *)

\* The bus and the block device meanwhile.
LEMMA PausedBus ==
    ASSUME Common, DrvInv, NEW d, NEW c, NEW step, Tick(d, c, step), wd.state = "ST_IDLE",
           Given, Counts, Side, Settled, ~Target!data_done,
           ChipSat', wd'.state \in {"ST_IDLE", "ST_SAT_PHASE"}, Job' = Job
    PROVE  /\ Settled' /\ BytesInPlace' /\ Side' /\ Pipe'
           /\ ~Target!data_done' /\ Accepted' /\ tg'.phase = tg.phase
           /\ tg'.data_cnt = tg.data_cnt
           /\ tg'.data_complete <=> (tg'.data_cnt = DataLength(Job) /\ DataLength(Job) # 0)
<1> DEFINE all == DataLength(Job)
<1>1. ~wd.ack /\ ~tg.stb_ack /\ ~tg.stb_adv /\ ~wd'.ack
  BY DEF Common, ChipSat, Settled
<1>2. /\ all \in Nat /\ Target!data_len = all
      /\ tg'.cmd = tg.cmd /\ tg'.tlen = tg.tlen /\ tg'.status = tg.status
      /\ tg'.data_cnt = tg.data_cnt + Bit(tg.stb_adv)
      /\ tg'.data_complete <=> (tg'.data_cnt = all /\ all # 0)
      /\ tg'.phase = tg.phase
      /\ Target!data_done <=> tg.data_cnt = all
  BY DataTarget
<1>3. tg'.data_cnt = tg.data_cnt /\ tg.phase \in DataStages
  BY <1>1, <1>2 DEF Bit, Counts
<1>4. Settled'
  BY <1>1, TargetMoves DEF TgShake, Settled
<1>5. Target!Op' = Target!Op /\ Target!data_len' = all
  BY <1>2 DEF Target!Op, Target!data_len
<1>6. Accepted'
  BY <1>2, <1>5 DEF Counts, Accepted
<1>7. ~Target!data_done'
  BY <1>2, <1>3, <1>5 DEF Target!data_done
<1>8. Pipe'
  BY <1>1, <1>4 DEF Pipe, Settled
<1>9. Target!Op = Job.op
  BY DEF Counts, Accepted
<1>10. Side' /\ BytesInPlace'
  <2>1. CASE Job.op = "write"
    <3>1. Sends
      BY <2>1 DEF Side
    <3>2. Writes' /\ BytesInPlace'
      BY <2>1, <3>1, SendsInOrder, WritesStep
    <3>3. ~Late'
      BY <1>4 DEF Settled, Late
    <3>4. Sends'
      BY <1>1, <1>2, <1>4, <3>1, <3>2, <3>3 DEF Sends
    <3>5. QED BY <2>1, <3>2, <3>4 DEF Side
  <2>2. CASE Job.op = "read"
    <3>1. Receives
      BY <2>2 DEF Side
    <3>2. (tg'.stb_ack <=> wd.ack) /\ (tg'.stb_adv <=> tg.stb_ack)
      BY <1>1, <1>4 DEF Settled
    <3>3. BytesInPlace' /\ (tg'.phase = "DATA_OUT" => Receives')
      BY <1>1, <2>2, <3>1, <3>2, ReceivesStep
    <3>4. tg'.phase = "DATA_OUT"
      BY <1>2, <3>1 DEF Receives
    <3>5. QED BY <2>2, <3>3, <3>4 DEF Side
  <2>3. CASE Job.op \notin {"read", "write"}
    <3>1. DevIdle /\ tg.phase = "DATA_OUT" /\ Job.op = "inquiry"
      BY <2>3 DEF Side
    <3>2. ~Target!req_rd /\ ~Target!req_wr
      BY <1>9, <2>3 DEF Target!req_rd, Target!req_wr, Target!cmd_read, Target!cmd_write
    <3>3. DevIdle' /\ image' = image
      BY <3>1, <3>2, DeviceStands DEF Common
    <3>4. BytesInPlace'
      BY <3>3 DEF Common, BytesInPlace
    <3>5. QED BY <1>2, <2>3, <3>1, <3>3, <3>4 DEF Side
  <2>4. QED BY <2>1, <2>2, <2>3
<1>11. QED BY <1>2, <1>3, <1>4, <1>6, <1>7, <1>8, <1>10

\* What is left to be moved, when the driver has given the next segment or not.
LEMMA PausedCounts ==
    ASSUME Common, DrvInv, NEW d, NEW c, NEW step, Tick(d, c, step), wd.state = "ST_IDLE",
           Given, Counts, Side, Settled, ~Target!data_done,
           ChipSat', wd'.state \in {"ST_IDLE", "ST_SAT_PHASE"}, Job' = Job,
           wd'.count + tg.data_cnt = Sent', wd'.dma_in_data = wd.dma_in_data,
           wd'.cmd_phase = wd.cmd_phase, wd'.rst_timer = Chip!Down(wd.rst_timer),
           chan'.moved = chan.moved, chan'.ack = FALSE
    PROVE  Counts' /\ Side' /\ Settled' /\ ~Target!data_done' /\ Pipe' /\ BytesInPlace'
<1>1. /\ Settled' /\ BytesInPlace' /\ Side' /\ Pipe'
      /\ ~Target!data_done' /\ Accepted' /\ tg'.phase = tg.phase
      /\ tg'.data_cnt = tg.data_cnt
      /\ tg'.data_complete <=> (tg'.data_cnt = DataLength(Job) /\ DataLength(Job) # 0)
  BY PausedBus
<1>2. ~Late /\ ~Late' /\ ~chan.ack
  BY <1>1 DEF Settled, Late, Common, ChanSat
<1>3. /\ tg.phase \in DataStages /\ wd.rst_timer = 0
      /\ tg.data_cnt \in Nat /\ tg.data_cnt <= DataLength(Job)
      /\ chan.moved = tg.data_cnt + Bit(Late) + Bit(chan.ack \/ wd.state \in {"ST_SAT_ACK", "ST_SAT_REL"})
      /\ chan.moved > 0 => wd.dma_in_data
      /\ wd.cmd_phase < 71
  BY DEF Counts
<1>4. DataLength(Job)' = DataLength(Job)
  BY DEF DataLength
<1>5. /\ wd'.count \in Nat /\ chan.moved = tg.data_cnt
      /\ wd'.count + tg'.data_cnt + Bit(Late') = Sent'
      /\ chan'.moved = tg'.data_cnt + Bit(Late') + Bit((chan.ack \/ wd.state \in {"ST_SAT_ACK", "ST_SAT_REL"})')
  BY <1>1, <1>2, <1>3 DEF Bit, ChipSat
<1>6. wd'.rst_timer = 0
  BY <1>3 DEF Chip!Down
<1>7. /\ tg'.data_cnt \in Nat /\ tg'.data_cnt <= DataLength(Job)'
      /\ tg'.data_complete <=> (tg'.data_cnt = DataLength(Job)' /\ DataLength(Job)' # 0)
  BY <1>1, <1>3, <1>4
<1>8. Counts'
  BY <1>1, <1>3, <1>5, <1>6, <1>7 DEF Counts, Moving, Following
<1>9. QED BY <1>1, <1>8

\* The pause's count.
LEMMA PausedSent ==
    ASSUME Common, DrvInv, Counts, Given, Settled, wd.state = "ST_IDLE"
    PROVE  /\ wd.count + tg.data_cnt = Sent /\ tg.data_cnt \in Nat /\ Sent \in Nat
           /\ Sent <= DataLength(Job) /\ (Sent = DataLength(Job) /\ wd.count = 0 => Target!data_done)
<1>1. ~Late
  BY DEF Settled, Late
<1>2. Sent \in Nat /\ Sent <= DataLength(Job) /\ DataLength(Job) \in Nat
  BY SentBound DEF Common
<1>3. wd.count + tg.data_cnt = Sent /\ tg.data_cnt \in Nat /\ wd.count \in Nat
  <2>1. wd.count + tg.data_cnt + Bit(Late) = Sent /\ tg.data_cnt \in Nat /\ wd.count \in Nat
    BY DEF Counts, Common, ChipSat
  <2>2. QED BY <1>1, <2>1 DEF Bit
<1>4. Sent = DataLength(Job) /\ wd.count = 0 => Target!data_done
  <2>1. SUFFICES ASSUME Sent = DataLength(Job), wd.count = 0 PROVE Target!data_done
    OBVIOUS
  <2>2. tg.data_cnt = DataLength(Job)
    BY <1>2, <1>3, <2>1
  <2>3. /\ tg.data_complete <=> (tg.data_cnt = DataLength(Job) /\ DataLength(Job) # 0)
        /\ Accepted
    BY DEF Counts
  <2>4. Target!data_len = DataLength(Job)
    BY <2>3 DEF Accepted, Target!data_len, DataLength
  <2>5. QED BY <2>2, <2>3, <2>4 DEF Target!data_done
<1>5. QED BY <1>2, <1>3, <1>4

\* The driver has not looked at the pause.
LEMMA PausedWaits ==
    ASSUME Common, DrvInv, NEW d, NEW c, NEW step, Tick(d, c, step), Paused,
           Running, wd.count = 0, wd.int_pending, wd.status \in Pauses,
           step = Waits \/ (step \in DrvSteps /\ step # TakesResult)
    PROVE  Common' /\ Paused'
<1>1. /\ wd.state = "ST_IDLE" /\ wd.paused /\ Given /\ Counts /\ Side
      /\ Settled /\ ~Target!data_done
  BY DEF Paused
<1>2. /\ ChipSat' /\ ChanSat' /\ DrvSat' /\ Shapes' /\ Running' /\ Job' = Job /\ Sent' = Sent
      /\ KeepsJob /\ KeepsData /\ KeepsEnd /\ KeepsResult /\ wd'.state = "ST_IDLE"
      /\ chan'.moved = chan.moved /\ chan'.ack = FALSE
  BY <1>1, ResultWaits
<1>3. wd'.count + tg.data_cnt = Sent'
  BY <1>1, <1>2, PausedSent DEF KeepsData
<1>4. Counts' /\ Side' /\ Settled' /\ ~Target!data_done' /\ Pipe' /\ BytesInPlace'
  BY <1>1, <1>2, <1>3, PausedCounts DEF KeepsData, KeepsEnd, KeepsJob
<1>5. Common'
  BY <1>2, <1>4 DEF Common
<1>6. Paused'
  BY <1>1, <1>2, <1>4 DEF Paused, Running, KeepsData, KeepsResult
<1>7. QED BY <1>5, <1>6

\* It takes the pause, and goes to the next segment.
LEMMA PausedTakes ==
    ASSUME Common, DrvInv, NEW d, NEW c, NEW step, Tick(d, c, step), Paused,
           Running, wd.count = 0, wd.int_pending, wd.status \in Pauses,
           step = TakesResult
    PROVE  Common' /\ Paused'
<1>1. /\ wd.state = "ST_IDLE" /\ wd.paused /\ Given /\ Counts /\ Side
      /\ Settled /\ ~Target!data_done
  BY DEF Paused
<1>2. /\ Sent = Upto(Job)[drv.seg] /\ drv.seg \in 1..Len(Job.count) /\ drv.pc \in {"check", "result"}
      /\ drv.cmd = "C_SEL_ATN_XFER"
  BY <1>1 DEF Sent, Running, Given
<1>3. Sound(Job) /\ Job.kind = "sat"
  BY <1>1, SentBound DEF Common
<1>4. drv.seg < Len(Job.count) /\ Len(Job.count) \in Nat
  <2>1. Len(Job.count) \in Nat /\ Upto(Job)[Len(Job.count)] = DataLength(Job)
    BY <1>3, Segments
  <2>2. Sent # DataLength(Job)
    BY <1>1, PausedSent
  <2>3. drv.seg # Len(Job.count)
    BY <1>2, <2>1, <2>2
  <2>4. QED BY <1>2, <2>1, <2>3
<1>5. /\ step.access = ReadStatus /\ step.reset = FALSE /\ step.arms = {}
      /\ step.next = [At("segment") EXCEPT !.seg = @ + 1]
  BY <1>4 DEF TakesResult, Step
<1>6. step.reset = FALSE /\ step.arms = {}
  BY <1>5
<1>7. /\ ChipSat /\ Chip!Clock(Seen(step)) /\ ~Seen(step).chip_reset
      /\ Seen(step).access = step.access
  BY <1>1, <1>6, RestInput
<1>8. Seen(step).access = ReadStatus
  BY <1>5, <1>7
<1>9. /\ ChipSat' /\ KeepsData /\ KeepsEnd
      /\ wd'.cdb = wd.cdb /\ wd'.cdb_len = wd.cdb_len /\ wd'.use_dma = wd.use_dma
      /\ wd'.rst_timer = Chip!Down(wd.rst_timer)
      /\ wd'.state = "ST_IDLE" /\ wd'.paused = wd.paused /\ wd'.int_pending = FALSE
  BY <1>1, <1>7, <1>8, RestReads
<1>10. /\ chan'.ack = FALSE /\ chan'.moved = chan.moved /\ chan'.op = chan.op /\ chan'.room = chan.room
       /\ ChanSat' /\ Shapes' /\ drv' = step.next
  BY <1>1, <1>6, RestSees
<1>11. /\ drv'.jobs = drv.jobs /\ drv'.pc = "segment" /\ drv'.seg = drv.seg + 1 /\ drv'.cmd = drv.cmd
  BY <1>5, <1>10 DEF At, DrvInv, DrvOk
<1>12. DrvSat' /\ Job' = Job
  BY <1>11 DEF Common, DrvSat, Job
<1>13. Sent' = Sent
  <2>1. Sent' = Upto(Job)[(drv.seg + 1) - 1]
    BY <1>11, <1>12 DEF Sent
  <2>2. (drv.seg + 1) - 1 = drv.seg
    BY <1>2, <1>4
  <2>3. QED BY <1>2, <2>1, <2>2
<1>14. drv'.seg \in 1..Len(Job.count) /\ drv'.seg > 1
  BY <1>2, <1>4, <1>11
<1>15. Given'
  BY <1>1, <1>9, <1>10, <1>11, <1>12, <1>13, <1>14 DEF Given, Giving
<1>16. wd'.count + tg.data_cnt = Sent'
  BY <1>1, <1>9, <1>13, PausedSent DEF KeepsData
<1>17. Counts' /\ Side' /\ Settled' /\ ~Target!data_done' /\ Pipe' /\ BytesInPlace'
  BY <1>1, <1>9, <1>10, <1>12, <1>16, PausedCounts DEF KeepsData, KeepsEnd
<1>18. Common'
  BY <1>9, <1>10, <1>12, <1>17 DEF Common
<1>19. Paused'
  BY <1>1, <1>9, <1>11, <1>14, <1>15, <1>17 DEF Paused, KeepsData
<1>20. QED BY <1>18, <1>19

\* The driver does nothing between the pause and the resumption.
LEMMA PausedRests ==
    ASSUME Common, DrvInv, NEW d, NEW c, NEW step, Tick(d, c, step), Paused, step = Waits,
           drv.pc \in {"segment", "issue"}, ~wd.int_pending
    PROVE  Common' /\ Paused'
<1>1. /\ wd.state = "ST_IDLE" /\ wd.paused /\ Given /\ Counts /\ Side
      /\ Settled /\ ~Target!data_done
      /\ drv.pc = "segment" => drv.seg > 1 /\ wd.count = 0
  BY DEF Paused, Running
<1>2. step.access = Idle /\ step.reset = FALSE /\ step.arms = {} /\ step.next = drv
  BY DEF Waits, Step
<1>3. step.access = Idle /\ step.reset = FALSE /\ step.arms = {}
  BY <1>2
<1>4. /\ ChipSat' /\ KeepsJob /\ KeepsData /\ KeepsEnd /\ KeepsResult /\ wd'.state = "ST_IDLE"
  BY <1>1, <1>3, RestStands
<1>5. /\ chan'.ack = FALSE /\ chan'.moved = chan.moved /\ chan'.op = chan.op /\ chan'.room = chan.room
      /\ ChanSat' /\ Shapes' /\ drv' = step.next
  BY <1>1, <1>3, RestSees
<1>6. drv' = drv
  BY <1>2, <1>5
<1>7. DrvSat' /\ Job' = Job
  BY <1>6 DEF Common, DrvSat, Job
<1>8. Given' /\ Sent' = Sent
  BY <1>1, <1>4, <1>5, <1>6, GivenStays DEF KeepsJob, Given
<1>9. wd'.count + tg.data_cnt = Sent'
  BY <1>1, <1>4, <1>8, PausedSent DEF KeepsData
<1>10. Counts' /\ Side' /\ Settled' /\ ~Target!data_done' /\ Pipe' /\ BytesInPlace'
  BY <1>1, <1>4, <1>5, <1>7, <1>9, PausedCounts DEF KeepsData, KeepsEnd, KeepsJob
<1>11. Common'
  BY <1>4, <1>5, <1>7, <1>10 DEF Common
<1>12. Paused'
  BY <1>1, <1>4, <1>6, <1>8, <1>10 DEF Paused, KeepsData, KeepsResult
<1>13. QED BY <1>11, <1>12

\* The segment is loaded, and the channel has room for it.
LEMMA PausedLoads ==
    ASSUME Common, DrvInv, NEW d, NEW c, NEW step, Tick(d, c, step), Paused, step = LoadsSegment,
           drv.pc = "segment", ~wd.int_pending
    PROVE  Common' /\ Paused'
<1> DEFINE s == drv.seg
           t == Upto(Job)
           armed == MoreRoom(Job.room[s])
           n == Job.count[s]
           r == Job.room[s]
<1>1. /\ wd.state = "ST_IDLE" /\ wd.paused /\ Given /\ Counts /\ Side
      /\ Settled /\ ~Target!data_done /\ wd.count = 0 /\ s > 1 /\ s \in 1..Len(Job.count)
      /\ drv.cmd = "C_SEL_ATN_XFER" /\ chan.room <= Sent /\ (Ample(Job) => chan.room = Sent)
  BY DEF Paused, Running, Given
<1>2. Sent = t[s - 1]
  BY DEF Sent
<1>3. Sound(Job) /\ Job.kind = "sat" /\ Sent \in Nat
  BY <1>1, SentBound DEF Common
<1>4. /\ t[s] = Sent + n /\ n \in Nat /\ r \in Nat /\ r <= n /\ (Ample(Job) => r = n)
  BY <1>1, <1>2, <1>3, Segments DEF Ample
<1>5. /\ step.access = Load([count |-> n]) /\ step.reset = FALSE /\ step.arms = {armed}
      /\ step.next = [At("issue") EXCEPT !.then = "result"]
  BY DEF LoadsSegment, Step
<1>6. step.reset = FALSE /\ step.arms = {armed}
  BY <1>5
<1>7. chan' = armed /\ drv' = step.next
  BY <1>1, <1>6, RestArms
<1>8. /\ chan'.op = chan.op /\ chan'.ack = FALSE /\ chan'.room = chan.room + r /\ chan'.moved = chan.moved
      /\ {"op", "ack", "room", "moved", "got", "ended"} \subseteq DOMAIN armed
  BY <1>7 DEF MoreRoom, Common, Shapes
<1>9. /\ ChipSat /\ Chip!Clock(Seen(step)) /\ ~Seen(step).chip_reset
      /\ Seen(step).access = step.access
  BY <1>1, <1>6, RestInput
<1>10. Seen(step).access = Load([count |-> n])
  BY <1>5, <1>9
<1>11. /\ drv'.jobs = drv.jobs /\ drv'.pc = "issue" /\ drv'.seg = s
       /\ drv'.cmd = drv.cmd /\ drv'.then = "result"
  BY <1>5, <1>7 DEF At, DrvInv, DrvOk
<1> HIDE DEF armed, t, n, r
<1>12. Shapes'
  BY <1>6, <1>8, ShapesStay DEF Common
<1>13. /\ ChipSat' /\ KeepsJob /\ KeepsEnd /\ KeepsResult
       /\ wd'.dma_in_data = wd.dma_in_data /\ wd'.dma_dir_in = wd.dma_dir_in
       /\ wd'.state = "ST_IDLE" /\ wd'.count = n
  BY <1>1, <1>4, <1>9, <1>10, RestCounts
<1>14. ChanSat'
  BY <1>4, <1>8 DEF ChanSat, Common
<1>15. DrvSat' /\ Job' = Job
  BY <1>11 DEF Common, DrvSat, Job
<1>16. Sent' = Sent + n
  <2>1. Sent' = Upto(Job)[s]
    BY <1>11, <1>15 DEF Sent
  <2>2. QED BY <1>4, <2>1 DEF t
<1>17. chan'.room <= Sent' /\ (Ample(Job) => chan'.room = Sent')
  <2>1. chan.room \in Nat
    BY DEF Common, ChanSat
  <2>2. QED BY <1>1, <1>3, <1>4, <1>8, <1>16, <2>1
<1>18. Given'
  <2>1. wd'.use_dma /\ wd'.cdb = <<<<"op", Job.op>>, <<"len", Job.len>>>> /\ wd'.cdb_len = 2 /\ chan.op = Job.op
    BY <1>1, <1>13 DEF Given, KeepsJob
  <2>2. drv.jobs # <<>>
    BY <1>1 DEF Given
  <2>3. QED BY <1>1, <1>3, <1>8, <1>11, <1>15, <1>17, <2>1, <2>2 DEF Given
<1>19. wd'.count + tg.data_cnt = Sent'
  <2>1. wd.count + tg.data_cnt = Sent /\ tg.data_cnt \in Nat
    BY <1>1, PausedSent
  <2>2. QED BY <1>1, <1>4, <1>13, <1>16, <2>1
<1>20. Counts' /\ Side' /\ Settled' /\ ~Target!data_done' /\ Pipe' /\ BytesInPlace'
  BY <1>1, <1>8, <1>13, <1>15, <1>19, PausedCounts DEF KeepsEnd, KeepsJob
<1>21. Common'
  BY <1>12, <1>13, <1>14, <1>15, <1>20 DEF Common
<1>22. Paused'
  BY <1>1, <1>11, <1>13, <1>18, <1>20 DEF Paused, KeepsResult
<1>23. QED BY <1>21, <1>22

\* The command is given again, and the job goes on.
LEMMA PausedResumes ==
    ASSUME Common, DrvInv, NEW d, NEW c, NEW step, Tick(d, c, step), Paused, step = Issues,
           drv.pc = "issue", ~wd.int_pending
    PROVE  Common' /\ Data'
<1>1. /\ wd.state = "ST_IDLE" /\ wd.paused /\ Given /\ Counts /\ Side
      /\ Settled /\ ~Target!data_done
      /\ drv.cmd = "C_SEL_ATN_XFER" /\ drv.then = "result"
  BY DEF Paused, Given, Giving
<1>2. /\ step.access = [kind |-> "command", value |-> drv.cmd] /\ step.reset = FALSE /\ step.arms = {}
      /\ step.next = At("check")
  BY DEF Issues, Step
<1>3. step.reset = FALSE /\ step.arms = {}
  BY <1>2
<1>4. /\ ChipSat /\ Chip!Clock(Seen(step)) /\ ~Seen(step).chip_reset
      /\ Seen(step).access = step.access
  BY <1>1, <1>3, RestInput
<1>5. CommandIs(Seen(step), "C_SEL_ATN_XFER")
  BY <1>1, <1>2, <1>4 DEF CommandIs
<1>6. Seen(step).bsy
  BY <1>1, BusSeen DEF Counts, DataStages
<1>7. /\ ChipSat' /\ KeepsData /\ KeepsEnd
      /\ wd'.cdb = wd.cdb /\ wd'.cdb_len = wd.cdb_len /\ wd'.use_dma = wd.use_dma
      /\ wd'.rst_timer = Chip!Down(wd.rst_timer) /\ ~wd'.lci
      /\ wd'.state = "ST_SAT_PHASE"
  BY <1>1, <1>4, <1>5, <1>6, RestResumes
<1>8. /\ chan'.ack = FALSE /\ chan'.moved = chan.moved /\ chan'.op = chan.op /\ chan'.room = chan.room
      /\ ChanSat' /\ Shapes' /\ drv' = step.next
  BY <1>1, <1>3, RestSees
<1>9. /\ drv'.jobs = drv.jobs /\ drv'.pc = "check" /\ drv'.seg = drv.seg
      /\ drv'.cmd = drv.cmd /\ drv'.then = drv.then
  BY <1>2, <1>8 DEF At, DrvInv, DrvOk
<1>10. DrvSat' /\ Job' = Job
  BY <1>9 DEF Common, DrvSat, Job
<1>11. Given' /\ Sent' = Sent
  BY <1>1, <1>7, <1>8, <1>9, GivenStays
<1>12. wd'.count + tg.data_cnt = Sent'
  BY <1>1, <1>7, <1>11, PausedSent DEF KeepsData
<1>13. Counts' /\ Side' /\ Settled' /\ ~Target!data_done' /\ Pipe' /\ BytesInPlace'
  BY <1>1, <1>7, <1>8, <1>10, <1>12, PausedCounts DEF KeepsData, KeepsEnd
<1>14. Common'
  BY <1>7, <1>8, <1>10, <1>13 DEF Common
<1>15. Data'
  BY <1>7, <1>9, <1>11, <1>13 DEF Data, Running, Moving, Following
<1>16. QED BY <1>14, <1>15

LEMMA PausedStep ==
    ASSUME Common, DrvInv, NEW d, NEW c, NEW step, Tick(d, c, step), Paused
    PROVE  Common' /\ (Paused \/ Data)'
<1>1. wd.state = "ST_IDLE" /\ ~wd.cip /\ Given
  BY DEF Paused, Common, ChipSat
<1>2. CASE Running /\ wd.count = 0 /\ wd.int_pending /\ wd.status \in Pauses
  <2>1. CASE step = TakesResult
    BY <1>2, <2>1, PausedTakes
  <2>2. CASE step # TakesResult
    <3>1. step = Waits \/ (step \in DrvSteps /\ step # TakesResult)
      BY <2>2 DEF Tick
    <3>2. QED BY <1>2, <3>1, PausedWaits
  <2>3. QED BY <2>1, <2>2
<1>3. CASE drv.pc = "segment" /\ ~wd.int_pending
  <2>1. step = Waits \/ step = LoadsSegment
    BY <1>3 DEF Tick, DrvSteps
  <2>2. QED BY <1>3, <2>1, PausedRests, PausedLoads
<1>4. CASE drv.pc = "issue" /\ ~wd.int_pending
  <2>1. step = Waits \/ step = Issues
    BY <1>4 DEF Tick, DrvSteps
  <2>2. QED BY <1>4, <2>1, PausedRests, PausedResumes
<1>5. QED BY <1>2, <1>3, <1>4 DEF Paused

-----------------------------------------------------------------------------
(* The invariant, and what follows from it.                                *)

\* What the plans are made of: jobs that IRIX gives.
PlansAreSound == \A plan \in Plans : SoundJobs(plan)

LEMMA InitSat ==
    ASSUME PlansAreSound, Init
    PROVE  SatInv
<1>1. ChipSat /\ wd.state = "ST_IDLE" /\ ~wd.paused /\ ~wd.int_pending /\ ~wd.ack
  <2>1. Regs \subseteq DOMAIN wd
    <3>1. DOMAIN wd = {"state", "dbr", "cip", "lci", "int_pending", "status", "cmd_phase", "count",
                       "cdb", "cdb_len", "dest", "target_lun", "use_dma", "sel", "atn", "ack",
                       "data_latch", "sel_timer", "bsy_q", "rst_timer", "dma_req", "dma_eop",
                       "dma_dir_in", "dma_wdata", "dma_in_data", "identify_sent", "cdb_sent", "cdb_idx",
                       "pause_cnt", "paused", "din_settle", "din_req_held", "din_ahead",
                       "pio_xfer", "pio_done", "pio_sbt", "pio_phase", "pio_left", "pio_settle",
                       "pio_ack_held"}
      BY DEF Init, Chip!Init
    <3>2. ASSUME NEW f \in Regs PROVE f \in DOMAIN wd
      BY <3>1, <3>2, SMTT(60) DEF Regs
    <3>3. QED BY <3>2
  <2>2. /\ wd.state = "ST_IDLE"
        /\ wd.ack = FALSE /\ wd.dma_req = FALSE /\ wd.sel = FALSE /\ wd.cip = FALSE
        /\ wd.int_pending = FALSE /\ wd.paused = FALSE
        /\ wd.pio_done = FALSE /\ wd.pio_xfer = FALSE
    BY DEF Init, Chip!Init
  <2>3. wd.pause_cnt = 0 /\ wd.count = 0 /\ wd.cmd_phase = 0 /\ wd.rst_timer = 0
    BY DEF Init, Chip!Init, Chip!CP_DISCONNECTED
  <2>4. wd.pause_cnt \in Nat /\ wd.count \in Nat /\ wd.cmd_phase \in Nat /\ wd.rst_timer \in Nat
    BY <2>3
  <2>5. QED BY <2>1, <2>2, <2>3, <2>4 DEF ChipSat
<1>2. /\ tg.phase = "IDLE" /\ Settled /\ Pipe
      /\ DOMAIN tg.cmd = 0..2 /\ ~tg.io_rd /\ ~tg.io_wr /\ ~tg.wr_pending /\ ~tg.rd_busy /\ ~tg.old_io_ack
  BY <1>1 DEF Init, Target!Init, Settled, Pipe
<1>3. DevIdle
  BY <1>2 DEF Init, DevIdle
<1>4. ChanSat /\ chan = Armed("none", 0)
  <2>1. chan = Armed("none", 0)
    BY DEF Init
  <2>2. chan.ack = FALSE /\ chan.room = 0 /\ chan.moved = 0
    BY <2>1 DEF Armed
  <2>3. QED BY <2>1, <2>2 DEF ChanSat
<1>5. Shapes
  BY <1>2, <1>4 DEF Init, Shapes, Armed
<1>6. DrvSat /\ Preparing
  <2>1. drv.pc = "job" /\ drv.seg = 1 /\ drv.jobs \in Plans
    BY DEF Init
  <2>2. QED BY <2>1 DEF DrvSat, Preparing, PlansAreSound
<1>7. BytesInPlace
  BY DEF Init, BytesInPlace
<1>8. Free
  BY <1>1, <1>2, <1>3, <1>6 DEF Free, OldResult
<1>9. QED BY <1>1, <1>2, <1>4, <1>5, <1>6, <1>7, <1>8 DEF SatInv, Stage

LEMMA SatClock ==
    ASSUME SatInv, DrvInv, PAUSE >= 2, NEW d, NEW c, NEW step, Tick(d, c, step)
    PROVE  SatInv'
<1>1. Common /\ Stage
  BY DEF SatInv, Common
<1>2. CASE Free
  BY <1>1, <1>2, FreeStep DEF SatInv, Common, Stage
<1>3. CASE Selecting
  BY <1>1, <1>3, SelectingStep DEF SatInv, Common, Stage
<1>4. CASE Selected
  BY <1>1, <1>4, SelectedStep DEF SatInv, Common, Stage
<1>5. CASE Stray
  BY <1>1, <1>5, StrayStep DEF SatInv, Common, Stage
<1>6. CASE Identifying
  BY <1>1, <1>6, IdentifyingStep DEF SatInv, Common, Stage
<1>7. CASE Commanding
  BY <1>1, <1>7, CommandingStep DEF SatInv, Common, Stage
<1>8. CASE Data
  BY <1>1, <1>8, DataStep DEF SatInv, Common, Stage
<1>9. CASE Paused
  BY <1>1, <1>9, PausedStep DEF SatInv, Common, Stage
<1>10. CASE Stuck
  BY <1>1, <1>10, StuckStep DEF SatInv, Common, Stage
<1>11. CASE Resetted
  BY <1>1, <1>11, ResettedStep DEF SatInv, Common, Stage
<1>12. CASE Statusing
  BY <1>1, <1>12, StatusingStep DEF SatInv, Common, Stage
<1>13. CASE Messaging
  BY <1>1, <1>13, MessagingStep DEF SatInv, Common, Stage
<1>14. CASE Leaving
  BY <1>1, <1>14, LeavingStep DEF SatInv, Common, Stage
<1>15. CASE Ended
  BY <1>1, <1>15, EndedStep DEF SatInv, Common, Stage
<1>16. QED
  BY <1>1, <1>2, <1>3, <1>4, <1>5, <1>6, <1>7, <1>8, <1>9, <1>10, <1>11, <1>12, <1>13, <1>14, <1>15
  DEF Stage

LEMMA SatNext ==
    ASSUME SatInv, DrvInv, PAUSE >= 2, Next
    PROVE  SatInv'
<1>1. PICK d \in BOOLEAN, c \in BOOLEAN, s \in BOOLEAN : ClockOf(d, c, s)
  BY DEF Next
<1>2. PICK step \in IF s THEN DrvSteps ELSE {Waits} : ClockWith(d, c, step)
  BY <1>1 DEF ClockOf
<1>3. (d => DevCanMove) /\ (c => ChanCanMove)
  BY <1>1 DEF ClockOf
<1>4. Tick(d, c, step)
  BY <1>2, <1>3 DEF Tick
<1>5. QED BY <1>4, SatClock

\* Nothing moves.
LEMMA SatStutters ==
    ASSUME SatInv, UNCHANGED vars
    PROVE  SatInv'
<1>1. /\ wd' = wd /\ tg' = tg /\ ram' = ram /\ dev' = dev /\ image' = image /\ chan' = chan /\ drv' = drv
  BY DEF vars
<1>2. ChipSat' /\ Pipe' /\ ChanSat' /\ DrvSat' /\ Shapes' /\ BytesInPlace'
  BY <1>1 DEF SatInv, ChipSat, Pipe, ChanSat, DrvSat, Shapes, BytesInPlace, Settled
<1>3. /\ (Settled' <=> Settled) /\ (DevIdle' <=> DevIdle) /\ (Preparing' <=> Preparing)
      /\ (OldResult' <=> OldResult) /\ (Running' <=> Running) /\ (Fresh' <=> Fresh) /\ (Given' <=> Given)
      /\ (Late' <=> Late) /\ Job' = Job /\ Sent' = Sent
  <2>1. Job' = Job
    BY <1>1 DEF Job
  <2>2. Sent' = Sent
    BY <1>1, <2>1 DEF Sent
  <2>3. Given' <=> Given
    BY <1>1, <2>1, <2>2 DEF Given
  <2>4. QED
    BY <1>1, <2>1, <2>2, <2>3 DEF Settled, DevIdle, Preparing, OldResult, Running, Fresh, Late
<1>4. /\ Target!Op' = Target!Op /\ Target!data_len' = Target!data_len
      /\ (Target!data_done' <=> Target!data_done) /\ (Target!req_wr' <=> Target!req_wr)
      /\ (Target!req_rd' <=> Target!req_rd) /\ (io_ack' <=> io_ack)
  <2>1. Target!Op' = Target!Op
    BY <1>1 DEF Target!Op
  <2>2. Target!data_len' = Target!data_len
    BY <1>1, <2>1 DEF Target!data_len
  <2>3. QED
    BY <1>1, <2>1, <2>2
    DEF Target!data_done, Target!req_wr, Target!req_rd, Target!cmd_read, Target!cmd_write,
        Target!rd_cur_blk, io_ack
<1>5. (Edge' <=> Edge) /\ (Flying' <=> Flying) /\ Stored' = Stored /\ (Accepted' <=> Accepted)
      /\ (TargetRests' <=> TargetRests)
  BY <1>1, <1>3, <1>4 DEF Edge, Flying, Stored, Accepted, TargetRests
<1>6. Writes' <=> Writes
  <2>1. (\A p \in 0..(tg.data_cnt - 1) : p >= tg.lba * BLOCK => BufferAt(p) = <<"mem", p + 1>>)'
        <=> (\A p \in 0..(tg.data_cnt - 1) : p >= tg.lba * BLOCK => BufferAt(p) = <<"mem", p + 1>>)
    BY <1>1 DEF BufferAt
  <2>2. QED BY <1>1, <1>5, <2>1 DEF Writes, Bit
<1>7. (Sends' <=> Sends) /\ (Receives' <=> Receives)
  BY <1>1, <1>3, <1>4, <1>5, <1>6 DEF Sends, Receives
<1>8. DataLength(Job)' = DataLength(Job)
  BY <1>3 DEF DataLength
<1>9. (Counts' <=> Counts) /\ (Side' <=> Side)
  <2>1. Counts' <=> Counts
    BY <1>1, <1>3, <1>4, <1>5, <1>8 DEF Counts, Bit
  <2>2. Side' <=> Side
    BY <1>1, <1>3, <1>7 DEF Side
  <2>3. QED BY <2>1, <2>2
<1>10. (Still' <=> Still) /\ (Ending' <=> Ending) /\ (EopDone' <=> EopDone) /\ (Written' <=> Written)
  BY <1>1, <1>3, <1>4, <1>5, <1>8 DEF Still, Ending, EopDone, Written
<1>11. Done' <=> Done
  BY <1>1, <1>10 DEF Done
<1>12. /\ (Free' <=> Free) /\ (Selecting' <=> Selecting) /\ (Selected' <=> Selected) /\ (Stray' <=> Stray)
       /\ (Identifying' <=> Identifying)
  BY <1>1, <1>3 DEF Free, Selecting, Selected, Stray, Identifying
<1>13. Commanding' <=> Commanding
  BY <1>1, <1>3 DEF Commanding, Bit
<1>14. (Data' <=> Data) /\ (Paused' <=> Paused)
  BY <1>1, <1>3, <1>4, <1>9 DEF Data, Paused
<1>15. (Stuck' <=> Stuck) /\ (Resetted' <=> Resetted)
  BY <1>1, <1>3, <1>10 DEF Stuck, Resetted
<1>16. (Statusing' <=> Statusing) /\ (Messaging' <=> Messaging) /\ (Leaving' <=> Leaving) /\ (Ended' <=> Ended)
  BY <1>1, <1>3, <1>4, <1>5, <1>6, <1>10, <1>11 DEF Statusing, Messaging, Leaving, Ended
<1>17. Stage'
  BY <1>12, <1>13, <1>14, <1>15, <1>16 DEF SatInv, Stage
<1>18. QED BY <1>2, <1>17 DEF SatInv

LEMMA OutcomeFollows ==
    ASSUME SatInv, DrvInv
    PROVE  OutcomeIsTrue
<1>1. Common /\ Stage
  BY DEF SatInv, Common
<1>2. ASSUME Reports({<<"S_SELECT_XFER_OK">>})
      PROVE  /\ wd.target_lun[1] = "status" /\ chan.moved = chan.room
             /\ chan.moved > 0 => chan.ended
             /\ chan.op = "write" => \A p \in 0..(chan.moved - 1) : image[p] = <<"mem", p + 1>>
  <2>1. wd.int_pending /\ wd.status = <<"S_SELECT_XFER_OK">> /\ wd.state = "ST_IDLE"
    BY <1>1, <1>2 DEF Reports, Common, ChipSat
  <2>2. Ended
    BY <1>1, <2>1 DEF Stage, Free, Selecting, Selected, Stray, Identifying, Commanding, Data, Paused,
           Stuck, Resetted, Statusing, Messaging, Leaving, OldResult, Pauses, Moving, Following, Running
  <2>3. Done /\ (chan.moved > 0 => chan.ended)
    BY <2>1, <2>2 DEF Ended
  <2>4. /\ chan.moved = DataLength(Job) /\ chan.moved = chan.room /\ wd.target_lun[1] = "status"
        /\ chan.op = Job.op /\ Written
    BY <2>3 DEF Done, Ending, Running, Given
  <2>5. chan.op = "write" => \A p \in 0..(chan.moved - 1) : image[p] = <<"mem", p + 1>>
    BY <2>4 DEF Written, DataLength
  <2>6. QED BY <2>3, <2>4, <2>5
<1>3. ASSUME Reports(Pauses)
      PROVE  tg.phase \in {"DATA_OUT", "DATA_IN"} /\ tg.data_cnt < Target!data_len
  <2>1. wd.int_pending /\ wd.status \in Pauses /\ wd.state = "ST_IDLE"
    BY <1>1, <1>3 DEF Reports, Common, ChipSat
  <2>2. Paused
    BY <1>1, <2>1 DEF Stage, Free, Selecting, Selected, Stray, Identifying, Commanding, Data, Ended,
           Stuck, Resetted, Statusing, Messaging, Leaving, OldResult, Pauses, Moving, Following
  <2>3. /\ Given /\ Accepted /\ tg.phase \in DataStages /\ ~Target!data_done
        /\ tg.data_cnt \in Nat /\ tg.data_cnt <= DataLength(Job)
        /\ tg.data_complete <=> (tg.data_cnt = DataLength(Job) /\ DataLength(Job) # 0)
    BY <2>2 DEF Paused, Counts
  <2>4. DataLength(Job) \in Nat
    BY <1>1, <2>3, SentBound DEF Common
  <2>5. Target!data_len = DataLength(Job)
    BY <2>3 DEF Accepted, Target!data_len, DataLength
  <2>6. tg.data_cnt < DataLength(Job)
    BY <2>3, <2>4, <2>5 DEF Target!data_done
  <2>7. QED BY <2>3, <2>5, <2>6 DEF DataStages
<1>4. QED BY <1>2, <1>3 DEF OutcomeIsTrue

LEMMA SatIsInvariant ==
    ASSUME PlansAreSound, PAUSE >= 2
    PROVE  Spec => [](SatInv /\ DrvInv)
<1>1. Init => IInv /\ SatInv
  BY InitInv, InitSat
<1>2. (IInv /\ SatInv) /\ [Next]_vars => (IInv /\ SatInv)'
  <2>1. IInv => DrvInv
    BY DEF IInv
  <2>2. ASSUME IInv, SatInv, Next PROVE (IInv /\ SatInv)'
    BY <2>1, <2>2, InvStep, SatNext
  <2>3. ASSUME IInv, SatInv, UNCHANGED vars PROVE (IInv /\ SatInv)'
    <3>1. IInv'
      BY <2>3 DEF vars, IInv, ChipInv, ChanInv, DrvInv, Relies, Quiet
    <3>2. QED BY <2>3, <3>1, SatStutters
  <2>4. QED BY <2>2, <2>3
<1>3. IInv /\ SatInv => SatInv /\ DrvInv
  BY DEF IInv
<1>4. QED BY <1>1, <1>2, <1>3, PTL DEF Spec

\* A sector's place keeps what it held or gets the byte written to it: with the
\* device, the ring's halves and the handshake one clock apart from each other,
\* no byte of a buffer goes to another place, for any sector size, any jobs
\* IRIX gives and any segments of them (wd33c93.sv:1519, scsi.v:516).
THEOREM BytesKeepPlaces ==
    ASSUME PlansAreSound, PAUSE >= 2
    PROVE  Spec => []BytesInPlace
<1>1. Spec => [](SatInv /\ DrvInv)
  BY SatIsInvariant
<1>2. SatInv /\ DrvInv => BytesInPlace
  BY DEF SatInv
<1>3. QED BY <1>1, <1>2, PTL

\* A success or a pause the chip reports is the truth, whatever the segments
\* and the order in which the device, the channel and the driver come to it: a
\* success only when every byte is moved, the channel told, and what was written
\* on the medium (wd33c93.sv:1267, 1565).
THEOREM OutcomesAreTrue ==
    ASSUME PlansAreSound, PAUSE >= 2
    PROVE  Spec => []OutcomeIsTrue
<1>1. Spec => [](SatInv /\ DrvInv)
  BY SatIsInvariant
<1>2. SatInv /\ DrvInv => OutcomeIsTrue
  BY OutcomeFollows
<1>3. QED BY <1>1, <1>2, PTL

=============================================================================
