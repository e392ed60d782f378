------------------------------ MODULE FbFetch -------------------------------
(***************************************************************************)
(* The display's side of the burst port: rtl/mister/fb_fetch_arb.sv and    *)
(* the fill engines of the two rtl/mister/fb_linecache.sv in front of it   *)
(* (reader 0 the drawing planes, reader 1 the auxiliary ones).             *)
(*                                                                         *)
(* A fill engine fetches a line of LineWords in bursts of at most Burst.   *)
(* Which line, the ring of buffers and the zero lines are left out; when a *)
(* fill starts is the cache's own affair, any clock at all here.           *)
(***************************************************************************)
EXTENDS Naturals

CONSTANTS LineWords, Burst

VARIABLES
    sel_valid, sel_b,     \* a request is presented, for reader B
    busy, owner_b, left,  \* a burst is in flight, for reader B, words to come
    fst, fill_pos, burst_left   \* the fill engines

fetchVars == <<sel_valid, sel_b, busy, owner_b, left, fst, fill_pos, burst_left>>

Readers == 0..1
Reader(b) == IF b THEN 1 ELSE 0

Init ==
    /\ sel_valid = FALSE /\ sel_b = FALSE
    /\ busy = FALSE /\ owner_b = FALSE /\ left = 0
    /\ fst = [r \in Readers |-> "F_IDLE"]
    /\ fill_pos = [r \in Readers |-> 0] /\ burst_left = [r \in Readers |-> 0]

BurstOf(r) == IF LineWords - fill_pos[r] < Burst THEN LineWords - fill_pos[r]
              ELSE Burst

Selected == sel_b

\* The burst port.
Request(none) ==
    LET r == Reader(Selected) IN
    IF sel_valid
    THEN [we |-> FALSE, addr |-> r, word |-> fill_pos[r], words |-> BurstOf(r)]
    ELSE none

TakenFor(r, taken) == taken /\ sel_valid /\ Reader(Selected) = r
ValidFor(r, valid) == valid /\ busy /\ Reader(owner_b) = r

\* Strictly one burst in flight; a winner stays chosen until it is taken.
Arbitrate(taken, valid) ==
    /\ \/ /\ sel_valid /\ taken
          /\ sel_valid' = FALSE /\ busy' = TRUE
          /\ owner_b' = Selected /\ left' = BurstOf(Reader(Selected))
          /\ UNCHANGED sel_b
       \/ /\ ~(sel_valid /\ taken)
          /\ \/ /\ ~sel_valid /\ ~busy /\ \E r \in Readers : fst[r] = "F_REQ"
                /\ sel_valid' = TRUE /\ sel_b' = (fst[0] # "F_REQ")
             \/ /\ sel_valid \/ busy \/ \A r \in Readers : fst[r] # "F_REQ"
                /\ UNCHANGED <<sel_valid, sel_b>>
          /\ left' = IF busy /\ valid THEN left - 1 ELSE left
          /\ busy' = (busy /\ ~(valid /\ left <= 1))
          /\ UNCHANGED owner_b

\* What one fill engine does: [fst, fill_pos, burst_left] after the clock.
Fill(r, taken, valid, filling) ==
    LET now == [fst |-> fst[r], fill_pos |-> fill_pos[r], burst_left |-> burst_left[r]]
    IN
    CASE fst[r] = "F_IDLE" ->
            IF r \in filling THEN {now, [now EXCEPT !.fst = "F_REQ", !.fill_pos = 0]}
            ELSE {now}
      [] fst[r] = "F_REQ" /\ TakenFor(r, taken) ->
            {[now EXCEPT !.fst = "F_DATA", !.burst_left = BurstOf(r)]}
      [] fst[r] = "F_DATA" /\ ValidFor(r, valid) ->
            {[fst |-> IF burst_left[r] > 1 THEN "F_DATA"
                      ELSE IF fill_pos[r] + 1 >= LineWords THEN "F_IDLE"
                      ELSE "F_REQ",
              fill_pos |-> fill_pos[r] + 1, burst_left |-> burst_left[r] - 1]}
      [] OTHER -> {now}

Clock(taken, valid, filling) ==
    /\ Arbitrate(taken, valid)
    /\ \E a \in Fill(0, taken, valid, filling), b \in Fill(1, taken, valid, filling) :
          LET next == [r \in Readers |-> IF r = 0 THEN a ELSE b] IN
          /\ fst' = [r \in Readers |-> next[r].fst]
          /\ fill_pos' = [r \in Readers |-> next[r].fill_pos]
          /\ burst_left' = [r \in Readers |-> next[r].burst_left]

=============================================================================
