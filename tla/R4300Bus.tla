------------------------------ MODULE R4300Bus ------------------------------
(***************************************************************************)
(* rtl/cpu/r4300_bus.sv: the bridge between the R4300's mem_* port and the *)
(* SGI bus.  One clock edge is one Clock step; its parameters are the      *)
(* values on the module's inputs in the clock that ends.                   *)
(*                                                                         *)
(* Data abstraction: an access is a record [rnw, words], where words is    *)
(* the number of doublewords it moves; the address is kept as the index    *)
(* of a doubleword in its line (bus_beat).  Byte lanes are left out.       *)
(***************************************************************************)
EXTENDS Naturals

VARIABLES
    state,       \* "S_IDLE", "S_BUSY", "S_FILL"
    bus_req,     \* a request, for one clock
    bus_we,
    bus_beat,    \* bus_addr, as a doubleword of the line
    bus_burst,   \* doublewords wanted
    fill_beat,   \* the beat in flight
    fill_last,   \* index of the line's last beat
    fill_grant,  \* arms the cache's fill window, for one clock
    mem_done     \* the access is complete, for one clock

busVars == <<state, bus_req, bus_we, bus_beat, bus_burst,
             fill_beat, fill_last, fill_grant, mem_done>>

Init ==
    /\ state = "S_IDLE"
    /\ bus_req = FALSE /\ fill_grant = FALSE /\ mem_done = FALSE
    /\ bus_we = FALSE /\ bus_beat = 0 /\ bus_burst = 1
    /\ fill_beat = 0 /\ fill_last = 0

IsFill(access) == access.rnw /\ access.words > 1

\* The beats go straight through to the cache that asked for the line.
FillDataReady(bus_ack) == state = "S_FILL" /\ bus_ack

\* Mutant: a short line asked for, and counted, one doubleword short.
StartFillShort(access) ==
    /\ state = "S_IDLE" /\ IsFill(access)
    /\ state' = "S_FILL"
    /\ bus_req' = TRUE /\ bus_we' = FALSE
    /\ bus_beat' = 0 /\ bus_burst' = access.words - 1
    /\ fill_beat' = 0 /\ fill_last' = access.words - 2
    /\ fill_grant' = TRUE /\ mem_done' = FALSE

\* A line fill is one burst request; the grant goes out with it.
StartFill(access) ==
    /\ state = "S_IDLE" /\ IsFill(access)
    /\ state' = "S_FILL"
    /\ bus_req' = TRUE /\ bus_we' = FALSE
    /\ bus_beat' = 0 /\ bus_burst' = access.words
    /\ fill_beat' = 0 /\ fill_last' = access.words - 1
    /\ fill_grant' = TRUE /\ mem_done' = FALSE

\* A single access, or a line write: one request, one acknowledgement.
StartAccess(access) ==
    /\ state = "S_IDLE" /\ ~IsFill(access)
    /\ state' = "S_BUSY"
    /\ bus_req' = TRUE /\ bus_we' = ~access.rnw
    /\ bus_beat' = 0 /\ bus_burst' = access.words
    /\ fill_grant' = FALSE /\ mem_done' = FALSE
    /\ UNCHANGED <<fill_beat, fill_last>>

AccessAnswered ==
    /\ state = "S_BUSY"
    /\ state' = "S_IDLE" /\ mem_done' = TRUE
    /\ bus_req' = FALSE /\ fill_grant' = FALSE
    /\ UNCHANGED <<bus_we, bus_beat, bus_burst, fill_beat, fill_last>>

LastBeat ==
    /\ state = "S_FILL" /\ fill_beat = fill_last
    /\ state' = "S_IDLE" /\ mem_done' = TRUE
    /\ bus_req' = FALSE /\ fill_grant' = FALSE
    /\ UNCHANGED <<bus_we, bus_beat, bus_burst, fill_beat, fill_last>>

\* Mutant: the remainder counted from the next beat.
NextBeatShort(bus_last) ==
    /\ state = "S_FILL" /\ fill_beat # fill_last
    /\ fill_beat' = (fill_beat + 1) % 4
    /\ bus_beat' = bus_beat + 1
    /\ bus_req' = bus_last
    /\ bus_burst' = IF bus_last THEN fill_last - fill_beat - 1 ELSE bus_burst
    /\ mem_done' = FALSE /\ fill_grant' = FALSE
    /\ UNCHANGED <<state, bus_we, fill_last>>

\* The address follows the beats.  A responder that stops short of the line
\* is asked for all of the remainder.
NextBeat(bus_last) ==
    /\ state = "S_FILL" /\ fill_beat # fill_last
    /\ fill_beat' = (fill_beat + 1) % 4
    /\ bus_beat' = bus_beat + 1
    /\ bus_req' = bus_last
    /\ bus_burst' = IF bus_last THEN fill_last - fill_beat ELSE bus_burst
    /\ mem_done' = FALSE /\ fill_grant' = FALSE
    /\ UNCHANGED <<state, bus_we, fill_last>>

\* Nothing to do: the one-clock pulses fall.
Quiet ==
    /\ bus_req' = FALSE /\ mem_done' = FALSE /\ fill_grant' = FALSE
    /\ UNCHANGED <<state, bus_we, bus_beat, bus_burst, fill_beat, fill_last>>

Clock(mem_request, access, bus_ack, bus_last) ==
    \/ mem_request /\ (StartFill(access) \/ StartAccess(access))
    \/ bus_ack /\ (AccessAnswered \/ LastBeat \/ NextBeat(bus_last))
    \/ /\ ~(state = "S_IDLE" /\ mem_request)
       /\ ~(state # "S_IDLE" /\ bus_ack)
       /\ Quiet

=============================================================================
