----------------------------- MODULE CpuMemPort -----------------------------
(***************************************************************************)
(* The CPU's end of the memory path: the memory stage of                   *)
(* rtl/cpu/r4300/cpu.vhd, which issues one access at a time and waits for  *)
(* mem_done, and the fill window of the cache the line is for              *)
(* (cpu_instrcache.vhd and cpu_datacache.vhd have the same one), which     *)
(* writes the beats of a line into the cache RAM.                          *)
(*                                                                         *)
(* An access is [rnw, words, to, id]: "to" says whether its address is     *)
(* main memory or a device that answers one word at a time, and "id"       *)
(* counts the accesses modulo NumIds, so that an answer to an earlier one  *)
(* can be told apart.                                                      *)
(***************************************************************************)
EXTENDS Naturals

CONSTANTS Accesses, NumIds, NoData

VARIABLES
    memstate,       \* "MEMSTATE_IDLE", "MEMSTATE_BUSY"
    mem_request,    \* a request to r4300_bus, for one clock
    access,         \* its payload, held until mem_done
    ram_active,     \* this access is a line fill of the cache
    fill_active,    \* the cache's fill window is open ...
    window_beat,    \* ... and this is the doubleword it writes next
    line            \* the cache RAM: what each doubleword of the line holds

cpuVars == <<memstate, mem_request, access, ram_active,
             fill_active, window_beat, line>>

Init ==
    /\ memstate = "MEMSTATE_IDLE" /\ mem_request = FALSE
    /\ access = [rnw |-> TRUE, words |-> 1, to |-> "device", id |-> 0]
    /\ ram_active = FALSE /\ fill_active = FALSE /\ window_beat = 0
    /\ line = [i \in 0..3 |-> NoData]

\* The next access comes out of the write FIFO.
Issue ==
    /\ memstate = "MEMSTATE_IDLE"
    /\ \E a \in Accesses :
          /\ access' = [rnw |-> a.rnw, words |-> a.words, to |-> a.to,
                        id |-> (access.id + 1) % NumIds]
          /\ ram_active' = (a.rnw /\ a.words > 1)
    /\ memstate' = "MEMSTATE_BUSY" /\ mem_request' = TRUE

\* mem_done lets the stage go back for the next one.
Retire(mem_done) ==
    /\ memstate = "MEMSTATE_BUSY" /\ mem_done
    /\ memstate' = "MEMSTATE_IDLE" /\ mem_request' = FALSE
    /\ ram_active' = FALSE
    /\ UNCHANGED access

StageWaits(mem_done) ==
    /\ ~(memstate = "MEMSTATE_BUSY" /\ mem_done)
    /\ mem_request' = FALSE
    /\ UNCHANGED <<memstate, access, ram_active>>

\* The grant opens the window at the line's first doubleword; a beat that
\* falls on the grant is written there and counted.
Window(fill_grant, ready) ==
    LET grant == fill_grant /\ ram_active IN
    \/ /\ grant
       /\ fill_active' = TRUE
       /\ window_beat' = IF ready THEN 1 ELSE 0
    \/ /\ ~grant /\ ~ram_active
       /\ fill_active' = FALSE
       /\ UNCHANGED window_beat
    \/ /\ ~grant /\ ram_active
       /\ fill_active' = (fill_active /\ ~(ready /\ window_beat = 3))
       /\ window_beat' = IF fill_active /\ ready /\ window_beat # 3
                         THEN window_beat + 1 ELSE window_beat

CacheWrite(fill_grant, ready, data) ==
    LET grant == fill_grant /\ ram_active
        wr    == (fill_active \/ grant) /\ ready /\ ram_active
        addr  == IF grant THEN 0 ELSE window_beat
    IN  line' = IF wr THEN [line EXCEPT ![addr] = data] ELSE line

Clock(mem_done, fill_grant, ready, data) ==
    /\ Issue \/ Retire(mem_done) \/ StageWaits(mem_done)
    /\ Window(fill_grant, ready)
    /\ CacheWrite(fill_grant, ready, data)

=============================================================================
