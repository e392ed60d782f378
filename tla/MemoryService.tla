--------------------------- MODULE MemoryService ----------------------------
(***************************************************************************)
(* What the memory path promises its masters, without the arbiter, the     *)
(* bridge or the wires: a master asks for some words, from main memory or  *)
(* from a device, and is answered exactly those words, one at a time.      *)
(* Main memory serves one master at a time, from its grant to its last     *)
(* word; nobody is answered a word it did not ask for.                     *)
(*                                                                         *)
(* One step is one clock, in which any number of masters may ask, main     *)
(* memory may answer its holder and a device may answer another master.    *)
(***************************************************************************)
EXTENDS Naturals

CONSTANTS Masters, MaxWords, None

VARIABLES
    owed,     \* owed[m]: the words master m still waits for, and from where
    holder    \* the master main memory is serving

serviceVars == <<owed, holder>>

Nothing == [words |-> 0, from |-> "ram"]
Requests == [words : 1..MaxWords, from : {"ram", "device"}]

Init == owed = [m \in Masters |-> Nothing] /\ holder = None

MayBeAnswered(m) ==
    /\ owed[m].words > 0
    /\ owed[m].from = "ram" => holder = m

LessOne(r) == IF r.words = 1 THEN Nothing ELSE [r EXCEPT !.words = @ - 1]

\* The last word may be followed by the next request in the same clock.
Answered(m) ==
    /\ MayBeAnswered(m)
    /\ \/ owed'[m] = LessOne(owed[m])
       \/ owed[m].words = 1 /\ owed'[m] \in Requests

Asks(m) == owed[m].words = 0 /\ owed'[m] \in Requests

\* Main memory changes hands only when the holder has its last word.
Granted == /\ holder = None
           /\ holder' \in {m \in Masters : owed[m].words > 0 /\ owed[m].from = "ram"}
Released == /\ holder # None
            /\ owed[holder].words = 1 /\ Answered(holder)
            /\ holder' = None

Next ==
    /\ DOMAIN owed' = Masters
    /\ \A m \in Masters : owed'[m] = owed[m] \/ Answered(m) \/ Asks(m)
    /\ Granted \/ Released \/ UNCHANGED holder
    \* a master that waits for nothing holds nothing
    /\ holder' # None => owed'[holder'].words > 0

Spec == Init /\ [][Next]_serviceVars

=============================================================================
