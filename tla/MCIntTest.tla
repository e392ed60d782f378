----------------------------- MODULE MCIntTest -----------------------------
(* IntTest with counts of two bytes of four values, and its programs.      *)
EXTENDS IntTest

\* A key hit and let go during POST; keys and a move of the mouse for a driver
\* and, with one that finds no room, for a guest that does not read.
Tap == <<Key(FALSE, TRUE, 30), Key(TRUE, FALSE, 30)>>
MCKeyboard ==
    {Post(Tap), Driver(<<Key(TRUE, FALSE, 30), Move(1, 2), Key(FALSE, TRUE, 31)>>, 5),
     Lazy(<<Key(TRUE, FALSE, 30), Key(TRUE, FALSE, 31), Move(1, 2), Key(FALSE, TRUE, 32),
            Move(3, 4)>>)}
MCPrograms ==
    {Inttest, Calibrate, Clocks(13, 11, {4, 5}), Clocks(12, 13, {4})} \union MCKeyboard

\* The programs are those of the theorems about LatchedReadWhole and OneEntryPerExpiry.
ASSUME CountsAreLatched == \A p \in MCPrograms : ReadsLatched(p)
ASSUME ClearsAreReadBack == \A p \in MCPrograms : ReadsBack(p)
=============================================================================
