------------------------------- MODULE I8042 -------------------------------
(***************************************************************************)
(* The keyboard and mouse controller of rtl/sgi/i8042.sv and both devices  *)
(* behind it.  Clock(acc, ps2) is one edge: acc is the access of the bus,  *)
(* [op |-> "none"], [op |-> "rd", cmd] or [op |-> "wr", cmd, din], cmd for *)
(* the command/status port; ps2 is the host's two inputs, [key |-> [tog,   *)
(* bytes], mouse |-> [tog, bytes]], with the bytes the guest is to be      *)
(* given.  A byte of the queue is [aux, data].  What is stored and never   *)
(* read back, the mouse's resolution and rate, is left out.                *)
(***************************************************************************)
EXTENDS Naturals, Sequences

CONSTANTS QDEPTH  \* 32

VARIABLES
    queue,
    push,       \* the byte requested last clock: <<>> or <<byte>>
    pend,       \* the rest of an answer of several bytes
    config_byte, next_write_is_mouse, kbd_scanning, mouse_enabled,
    arg_state,  \* "NONE", "CONFIG", "LOOP", "KBD" or "MOUSE"
    key_tog_q, mouse_tog_q,
    key_left, mouse_left  \* what key_busy and mouse_busy have still to send

kbdVars == <<queue, push, pend, config_byte, next_write_is_mouse, kbd_scanning,
             mouse_enabled, arg_state, key_tog_q, mouse_tog_q, key_left, mouse_left>>

Init ==
    /\ queue = <<>> /\ push = <<>> /\ pend = <<>> /\ config_byte = \h47
    /\ next_write_is_mouse = FALSE /\ kbd_scanning = TRUE /\ mouse_enabled = FALSE
    /\ arg_state = "NONE" /\ key_tog_q = FALSE /\ mouse_tog_q = FALSE
    /\ key_left = <<>> /\ mouse_left = <<>>

Bit(c, b) == (c \div 2^b) % 2 = 1
SetBit(c, b) == IF Bit(c, b) THEN c ELSE c + 2^b
ClearBit(c, b) == IF Bit(c, b) THEN c - 2^b ELSE c

Full == Len(queue) >= QDEPTH - 4

\* irq_kbd | irq_mouse.
Irq == queue # <<>> /\ Bit(config_byte, IF Head(queue).aux THEN 1 ELSE 0)

\* The status is its bit 0, the byte waiting.  Both are as of the access.
Obf == queue # <<>>

Dout == IF queue = <<>> THEN 0 ELSE Head(queue).data

Tagged(aux, bytes) == [i \in DOMAIN bytes |-> [aux |-> aux, data |-> bytes[i]]]

First(bytes) == IF bytes = <<>> THEN <<>> ELSE <<Head(bytes)>>

\* The first byte goes with the command, the others are staged.
Answers(aux, bytes) ==
    /\ push' = First(Tagged(aux, bytes))
    /\ pend' = IF Len(bytes) > 1 THEN Tail(Tagged(aux, bytes)) ELSE pend

CommandPort(c) ==
    /\ next_write_is_mouse' = (c = \hD4)
    /\ arg_state' = CASE c = \h60 -> "CONFIG" [] c = \hD3 -> "LOOP" [] OTHER -> "NONE"
    /\ config_byte' = CASE c = \hA7 -> SetBit(config_byte, 5)
                        [] c = \hA8 -> ClearBit(config_byte, 5)
                        [] c = \hAD -> SetBit(config_byte, 4)
                        [] c = \hAE -> ClearBit(config_byte, 4)
                        [] OTHER -> config_byte
    /\ Answers(FALSE, CASE c = \hAA -> <<\h55, \hAA>>
                        [] c \in {\hA9, \hAB} -> <<0>>
                        [] c = \h20 -> <<config_byte>>
                        [] OTHER -> <<>>)
    /\ UNCHANGED <<kbd_scanning, mouse_enabled>>

Argument(d) ==
    /\ arg_state # "NONE" /\ arg_state' = "NONE"
    /\ config_byte' = IF arg_state = "CONFIG" THEN d ELSE config_byte
    /\ Answers(arg_state \in {"LOOP", "MOUSE"},
               CASE arg_state = "CONFIG" -> <<>> [] arg_state = "LOOP" -> <<d>>
                 [] OTHER -> <<\hFA>>)
    /\ UNCHANGED <<next_write_is_mouse, kbd_scanning, mouse_enabled>>

MouseCommand(d) ==
    /\ arg_state = "NONE" /\ next_write_is_mouse /\ next_write_is_mouse' = FALSE
    /\ mouse_enabled' = (d = \hF4 \/ (mouse_enabled /\ d \notin {\hFF, \hF5}))
    /\ arg_state' = IF d \in {\hF3, \hE8} THEN "MOUSE" ELSE "NONE"
    /\ Answers(TRUE, CASE d = \hFF -> <<\hFA, \hAA, 0>> [] d = \hF2 -> <<\hFA, 0>>
                       [] OTHER -> <<\hFA>>)
    /\ UNCHANGED <<config_byte, kbd_scanning>>

KeyboardCommand(d) ==
    /\ arg_state = "NONE" /\ ~next_write_is_mouse
    /\ kbd_scanning' = (d \in {\hFF, \hF4} \/ (kbd_scanning /\ d # \hF5))
    /\ arg_state' = IF d \in {\hED, \hF0, \hF3} THEN "KBD" ELSE "NONE"
    /\ Answers(FALSE, CASE d = \hFF -> <<\hFA, \hAA>> [] d = \hF2 -> <<\hFA, \hAB, \h83>>
                        [] OTHER -> <<\hFA>>)
    /\ UNCHANGED <<config_byte, next_write_is_mouse, mouse_enabled>>

Writes(acc) ==
    /\ IF acc.cmd THEN CommandPort(acc.din)
       ELSE Argument(acc.din) \/ MouseCommand(acc.din) \/ KeyboardCommand(acc.din)
    /\ UNCHANGED <<key_tog_q, mouse_tog_q, key_left, mouse_left>>

\* An event is taken whole, or dropped where it cannot be had or has no room.
KeyEvent(key) ==
    /\ key_tog_q' = key.tog
    /\ key_left' = IF kbd_scanning /\ ~Bit(config_byte, 4) /\ ~Full
                   THEN Tagged(FALSE, key.bytes) ELSE <<>>
    /\ UNCHANGED <<pend, mouse_tog_q, mouse_left>>

\* Mutant: a packet is taken whatever room there is.
MouseEventAnyRoom(mouse) ==
    /\ mouse_tog_q' = mouse.tog
    /\ mouse_left' = IF mouse_enabled /\ ~Bit(config_byte, 5)
                     THEN Tagged(TRUE, mouse.bytes) ELSE <<>>
    /\ UNCHANGED <<pend, key_tog_q, key_left>>

MouseEvent(mouse) ==
    /\ mouse_tog_q' = mouse.tog
    /\ mouse_left' = IF mouse_enabled /\ ~Bit(config_byte, 5) /\ ~Full
                     THEN Tagged(TRUE, mouse.bytes) ELSE <<>>
    /\ UNCHANGED <<pend, key_tog_q, key_left>>

\* Without a write, one step of what is under way: answers before keys, keys
\* before the mouse, and an event only when nothing else is left to send.
Steps(ps2) ==
    /\ push' = First(pend \o key_left \o mouse_left)
    /\ \/ pend # <<>> /\ pend' = Tail(pend)
          /\ UNCHANGED <<key_tog_q, mouse_tog_q, key_left, mouse_left>>
       \/ pend = <<>> /\ key_left # <<>> /\ key_left' = Tail(key_left)
          /\ UNCHANGED <<pend, key_tog_q, mouse_tog_q, mouse_left>>
       \/ pend = <<>> /\ key_left = <<>> /\ mouse_left # <<>> /\ mouse_left' = Tail(mouse_left)
          /\ UNCHANGED <<pend, key_tog_q, mouse_tog_q, key_left>>
       \/ /\ pend = <<>> /\ key_left = <<>> /\ mouse_left = <<>>
          /\ \/ ps2.key.tog # key_tog_q /\ KeyEvent(ps2.key)
             \/ ps2.key.tog = key_tog_q /\ ps2.mouse.tog # mouse_tog_q /\ MouseEvent(ps2.mouse)
             \/ /\ ps2.key.tog = key_tog_q /\ ps2.mouse.tog = mouse_tog_q
                /\ UNCHANGED <<pend, key_tog_q, mouse_tog_q, key_left, mouse_left>>

\* A read takes the byte at the front, in the clock in which another may come.
Queued(pop) == (IF pop THEN Tail(queue) ELSE queue) \o push

Clock(acc, ps2) ==
    /\ queue' = Queued(acc.op = "rd" /\ ~acc.cmd /\ queue # <<>>)
    /\ IF acc.op = "wr" THEN Writes(acc)
       ELSE Steps(ps2) /\ UNCHANGED <<config_byte, next_write_is_mouse, kbd_scanning,
                                      mouse_enabled, arg_state>>
=============================================================================
