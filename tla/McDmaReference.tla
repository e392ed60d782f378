--------------------------- MODULE McDmaReference ---------------------------
(***************************************************************************)
(* What a descriptor of the memory controller's GIO64 DMA engine means:    *)
(* the loops of reference() and xl_ref() of verilator/tb_mcdma.cpp, one    *)
(* byte, or one word of a fill, after the other.                           *)
(*                                                                         *)
(* A byte is a number that names where it comes from.  A descriptor is     *)
(* [fill, to_host, up, memadr, lines, width, line_zoom, stride, zoom,      *)
(* bytes, xlate]; a uTLB is a sequence of [tag, valid, base], and table is *)
(* the page tables in memory, entry n of the fragment at `base` being      *)
(* table[base][n], [valid, wrok, frame].                                   *)
(***************************************************************************)
EXTENDS Integers, FiniteSetsExt, SequencesExt

CONSTANTS
    QW,        \* bytes of a doubleword; 8
    PAGE, SEG, \* bytes of a page, and of what a uTLB entry maps
    ASIZE      \* addresses are taken modulo ASIZE; 2^32

ASSUME DmaAssumption ==
    /\ QW \in Nat /\ QW % 2 = 0 /\ QW > 0
    /\ PAGE \in Nat /\ PAGE % QW = 0 /\ PAGE > 0
    /\ SEG \in Nat /\ SEG % PAGE = 0 /\ SEG > 0
    /\ ASIZE \in Nat /\ ASIZE % SEG = 0 /\ ASIZE > 0

Word == QW \div 2
Bytes == 0..(QW - 1)
Addresses == 0..(ASIZE - 1)

\* The names of bytes: no byte, what memory holds at first, the byte of the
\* fill word in a lane, byte j of the i-th beat read from the GIO bus.
Zero == 0
Initial(a) == 1 + a
FillByte(j) == 1000 + (j % Word)
GioByte(i, j) == 2000 + QW * i + j

IsFill(d) == d.fill /\ d.to_host
IsM2G(d) == ~d.fill /\ ~d.to_host /\ d.up
IsG2M(d) == ~d.fill /\ d.to_host /\ d.up
Supported(d) == IsFill(d) \/ IsM2G(d) \/ IsG2M(d)

\* Where an address is in memory, or why it is nowhere.
Translate(d, tlb, table, a, writing) ==
    LET hits == {i \in DOMAIN tlb : tlb[i].tag = a \div SEG}
        fault(f) == [phys |-> 0, fault |-> f]
    IN IF ~d.xlate THEN [phys |-> a, fault |-> {}]
       ELSE IF hits = {} THEN fault({"TLB_MISS"})
       ELSE LET entry == tlb[Min(hits)]
                pte == table[entry.base][(a % SEG) \div PAGE]
            IN CASE ~entry.valid -> fault({"TLB_MISS"})
                 [] entry.valid /\ ~pte.valid -> fault({"FAULT"})
                 [] entry.valid /\ pte.valid /\ writing /\ ~pte.wrok -> fault({"CLEAN"})
                 [] OTHER -> [phys |-> pte.frame * PAGE + (a % PAGE), fault |-> {}]

\* One round of the innermost loop: a word of a fill, up to a doubleword of a
\* copy.  A copy goes as far as its first byte that is nowhere.
Move(d, tlb, table, s) ==
    LET len == IF IsFill(d) THEN Word ELSE Min({s.bytes, QW})
        at(j) == Translate(d, tlb, table, (s.mem + j) % ASIZE, d.to_host)
        bad == {j \in 0..(len - 1) : at(IF IsFill(d) THEN 0 ELSE j).fault # {}}
        got == IF bad = {} THEN len ELSE Min(bad)
        phys(j) == IF IsFill(d) THEN (at(0).phys + j) % ASIZE ELSE at(j).phys
        byte(j) == IF IsFill(d) THEN FillByte(j) ELSE GioByte(s.reads, j)
        moved == IF IsFill(d) /\ bad # {} THEN 0
                 ELSE IF IsFill(d) /\ ~d.up THEN -len ELSE got
        done == [s EXCEPT
            !.mem = (s.mem + moved) % ASIZE,
            !.image = IF d.to_host
                      THEN [a \in Addresses |->
                              IF \E j \in 0..(got - 1) : phys(j) = a
                              THEN byte(CHOOSE j \in 0..(got - 1) : phys(j) = a)
                              ELSE s.image[a]]
                      ELSE @,
            !.reads = IF IsG2M(d) THEN @ + 1 ELSE @]
    IN IF bad # {}
       THEN [done EXCEPT !.in = "out", !.fault = at(IF IsFill(d) THEN 0 ELSE got).fault]
       ELSE [done EXCEPT
            !.bytes = IF @ >= len THEN @ - len ELSE 0,
            !.beats = IF IsM2G(d)
                      THEN Append(@, [j \in Bytes |-> IF j < len THEN s.image[phys(j)]
                                                                 ELSE Zero])
                      ELSE @]

\* One step of the three loops: while (line_count), while (zoom_count), while
\* (byte_count).
LoopStep(d, tlb, table, s) ==
    CASE s.in = "lines" /\ s.lines = 0 -> [s EXCEPT !.in = "out"]
      [] s.in = "lines" /\ s.lines > 0 -> [s EXCEPT !.in = "zoom", !.lines = @ - 1]
      [] s.in = "zoom" /\ s.zoom = 0 ->
            [s EXCEPT !.in = "lines", !.zoom = d.line_zoom,
                      !.mem = (@ + d.stride) % ASIZE]
      [] s.in = "zoom" /\ s.zoom > 0 -> [s EXCEPT !.in = "bytes", !.zoom = @ - 1]
      [] s.in = "bytes" /\ s.bytes = 0 ->
            [s EXCEPT !.in = "zoom", !.bytes = d.width,
                      !.mem = IF s.zoom = 0 THEN @
                              ELSE (IF d.up THEN @ - d.width ELSE @ + d.width) % ASIZE]
      [] s.in = "bytes" /\ s.bytes > 0 -> Move(d, tlb, table, s)
      [] s.in = "out" -> s

\* The whole transfer from a memory image and a count of GIO reads; FUEL
\* bounds the steps of the loops.
Outcome(d, tlb, table, image, reads, FUEL) ==
    LET start == [in |-> IF Supported(d) THEN "lines" ELSE "out",
                  lines |-> d.lines, zoom |-> d.zoom, bytes |-> d.bytes,
                  mem |-> d.memadr, image |-> image,
                  beats |-> <<>>, reads |-> reads, fault |-> {}]
        after[n \in 0..FUEL] ==
            IF n = 0 THEN start ELSE LoopStep(d, tlb, table, after[n - 1])
    IN after[FUEL]

=============================================================================
