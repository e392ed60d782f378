----------------------------- MODULE LineCache -----------------------------
(***************************************************************************)
(* rtl/mister/fb_linecache.sv with TRACK_ZERO: a ring of line buffers that *)
(* a fill engine keeps ahead of the display, and a flag per line that may  *)
(* hold something the display can see.  Clock(in) is one edge; the inputs  *)
(*   px     the display's reads, {} or {[line, off]}                       *)
(*   vs     VC2's vertical sync                                            *)
(*   mark   the rasteriser's marks, {} or {a line}                         *)
(*   taken  the burst asked for is issued                                  *)
(*   dout   {} or {the word the bridge answers}                            *)
(* A word is [line, off, visible], visible: something under ZERO_MASK.     *)
(***************************************************************************)
EXTENDS Integers, FiniteSets

CONSTANTS
    LINES,
    LINE_WORDS,  \* words of a line that are fetched
    VIS_WORDS,   \* and those of them the display can show
    BURST

VARIABLES
    tag, val, zero, buf,   \* the ring of buffers
    fill_idx, fill_line, fill_pos, burst_left, fst, nz_acc, marked_during,
    disp_line, vs_d, restart,
    flag,                  \* the lines whose flag is set
    px_out                 \* ack, miss, the word and the read it answers

cacheVars == <<tag, val, zero, buf, fill_idx, fill_line, fill_pos, burst_left, fst,
               nz_acc, marked_during, disp_line, vs_d, restart, flag, px_out>>

NBUF == 4
Buffers == 0..(NBUF - 1)
Lines == 0..(LINES - 1)
NoWord == [line |-> LINES, off |-> 0, visible |-> FALSE]
NoRead == [line |-> LINES, off |-> 0]

\* A tag or a line no display has: 11'h7FF.
NoLine == 2 * LINES - 1

\* As reset leaves it, but for the flags: all clear, until lines are marked.
Init ==
    /\ tag = [i \in Buffers |-> NoLine] /\ val = {} /\ zero = {}
    /\ buf = [i \in Buffers |-> [w \in 0..(LINE_WORDS - 1) |-> NoWord]]
    /\ fill_idx = 0 /\ fill_line = 0 /\ fill_pos = 0 /\ burst_left = 0
    /\ fst = "F_IDLE" /\ nz_acc = FALSE /\ marked_during = FALSE
    /\ disp_line = NoLine /\ vs_d = FALSE /\ restart = TRUE
    /\ px_out = [ack |-> FALSE, miss |-> FALSE, word |-> NoWord, read |-> NoRead]

-----------------------------------------------------------------------------

Hits(line) == {i \in val : tag[i] = line}

\* The display's read, answered in the next clock whatever is resident.
Reads(in) ==
    px_out' =
        IF in.px = {} THEN [px_out EXCEPT !.ack = FALSE, !.miss = FALSE]
        ELSE LET r == CHOOSE r \in in.px : TRUE
                 hit == IF Hits(r.line) = {} THEN 0
                        ELSE CHOOSE i \in Hits(r.line) : \A j \in Hits(r.line) : j <= i
             IN [ack |-> TRUE, miss |-> Hits(r.line) = {}, read |-> r,
                 word |-> IF hit \in zero
                          THEN [line |-> r.line, off |-> r.off, visible |-> FALSE]
                          ELSE buf[hit][r.off]]

Ahead == fill_line - disp_line

\* The bound on the fill: never the buffer of a line still to be shown.
MayFill == (restart \/ Ahead < NBUF) /\ fill_line < LINES

\* What is asked for.
Burst == IF LINE_WORDS - fill_pos < BURST THEN LINE_WORDS - fill_pos ELSE BURST
Asks == fst = "F_REQ"

NextBuffer == (fill_idx + 1) % NBUF
Displayed(in) ==
    disp_line' = IF in.px = {} THEN disp_line ELSE (CHOOSE r \in in.px : TRUE).line
Restarts(in) == restart' = (restart \/ (in.vs /\ ~vs_d))
Marks(in) == marked_during' = (marked_during \/ fill_line \in in.mark)

\* The rasteriser's mark comes last: set wins over clear.
Flags(cleared, in) == flag' = (flag \ cleared) \union in.mark

\* Mutant: the throttle keeps looking at the last line of the frame before.
RestartKeepsDisplay(in) ==
    /\ restart' = FALSE /\ val' = {} /\ fill_idx' = 0 /\ fill_line' = 0 /\ fill_pos' = 0
    /\ Displayed(in) /\ Flags({}, in)
    /\ UNCHANGED <<tag, zero, buf, burst_left, fst, nz_acc, marked_during>>

\* Mutant: the fill stays where the frame before left it.
RestartKeepsLine(in) ==
    /\ restart' = FALSE /\ val' = {} /\ fill_idx' = 0 /\ fill_pos' = 0
    /\ disp_line' = 0 /\ Flags({}, in)
    /\ UNCHANGED <<tag, zero, buf, fill_line, burst_left, fst, nz_acc, marked_during>>

\* A new frame: everything held is of the one before.
Restart(in) ==
    /\ restart' = FALSE /\ val' = {} /\ fill_idx' = 0 /\ fill_line' = 0 /\ fill_pos' = 0
    /\ disp_line' = 0 /\ Flags({}, in)
    /\ UNCHANGED <<tag, zero, buf, burst_left, fst, nz_acc, marked_during>>

\* A line with its flag clear is published without a fetch.
Publish(in) ==
    /\ tag' = [tag EXCEPT ![fill_idx] = fill_line]
    /\ val' = val \union {fill_idx} /\ zero' = zero \union {fill_idx}
    /\ fill_idx' = NextBuffer /\ fill_line' = fill_line + 1
    /\ Displayed(in) /\ Restarts(in) /\ Flags({}, in)
    /\ UNCHANGED <<buf, fill_pos, burst_left, fst, nz_acc, marked_during>>

\* Mutant: a buffer once published as zeros stays so.
StartKeepsZero(in) ==
    /\ fill_pos' = 0 /\ val' = val \ {fill_idx} /\ UNCHANGED zero
    /\ nz_acc' = FALSE /\ marked_during' = FALSE /\ fst' = "F_REQ"
    /\ Displayed(in) /\ Restarts(in) /\ Flags({}, in)
    /\ UNCHANGED <<tag, buf, fill_idx, fill_line, burst_left>>

Start(in) ==
    /\ fill_pos' = 0 /\ val' = val \ {fill_idx} /\ zero' = zero \ {fill_idx}
    /\ nz_acc' = FALSE /\ marked_during' = FALSE /\ fst' = "F_REQ"
    /\ Displayed(in) /\ Restarts(in) /\ Flags({}, in)
    /\ UNCHANGED <<tag, buf, fill_idx, fill_line, burst_left>>

Idle(in) ==
    /\ fst = "F_IDLE"
    /\ \/ restart /\ Restart(in)
       \/ ~restart /\ MayFill /\ fill_line % LINES \notin flag /\ Publish(in)
       \/ ~restart /\ MayFill /\ fill_line % LINES \in flag /\ Start(in)
       \/ /\ ~restart /\ ~MayFill
          /\ Displayed(in) /\ Restarts(in) /\ Flags({}, in)
          /\ UNCHANGED <<tag, val, zero, buf, fill_idx, fill_line, fill_pos, burst_left,
                         fst, nz_acc, marked_during>>

Request(in) ==
    /\ fst = "F_REQ"
    /\ fst' = IF in.taken THEN "F_DATA" ELSE fst
    /\ burst_left' = IF in.taken THEN Burst ELSE burst_left
    /\ Displayed(in) /\ Restarts(in) /\ Flags({}, in) /\ Marks(in)
    /\ UNCHANGED <<tag, val, zero, buf, fill_idx, fill_line, fill_pos, nz_acc>>

NonZero(word) == word.visible /\ fill_pos < VIS_WORDS

\* Mutant: a mark during the fetch changes nothing.
EmptyAsFetched(word) == ~nz_acc /\ ~NonZero(word)

\* A line fetched with nothing to see, and not written meanwhile.
Empty(word) == ~nz_acc /\ ~NonZero(word) /\ ~marked_during

Data(in) ==
    /\ fst = "F_DATA" /\ Displayed(in) /\ Restarts(in) /\ Marks(in)
    /\ IF in.dout = {}
       THEN Flags({}, in) /\ UNCHANGED <<tag, val, zero, buf, fill_idx, fill_line,
                                         fill_pos, burst_left, fst, nz_acc>>
       ELSE LET word == CHOOSE w \in in.dout : TRUE
                ends == burst_left <= 1
                line == ends /\ fill_pos + 1 >= LINE_WORDS
            IN /\ buf' = [buf EXCEPT ![fill_idx][fill_pos] = word]
               /\ fill_pos' = fill_pos + 1 /\ burst_left' = burst_left - 1
               /\ nz_acc' = (nz_acc \/ NonZero(word))
               /\ fst' = IF line THEN "F_IDLE" ELSE IF ends THEN "F_REQ" ELSE fst
               /\ tag' = IF line THEN [tag EXCEPT ![fill_idx] = fill_line] ELSE tag
               /\ val' = IF line THEN val \union {fill_idx} ELSE val
               /\ fill_idx' = IF line THEN NextBuffer ELSE fill_idx
               /\ fill_line' = IF line THEN fill_line + 1 ELSE fill_line
               /\ Flags(IF line /\ Empty(word) THEN {fill_line % LINES} ELSE {}, in)
               /\ UNCHANGED zero

Clock(in) ==
    /\ Reads(in) /\ vs_d' = in.vs
    /\ Idle(in) \/ Request(in) \/ Data(in)
=============================================================================
