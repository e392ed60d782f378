------------------------------ MODULE MCMcDma ------------------------------
(* McDmaPath with doublewords of four bytes and pages of two of them.      *)
EXTENDS McDmaPath

Moves(fill, to_host, up) == [fill |-> fill, to_host |-> to_host, up |-> up]
MCCopies == {Moves(FALSE, FALSE, TRUE), Moves(FALSE, TRUE, TRUE)}
MCFills == {Moves(TRUE, TRUE, TRUE), Moves(TRUE, TRUE, FALSE)}

Shape(memadr, lines, width, line_zoom, stride, zoom, bytes) ==
    [memadr |-> memadr, lines |-> lines, width |-> width, line_zoom |-> line_zoom,
     stride |-> stride, zoom |-> zoom, bytes |-> bytes]

\* In the middle of a page, over the end of one and over the end of what the
\* uTLB maps; two lines forwards and backwards, the first pass shorter; zoom;
\* no lines and no bytes.
MCCopyShapes ==
    {Shape(m, 1, n, 1, 3, 1, n) : m \in {6, 13}, n \in {2, 6}}
    \union {Shape(9, 2, 5, 1, s, 1, b) : s \in {-7, 2}, b \in {3}}
    \union {Shape(5, 2, 4, 2, 1, z, 4) : z \in {1, 2}}
    \union {Shape(3, 0, 4, 1, 1, 1, 4), Shape(3, 1, 0, 1, 5, 1, 0)}
MCFillShapes ==
    {Shape(m, 1, n, 1, 2, 1, n) : m \in {4, 14}, n \in {2, 6, 8}}
    \union {Shape(10, 2, 4, 2, s, 2, b) : s \in {-6, 4}, b \in {4}}

MCAsked(kinds, shapes, ies) ==
    {k @@ s @@ [xlate |-> x, ie |-> i] :
        k \in kinds, s \in shapes, x \in BOOLEAN, i \in ies}
MCDescriptors ==
    MCAsked(MCCopies, MCCopyShapes, {FALSE}) \union MCAsked(MCFills, MCFillShapes, {TRUE})
MCLater ==
    {k @@ Shape(6, 1, 3, 1, 0, 1, 3) @@ [xlate |-> TRUE, ie |-> TRUE] : k \in MCCopies}
    \union {Moves(TRUE, FALSE, TRUE) @@ Shape(6, 1, 3, 1, 0, 1, 3)
              @@ [xlate |-> FALSE, ie |-> FALSE]}

Entry(tag, valid) == [tag |-> tag, valid |-> valid, base |-> 0]
\* The second segment is mapped nowhere, or by an entry that is not valid.
MCTlbs == {<<Entry(2, FALSE), Entry(0, TRUE)>>, <<Entry(1, FALSE), Entry(0, TRUE)>>}

Page(frame, valid, wrok) == [frame |-> frame, valid |-> valid, wrok |-> wrok]
MCTables ==
    {[b \in {0} |-> (0 :> Page(5, TRUE, TRUE) @@ 1 :> second)] : second \in
        {Page(3, TRUE, TRUE), Page(3, TRUE, FALSE), Page(3, FALSE, FALSE)}}
    \union {[b \in {0} |-> (0 :> Page(5, TRUE, FALSE) @@ 1 :> Page(3, TRUE, TRUE))]}
=============================================================================
