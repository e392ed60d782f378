----------------------------- MODULE MCDisplay -----------------------------
(* DisplayPath with a line more than buffers.                              *)
EXTENDS DisplayPath

At(line, off) == [line |-> line, off |-> off]

\* Lines to fetch before, at and behind the one written, and none.
MCPictures == {{}, {At(1, 1), At(3, 0)}, {At(0, 0), At(2, 1), At(4, 1)}}

\* The bridge of this instance is as fast as the theorems ask.
ASSUME FastEnough == FetchesInBlank /\ KeepsUp
=============================================================================
