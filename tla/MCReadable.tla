----------------------------- MODULE MCReadable -----------------------------
(***************************************************************************)
(* Small instances of Readable: each kind of consumer, with buffers of one *)
(* and two chunks, and up to three chunks, so that the buffer fills and    *)
(* empties.                                                                *)
(***************************************************************************)
EXTENDS Readable

Consumer(kind, highWaterMark, n, chunks) ==
    [consumer |-> kind, highWaterMark |-> highWaterMark, calls |-> n, chunks |-> chunks]

\* Only pipe() and unpipe().
PipeCases == {Consumer("pipe", 1, 2, 3), Consumer("pipe", 2, 2, 3)}

MCCases == {
    Consumer("pipe", 1, 4, 1), Consumer("pipe", 1, 3, 3), Consumer("pipe", 2, 2, 3),
    Consumer("data", 1, 4, 3), Consumer("data", 2, 4, 3),
    Consumer("readable", 0, 2, 3), Consumer("readable", 1, 2, 3), Consumer("readable", 2, 2, 3)}
=============================================================================
