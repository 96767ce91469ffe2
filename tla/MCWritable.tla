----------------------------- MODULE MCWritable -----------------------------
(***************************************************************************)
(* Small instances of Writable.  With HighWaterMark 2 and three writes the *)
(* buffer is below, at and above the mark, and _writev gets two or three   *)
(* chunks; with two corks the buffer also fills while nothing is written,  *)
(* once or twice, or under a nested cork.                                  *)
(***************************************************************************)
EXTENDS Writable
=============================================================================
