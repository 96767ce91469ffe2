---------------------------- MODULE MCHttpAgent -----------------------------
(***************************************************************************)
(* Small instances of HttpAgent: agents of one or two sockets, with and    *)
(* without keep-alive, and programs that abort requests or destroy the     *)
(* agent.  With three requests one waits while the others are served, and  *)
(* a pooled socket is taken again.                                         *)
(***************************************************************************)
EXTENDS HttpAgent

Options(keepAlive, maxSockets) ==
    [keepAlive |-> keepAlive, maxSockets |-> maxSockets, maxFreeSockets |-> 1]

MCCases == {
    [options |-> Options(TRUE, 1), requests |-> 3, aborts |-> 1, destroys |-> 0],
    [options |-> Options(TRUE, 2), requests |-> 3, aborts |-> 0, destroys |-> 0],
    [options |-> Options(TRUE, 2), requests |-> 2, aborts |-> 1, destroys |-> 1],
    [options |-> Options(FALSE, 1), requests |-> 2, aborts |-> 1, destroys |-> 1],
    [options |-> Options(FALSE, Infinity), requests |-> 2, aborts |-> 1, destroys |-> 0]}
=============================================================================
