------------------------------ MODULE MCTimers ------------------------------
(***************************************************************************)
(* Small instances of Timers: programs with two timers, with two sockets,  *)
(* with one of each, and with a timer and two immediates, some of which    *)
(* throw.  With the delays 1 and 2 and callbacks that run for up to one    *)
(* unit, timers of one list and of two lists expire in the same turn, and  *)
(* a list is due again while its loop runs.                                *)
(***************************************************************************)
EXTENDS Timers

MCPrograms == {
    [timers |-> 2, items |-> 0, immediates |-> 0, calls |-> 4, throws |-> 0],
    [timers |-> 2, items |-> 0, immediates |-> 0, calls |-> 3, throws |-> 1],
    [timers |-> 0, items |-> 2, immediates |-> 0, calls |-> 3, throws |-> 1],
    [timers |-> 1, items |-> 1, immediates |-> 0, calls |-> 4, throws |-> 0],
    [timers |-> 1, items |-> 0, immediates |-> 2, calls |-> 4, throws |-> 1]}
=============================================================================
