------------------------------ MODULE DataFlow ------------------------------
(***************************************************************************)
(* What a Readable promises: its consumer gets every chunk that was pushed *)
(* once, in the order of the pushes, and then the end.  The consumer may   *)
(* put back what it got last.                                              *)
(***************************************************************************)
EXTENDS Naturals, Sequences

VARIABLES
    pushed,     \* how many chunks were pushed: they are 1, 2, ...
    eof,        \* the source has no more
    got,        \* the chunks the consumer has got
    end         \* the consumer was told of the end

Init == pushed = 0 /\ eof = FALSE /\ got = <<>> /\ end = FALSE

Get(n) ==
    /\ ~end /\ Len(got) < n
    /\ got' = Append(got, Len(got) + 1)

\* A push may reach the consumer at once.
Push ==
    /\ ~eof /\ pushed' = pushed + 1
    /\ got' = got \/ Get(pushed')
    /\ UNCHANGED <<eof, end>>

Deliver == Get(pushed) /\ UNCHANGED <<pushed, eof, end>>

Unshift ==
    /\ ~end /\ got # <<>>
    /\ got' = SubSeq(got, 1, Len(got) - 1)
    /\ UNCHANGED <<pushed, eof, end>>

Eof == ~eof /\ eof' = TRUE /\ UNCHANGED <<pushed, got, end>>

End ==
    /\ eof /\ ~end /\ Len(got) = pushed
    /\ end' = TRUE /\ UNCHANGED <<pushed, eof, got>>

Next == Push \/ Deliver \/ Unshift \/ Eof \/ End

Spec == Init /\ [][Next]_<<pushed, eof, got, end>>
=============================================================================
