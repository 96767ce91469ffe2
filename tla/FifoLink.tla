------------------------------ MODULE FifoLink ------------------------------
(***************************************************************************)
(* What an IPC channel promises to the code that uses it: every endpoint   *)
(* gets the messages its peer's send() took, in that order, none skipped   *)
(* and none twice, each with the handle it was sent with.  A message may   *)
(* stay undelivered for ever (the process died, the channel was closed).   *)
(***************************************************************************)
EXTENDS Naturals, Sequences

CONSTANTS Kinds, HandleKinds, Endpoint, Peer(_)

VARIABLES
    accepted,   \* accepted[p]: the kinds of the messages p has sent
    delivered   \* delivered[p]: what p has got, with number and handle

Init ==
    /\ accepted = [p \in Endpoint |-> <<>>]
    /\ delivered = [p \in Endpoint |-> <<>>]

Accept(p, kind) ==
    /\ accepted' = [accepted EXCEPT ![p] = Append(@, kind)]
    /\ UNCHANGED delivered

Deliver(p) ==
    LET n == Len(delivered[p]) + 1
        sent == accepted[Peer(p)] IN
    /\ n <= Len(sent)
    /\ delivered' = [delivered EXCEPT ![p] = Append(@,
         [id |-> n, handle |-> IF sent[n] \in HandleKinds THEN n ELSE 0])]
    /\ UNCHANGED accepted

Next == \E p \in Endpoint : Deliver(p) \/ \E kind \in Kinds : Accept(p, kind)

Spec == Init /\ [][Next]_<<accepted, delivered>>
=============================================================================
