----------------------------- MODULE HttpAgent ------------------------------
(***************************************************************************)
(* The connection pool of http.Agent (lib/_http_agent.js), the client      *)
(* requests that use it (lib/_http_client.js) and as much of a net.Socket  *)
(* (lib/net.js) as they see: it connects, ends, is destroyed, and emits    *)
(* 'close' some time later.                                                *)
(*                                                                         *)
(* All requests go to one origin, so the tables of the agent have one row. *)
(* Ticks run before libuv's next callback; the program's calls come at any *)
(* time.  An idle socket has no 'error' listener: that the network fails   *)
(* an idle socket ends the program, and is not modelled.                   *)
(***************************************************************************)
EXTENDS Naturals, Sequences, FiniteSets, SequencesExt

CONSTANTS
    MaxRequests,    \* bound: requests
    Cases           \* the agent's options, with what the program may do

Req == 1..MaxRequests
Sock == 1..MaxRequests      \* a socket is only made for a request
None == 0
Infinity == MaxRequests + 1 \* a limit on sockets that is never reached

ASSUME HttpAgentAssumption ==
    /\ MaxRequests \in Nat
    /\ Cases \subseteq [options : [keepAlive : BOOLEAN, maxSockets : Nat \ {0},
                                   maxFreeSockets : Nat \ {0}],
                        requests : 0..MaxRequests, aborts : Nat, destroys : Nat]

VARIABLES
    agent,      \* agent.options
    A,          \* the agent's tables, the sockets, the requests and the ticks
    budget      \* bound: the calls of request(), abort() and destroy() left

vars == <<agent, A, budget>>

\* state: "ending" after destroySoon(), "destroyed" until 'close' is emitted.
\* heard: socketCloseListener and socketErrorListener are there; reading:
\* socketOnData and socketOnEnd are; pooled: the agent's listeners are.
NewSocket == [state |-> "new", httpMessage |-> None, heard |-> FALSE, reading |-> FALSE,
              pooled |-> TRUE, hadError |-> FALSE]

\* state: "tick" after onSocket(), "active" with a socket, "complete" when the
\* response has come, "ended" when it was read or an 'upgrade' was handled;
\* "refused" when nobody listens for 'upgrade', and "closed" when 'close' was
\* emitted after that.
NewRequest == [state |-> "new", socket |-> None, shouldKeepAlive |-> TRUE,
               aborted |-> FALSE, res |-> FALSE, errors |-> 0]

Init ==
    /\ \E c \in Cases :
         /\ agent = c.options
         /\ budget = [requests |-> c.requests, aborts |-> c.aborts, destroys |-> c.destroys]
    /\ A = [sockets |-> <<>>, freeSockets |-> <<>>, requests |-> <<>>, ticks |-> <<>>,
            sk |-> [s \in Sock |-> NewSocket], rq |-> [r \in Req |-> NewRequest]]
-----------------------------------------------------------------------------
(* The agent.  S is a state A.                                             *)

Destroyed(S, s) == S.sk[s].state \in {"destroyed", "closed"}

\* Socket.prototype._destroy()
Destroy(S, s) == IF Destroyed(S, s) THEN S ELSE [S EXCEPT !.sk[s].state = "destroyed"]

\* Socket.prototype.destroySoon()
DestroySoon(S, s) == IF S.sk[s].state = "open" THEN [S EXCEPT !.sk[s].state = "ending"] ELSE S

\* ClientRequest.prototype.onSocket()
OnSocket(S, r, s) ==
    [S EXCEPT !.rq[r].state = "tick", !.ticks = Append(@, [on |-> "socket", r |-> r, s |-> s])]

NewSock(S) == CHOOSE s \in Sock :
    S.sk[s].state = "new" /\ \A t \in 1..(s - 1) : S.sk[t].state # "new"

CreateSocket(S) ==
    [S EXCEPT !.sk[NewSock(S)].state = "connecting", !.sockets = Append(@, NewSock(S))]

\* The first waiting request gets the socket.
HandOver(S, s) == OnSocket([S EXCEPT !.requests = Tail(@)], Head(S.requests), s)

\* Faulty variant of RemoveSocket: a destroyed socket stays in the pool.
RemoveSocketInUse(S, s) ==
    LET R == [S EXCEPT !.sockets = RemoveFirst(@, s)] IN
    IF S.requests = <<>> THEN R ELSE HandOver(CreateSocket(R), NewSock(R))

\* Faulty variant of RemoveSocket: the requests that wait go on waiting.
RemoveSocketOnly(S, s) ==
    [S EXCEPT !.sockets = RemoveFirst(@, s),
              !.freeSockets = IF Destroyed(S, s) THEN RemoveFirst(@, s) ELSE @]

\* A socket leaves the tables; a request that waits gets a new one.
RemoveSocket(S, s) ==
    LET R == [S EXCEPT !.sockets = RemoveFirst(@, s),
                       !.freeSockets = IF Destroyed(S, s) THEN RemoveFirst(@, s) ELSE @] IN
    IF S.requests = <<>> THEN R ELSE HandOver(CreateSocket(R), NewSock(R))

\* The listener of 'free': the next request, or the pool, or the end.
Free(S, s) ==
    LET r == S.sk[s].httpMessage IN
    IF ~Destroyed(S, s) /\ S.requests # <<>> THEN HandOver(S, s)
    ELSE IF /\ r # None /\ S.rq[r].shouldKeepAlive
            /\ ~Destroyed(S, s) /\ agent.keepAlive
            /\ Len(S.freeSockets) + Len(S.sockets) < agent.maxSockets
            /\ Len(S.freeSockets) < agent.maxFreeSockets
    THEN LET R == RemoveSocket([S EXCEPT !.sk[s].httpMessage = None], s)
         IN [R EXCEPT !.freeSockets = Append(@, s)]
    ELSE Destroy(RemoveSocket(S, s), s)

\* Faulty variant of AddRequest: the socket is not taken out of the pool.
AddRequestPeek(S, r) ==
    IF S.freeSockets # <<>>
    THEN LET s == Head(S.freeSockets) IN OnSocket([S EXCEPT !.sockets = Append(@, s)], r, s)
    ELSE IF Len(S.sockets) < agent.maxSockets
    THEN OnSocket(CreateSocket(S), r, NewSock(S))
    ELSE [S EXCEPT !.requests = Append(@, r), !.rq[r].state = "queued"]


\* A socket of the pool, whatever its state, or a new one, or the queue.
AddRequest(S, r) ==
    IF S.freeSockets # <<>>
    THEN LET s == Head(S.freeSockets) IN
         OnSocket([S EXCEPT !.freeSockets = Tail(@), !.sockets = Append(@, s)], r, s)
    ELSE IF Len(S.sockets) < agent.maxSockets
    THEN OnSocket(CreateSocket(S), r, NewSock(S))
    ELSE [S EXCEPT !.requests = Append(@, r), !.rq[r].state = "queued"]
-----------------------------------------------------------------------------
(* The program                                                             *)

\* A request asks for keep-alive if the agent might use its socket again.
ShouldKeepAlive == agent.keepAlive \/ agent.maxSockets # Infinity

Request == \E r \in Req :
    /\ budget.requests > 0
    /\ A.rq[r].state = "new" /\ \A q \in 1..(r - 1) : A.rq[q].state # "new"
    /\ A' = AddRequest([A EXCEPT !.rq[r].shouldKeepAlive = ShouldKeepAlive], r)
    /\ budget' = [budget EXCEPT !.requests = @ - 1]
    /\ UNCHANGED agent

\* abort() destroys the socket the request was given, if any.
Abort == \E r \in Req :
    /\ budget.aborts > 0 /\ A.rq[r].state # "new"
    /\ budget' = [budget EXCEPT !.aborts = @ - 1]
    /\ LET S == [A EXCEPT !.rq[r].aborted = TRUE] IN
       A' = IF A.rq[r].socket # None THEN Destroy(S, A.rq[r].socket) ELSE S
    /\ UNCHANGED agent

DestroyAgent ==
    /\ budget.destroys > 0
    /\ budget' = [budget EXCEPT !.destroys = @ - 1]
    /\ A' = FoldLeft(Destroy, A, A.freeSockets \o A.sockets)
    /\ UNCHANGED agent

\* The program has read the response: responseOnEnd().
ResponseOnEnd == \E r \in Req :
    /\ A.rq[r].state = "complete"
    /\ LET s == A.rq[r].socket
           S == [A EXCEPT !.rq[r].state = "ended"] IN
       A' = IF A.rq[r].shouldKeepAlive
            THEN [S EXCEPT !.sk[s].heard = FALSE, !.ticks = Append(@, [on |-> "free", s |-> s])]
            ELSE DestroySoon(S, s)
    /\ UNCHANGED <<agent, budget>>
-----------------------------------------------------------------------------
(* Ticks                                                                   *)

\* tickOnSocket()
TickOnSocket(S, r, s) ==
    [S EXCEPT !.rq[r].socket = s, !.rq[r].state = "active",
              !.sk[s].httpMessage = r, !.sk[s].heard = TRUE, !.sk[s].reading = TRUE]

\* Faulty variant of SocketTick: an aborted request keeps the socket.
SocketTickAborted(S, r, s) ==
    IF S.rq[r].aborted THEN [S EXCEPT !.rq[r].state = "ended"] ELSE TickOnSocket(S, r, s)

\* What onSocket() defers: an aborted request gives the socket back.
SocketTick(S, r, s) ==
    IF S.rq[r].aborted THEN Free([S EXCEPT !.rq[r].state = "ended"], s)
    ELSE TickOnSocket(S, r, s)

\* Faulty variant of HangUp: whatever happened before.
HangUpAgain(S, s) ==
    LET r == S.sk[s].httpMessage IN
    IF S.rq[r].res THEN S ELSE [S EXCEPT !.rq[r].errors = @ + 1, !.sk[s].hadError = TRUE]

\* The request of socket s fails, unless there was an error before.
HangUp(S, s) ==
    LET r == S.sk[s].httpMessage IN
    IF S.rq[r].res \/ S.sk[s].hadError THEN S
    ELSE [S EXCEPT !.rq[r].errors = @ + 1, !.sk[s].hadError = TRUE]

\* socketErrorListener()
SocketError(S, s) ==
    LET r == S.sk[s].httpMessage IN
    IF ~S.sk[s].heard THEN S
    ELSE Destroy([S EXCEPT !.rq[r].errors = @ + 1, !.sk[s].hadError = TRUE,
                           !.sk[s].reading = FALSE], s)

\* socketOnEnd(); the end of the socket may be the end of the response.
SocketOnEnd(S, s, complete) ==
    LET r == S.sk[s].httpMessage IN
    IF ~S.sk[s].reading THEN S
    ELSE Destroy([HangUp(S, s) EXCEPT
                    !.sk[s].reading = FALSE,
                    !.rq[r].state = IF S.rq[r].res /\ complete THEN "complete" ELSE @], s)

Tick ==
    /\ A.ticks # <<>>
    /\ LET t == Head(A.ticks)
           S == [A EXCEPT !.ticks = Tail(@)] IN
       \/ t.on = "socket" /\ A' = SocketTick(S, t.r, t.s)
       \/ t.on = "free" /\ A' = Free(S, t.s)
       \/ t.on = "error" /\ A' = SocketError(S, t.s)
       \/ t.on = "end" /\ \E complete \in BOOLEAN : A' = SocketOnEnd(S, t.s, complete)
    /\ UNCHANGED <<agent, budget>>
-----------------------------------------------------------------------------
(* The network, and what libuv calls back.  A callback starts with no tick *)
(* left.                                                                   *)

Turn == A.ticks = <<>> /\ UNCHANGED <<agent, budget>>

Connect(s) ==
    /\ Turn /\ A.sk[s].state = "connecting"
    /\ A' = [A EXCEPT !.sk[s].state = "open"]

\* The connection cannot be made, or fails while a request uses it.
Fail(s) ==
    /\ Turn /\ A.sk[s].state \in {"connecting", "open", "ending"} /\ A.sk[s].heard
    /\ A' = [Destroy(A, s) EXCEPT !.ticks = Append(@, [on |-> "error", s |-> s])]

\* The other side closes: onread() and onSocketEnd().
Eof(s) ==
    /\ Turn /\ A.sk[s].state = "open" /\ A.sk[s].pooled
    /\ A' = [DestroySoon(A, s) EXCEPT !.ticks = Append(@, [on |-> "end", s |-> s])]

\* parserOnIncomingClient(): the server decides whether the socket lives on.
Incoming(s) ==
    LET r == A.sk[s].httpMessage IN
    /\ Turn /\ A.sk[s].state = "open" /\ A.sk[s].reading /\ ~A.rq[r].res
    /\ \E keepAlive \in BOOLEAN :
         A' = [A EXCEPT !.rq[r].res = TRUE, !.rq[r].shouldKeepAlive = @ /\ keepAlive]

\* What comes is no HTTP: socketOnData().
ParseError(s) ==
    LET r == A.sk[s].httpMessage IN
    /\ Turn /\ A.sk[s].state = "open" /\ A.sk[s].reading
    /\ A' = Destroy([A EXCEPT !.rq[r].errors = @ + 1, !.sk[s].hadError = TRUE], s)

\* The response is complete: socketOnData().  The socket does not survive a
\* second response.
Complete(s) ==
    LET r == A.sk[s].httpMessage IN
    /\ Turn /\ A.sk[s].state = "open" /\ A.sk[s].reading /\ A.rq[r].res
    /\ LET S == [A EXCEPT !.rq[r].state = "complete", !.sk[s].reading = FALSE]
       IN A' = S \/ A' = Destroy(S, s)

\* The response is an upgrade: the program takes the socket out of the agent
\* if it listens for that.  If not, the socket is destroyed; the request has a
\* response by then, so its 'close' will be the only event.
Upgrade(s) ==
    LET r == A.sk[s].httpMessage
        S == [A EXCEPT !.rq[r].res = TRUE, !.sk[s].reading = FALSE] IN
    /\ Turn /\ A.sk[s].state = "open" /\ A.sk[s].reading /\ ~A.rq[r].res
    /\ \/ A' = RemoveSocket([S EXCEPT !.sk[s].pooled = FALSE, !.sk[s].heard = FALSE,
                                      !.rq[r].state = "ended"], s)
       \/ A' = Destroy([S EXCEPT !.rq[r].state = "refused"], s)

\* What was written is flushed: 'finish' destroys the socket.
Finish(s) ==
    /\ Turn /\ A.sk[s].state = "ending"
    /\ A' = Destroy(A, s)

\* socketCloseListener()
SocketClose(S, s) ==
    LET r == S.sk[s].httpMessage
        H == HangUp([S EXCEPT !.sk[s].reading = FALSE], s) IN
    IF ~S.sk[s].heard THEN S
    ELSE IF S.rq[r].res /\ S.rq[r].state = "active" THEN [H EXCEPT !.rq[r].state = "complete"]
    ELSE IF S.rq[r].state = "refused" THEN [H EXCEPT !.rq[r].state = "closed"]
    ELSE H

\* 'close': the agent's listener comes first.  Nothing reads the fields of a
\* closed socket, and the model forgets them.
CloseEvent(s) ==
    /\ Turn /\ A.sk[s].state = "destroyed"
    /\ LET S == IF A.sk[s].pooled THEN RemoveSocket(A, s) ELSE A IN
       A' = [SocketClose(S, s) EXCEPT !.sk[s] = [NewSocket EXCEPT !.state = "closed"]]

Network(s) ==
    \/ Connect(s) \/ Fail(s) \/ Incoming(s) \/ ParseError(s)
    \/ Complete(s) \/ Upgrade(s) \/ Finish(s) \/ CloseEvent(s)

\* What happens whether or not the program calls the agent.
Progress == Tick \/ ResponseOnEnd \/ \E s \in Sock : Network(s)

Next == Request \/ Abort \/ DestroyAgent \/ (\E s \in Sock : Eof(s)) \/ Progress

\* The process does not stop while a tick is queued, a response is unread or a
\* connection has something to do: it connects or fails, the server answers a
\* request, what was written is flushed, a handle that was closed calls back.
\* No server has to close a connection.
Spec == Init /\ [][Next]_vars /\ WF_vars(Progress)
-----------------------------------------------------------------------------
(* Properties                                                              *)

Ticked(on) == {i \in DOMAIN A.ticks : A.ticks[i].on = on}
Waiting == {r \in Req : A.rq[r].state = "queued"}
\* The requests that a socket was given and that are not done with it.
Users(s) == {r \in Req : A.rq[r].state \in {"active", "complete", "refused"}
                          /\ A.rq[r].socket = s}
Given(s) == {i \in Ticked("socket") : A.ticks[i].s = s}
Freed(s) == {i \in Ticked("free") : A.ticks[i].s = s}

\* The types of the tables; a request emits 'error' once at most, whether the
\* socket fails, ends, closes or several of these.
TypeOK ==
    /\ A.sockets \in Seq(Sock) /\ A.freeSockets \in Seq(Sock) /\ A.requests \in Seq(Req)
    /\ \A s \in Sock :
         /\ A.sk[s].state \in {"new", "connecting", "open", "ending", "destroyed", "closed"}
         /\ A.sk[s].httpMessage \in Req \cup {None}
         /\ {A.sk[s].heard, A.sk[s].reading, A.sk[s].pooled, A.sk[s].hadError} \subseteq BOOLEAN
    /\ \A r \in Req :
         /\ A.rq[r].state \in {"new", "queued", "tick", "active", "complete", "ended",
                               "refused", "closed"}
         /\ A.rq[r].socket \in Sock \cup {None} /\ A.rq[r].errors \in 0..1
    /\ budget \in [requests : Nat, aborts : Nat, destroys : Nat]

\* A socket has one user at a time: it is with one request, on its way to one,
\* about to be freed, or in the pool.
OneUser == \A s \in Sock :
    Cardinality(Users(s)) + Cardinality(Given(s)) + Cardinality(Freed(s))
        + (IF s \in ToSet(A.freeSockets) THEN 1 ELSE 0) <= 1

\* The tables hold every connection that the agent made and that was neither
\* destroyed nor taken over by an upgrade, once; they may hold a destroyed one
\* until its 'close', and no other.  The queue holds the requests that wait, once.
Accounted ==
    LET both == A.sockets \o A.freeSockets IN
    /\ IsInjective(both) /\ IsInjective(A.requests)
    /\ ToSet(A.requests) = Waiting
    /\ \A s \in ToSet(both) : A.sk[s].state \notin {"new", "closed"} /\ A.sk[s].pooled
    /\ \A s \in Sock : A.sk[s].state \in {"connecting", "open", "ending"} /\ A.sk[s].pooled
                         => s \in ToSet(both)

\* No request waits while the agent has fewer sockets than it may have.
WorkConserving == A.requests # <<>> => Len(A.sockets) + Len(A.freeSockets) >= agent.maxSockets

\* Every request gets its response or an error, or the program aborts it; one
\* that is answered by an upgrade which nobody listens for gets neither, but its
\* connection closes and it emits 'close'.
Settles == \A r \in Req :
    A.rq[r].state # "new" ~>
        A.rq[r].state \in {"ended", "closed"} \/ A.rq[r].errors > 0 \/ A.rq[r].aborted

=============================================================================
