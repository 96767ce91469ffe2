------------------------------ MODULE ClusterRR ------------------------------
(***************************************************************************)
(* The round-robin scheduler of lib/cluster.js: the master listens on one  *)
(* address for its workers, accepts connections and hands each one to a    *)
(* free worker; a worker that no longer serves the address sends it back.  *)
(*                                                                         *)
(* Channels are the FIFO links of module IpcChannel; what matters here of  *)
(* their inside is that the master's end of a channel that reaches its end *)
(* of file with an unacknowledged handle never emits 'disconnect'          *)
(* (IpcChannel!OnEof), so unacked counts those handles.                    *)
(*                                                                         *)
(* Binding and its outcome take only ticks of the master, between which it *)
(* gets no message, so they belong to the step that handles queryServer.   *)
(* A worker has at most one server for the address at a time, and the      *)
(* program listens for 'error' on its workers.                             *)
(***************************************************************************)
EXTENDS Naturals, Sequences, FiniteSets, FiniteSetsExt, SequencesExt

CONSTANTS
    Worker,        \* the workers that may be forked
    Conn,          \* the connections that may arrive
    Programs,      \* bounds of each program: the connections that arrive, and
                   \* the calls of listen() of each worker
    MayCrash,      \* the workers that may die at any time
    BindMayFail    \* the address may be in use

ASSUME ClusterAssumption ==
    /\ IsFiniteSet(Worker)
    /\ Programs \subseteq [conns : SUBSET Conn, listens : [Worker -> Nat]]
    /\ IsFiniteSet(Programs)
    /\ MayCrash \subseteq Worker
    /\ BindMayFail \in BOOLEAN

\* RoundRobinHandle objects, numbered as they are created; 0 is undefined.
Gen == 1..Max({MapThenSumSet(LAMBDA w : p.listens[w], Worker) : p \in Programs})

VARIABLES
    workers,     \* the keys of cluster.workers
    connected,   \* worker.process.connected
    exited,      \* the worker's process emitted 'exit'
    unacked,     \* handles sent to the worker and not acknowledged
    handle,      \* handles[key] of the master: an element of Gen, or 0
    gens,        \* how many RoundRobinHandles were created
    rr,          \* the fields all, free and handles of each of them
    leaving,     \* cluster.disconnect() was called
    masterError, \* the failed assertion that ended the master, or "none"
    serving,     \* the worker's server: "no", "asked" (for a handle), "yes"
    up,          \* the worker: "unborn", "up", "closed" (its channel), "dead"
    listens,     \* how often the worker called listen()
    program,     \* the bounds
    toWorker,    \* the channel from the master to a worker
    toMaster,    \* the channel from a worker to the master
    arrived,     \* history: the connections the master accepted
    servedBy,    \* history: the workers that took a connection
    closed       \* history: the connections closed with the listener

masterVars == <<workers, connected, exited, unacked, handle, gens, rr, leaving,
                masterError>>
workerVars == <<serving, up, listens>>
history == <<arrived, servedBy, closed>>
vars == <<program, masterVars, workerVars, toWorker, toMaster, history>>

Unused == [all |-> {}, free |-> <<>>, handles |-> <<>>]

Init ==
    /\ program \in Programs
    /\ workers = {}
    /\ connected = [w \in Worker |-> FALSE]
    /\ exited = [w \in Worker |-> FALSE]
    /\ unacked = [w \in Worker |-> 0]
    /\ handle = 0
    /\ gens = 0
    /\ rr = [g \in Gen |-> Unused]
    /\ leaving = FALSE
    /\ masterError = "none"
    /\ serving = [w \in Worker |-> "no"]
    /\ up = [w \in Worker |-> "unborn"]
    /\ listens = [w \in Worker |-> 0]
    /\ toWorker = [w \in Worker |-> <<>>]
    /\ toMaster = [w \in Worker |-> <<>>]
    /\ arrived = {}
    /\ servedBy = [c \in Conn |-> {}]
    /\ closed = {}

MasterRuns == masterError = "none"
-----------------------------------------------------------------------------
(* RoundRobinHandle.  A method maps the handle's fields, with the newconn  *)
(* messages it sends in a field out, to the next ones.                     *)

Fields(g) == [out |-> <<>>] @@ rr[g]

Handoff(h, w) ==
    IF w \notin h.all THEN h
    ELSE IF h.handles = <<>> THEN [h EXCEPT !.free = Append(@, w)]
    ELSE [h EXCEPT !.handles = Tail(@),
                   !.out = Append(@, <<w, Head(h.handles)>>)]

Distribute(h, c) ==
    LET pushed == [h EXCEPT !.handles = Append(@, c)] IN
    IF h.free = <<>> THEN pushed
    ELSE Handoff([pushed EXCEPT !.free = Tail(@)], Head(h.free))

\* Faulty variant of Add: no handoff() for the connections already pending.
AddIdle(h, w) == [h EXCEPT !.all = @ \cup {w}, !.free = Append(@, w)]

Add(h, w) == Handoff([h EXCEPT !.all = @ \cup {w}], w)

\* Faulty variant of AfterReply: a connection handed back is not distributed.
AfterReplyDropped(h, w, m) == Handoff(h, w)

\* The callback of handoff(): an accepted connection is the worker's now, any
\* other is distributed again; either way the worker is ready for the next.
AfterReply(h, w, m) ==
    Handoff(IF m.accepted THEN h ELSE Distribute(h, m.conn), w)

\* Faulty variant of Commit: a handle is sent without waiting for its ACK.
CommitUnacked(g, h, first) ==
    LET Sent(w) == SelectSeq(h.out, LAMBDA o : o[1] = w /\ connected[w])
        Newconn(o) == [type |-> "newconn", conn |-> o[2], gen |-> g] IN
    /\ rr' = [rr EXCEPT ![g] = [all |-> h.all, free |-> h.free, handles |-> h.handles]]
    /\ UNCHANGED unacked
    /\ toWorker' = [w \in Worker |-> toWorker[w] \o first[w]
            \o [i \in 1..Len(Sent(w)) |-> Newconn(Sent(w)[i])]]

\* Faulty variant of Commit: done() forgets to call send().
CommitSilent(g, h, first) ==
    /\ rr' = [rr EXCEPT ![g] = [all |-> h.all, free |-> h.free, handles |-> h.handles]]
    /\ UNCHANGED <<unacked, toWorker>>

\* The fields of handle g become those of h, and what h has to send is sent,
\* after the messages in first.  To a worker that is not connected send()
\* sends nothing.  A newconn names the handle whose callback gets its reply.
Commit(g, h, first) ==
    LET Sent(w) == SelectSeq(h.out, LAMBDA o : o[1] = w /\ connected[w])
        Newconn(o) == [type |-> "newconn", conn |-> o[2], gen |-> g] IN
    /\ rr' = [rr EXCEPT ![g] = [all |-> h.all, free |-> h.free, handles |-> h.handles]]
    /\ unacked' = [w \in Worker |-> unacked[w] + Len(Sent(w))]
    /\ toWorker' = [w \in Worker |-> toWorker[w] \o first[w]
            \o [i \in 1..Len(Sent(w)) |-> Newconn(Sent(w)[i])]]

NoMessage == [w \in Worker |-> <<>>]

\* Faulty variant of Release: the worker stays in the ready queue.
ReleaseKeepsFree(w) ==
    LET h == rr[handle]
        last == h.all = {w} IN
    IF handle = 0 \/ w \notin h.all
      THEN UNCHANGED <<rr, handle, closed>>
      ELSE /\ rr' = [rr EXCEPT ![handle] =
                [all |-> h.all \ {w}, free |-> h.free,
                 handles |-> IF last THEN <<>> ELSE h.handles]]
           /\ closed' = IF last THEN closed \cup ToSet(h.handles) ELSE closed
           /\ handle' = IF last THEN 0 ELSE handle

\* remove() on the handle of the address: the last worker takes with it the
\* connections nobody took and handles[key].
Release(w) ==
    LET h == rr[handle]
        last == h.all = {w} IN
    IF handle = 0 \/ w \notin h.all
      THEN UNCHANGED <<rr, handle, closed>>
      ELSE /\ rr' = [rr EXCEPT ![handle] =
                [all |-> h.all \ {w}, free |-> RemoveFirst(h.free, w),
                 handles |-> IF last THEN <<>> ELSE h.handles]]
           /\ closed' = IF last THEN closed \cup ToSet(h.handles) ELSE closed
           /\ handle' = IF last THEN 0 ELSE handle
-----------------------------------------------------------------------------
(* The master's handlers                                                   *)

Fork(w) ==
    /\ MasterRuns /\ ~leaving /\ up[w] = "unborn"
    /\ workers' = workers \cup {w}
    /\ connected' = [connected EXCEPT ![w] = TRUE]
    /\ up' = [up EXCEPT ![w] = "up"]
    /\ UNCHANGED <<program, exited, unacked, handle, gens, rr, leaving, masterError, serving,
                   listens, toWorker, toMaster, history>>

\* The next message of w has the given type.
Receive(w, type) ==
    /\ MasterRuns /\ connected[w] /\ toMaster[w] # <<>>
    /\ Head(toMaster[w]).type = type
    /\ toMaster' = [toMaster EXCEPT ![w] = Tail(@)]

\* add() asserts that the handle does not have the worker yet.
AddFails(w) == handle # 0 /\ w \in rr[handle].all

\* The first worker to ask creates the handle.  When that cannot bind, the
\* worker gets the error and handles[key] is deleted for the next to retry.
QueryServer(w) ==
    LET Reply(errno) == [NoMessage EXCEPT ![w] = <<[type |-> "reply", errno |-> errno]>>] IN
    /\ Receive(w, "queryServer")
    /\ masterError' = IF AddFails(w) THEN "Already added." ELSE masterError
    /\ \/ /\ handle # 0
          /\ IF AddFails(w) THEN UNCHANGED <<rr, unacked, toWorker>>
             ELSE Commit(handle, Add(Fields(handle), w), Reply(FALSE))
          /\ UNCHANGED <<handle, gens>>
       \/ /\ handle = 0
          /\ handle' = gens + 1 /\ gens' = gens + 1
          /\ Commit(gens + 1, Add(Fields(gens + 1), w), Reply(FALSE))
       \/ /\ handle = 0 /\ BindMayFail
          /\ gens' = gens + 1
          /\ Commit(gens + 1, [Fields(gens + 1) EXCEPT !.all = {w}], Reply(TRUE))
          /\ UNCHANGED handle
    /\ UNCHANGED <<program, workers, connected, exited, leaving, workerVars, history>>

Connection(c) ==
    /\ MasterRuns /\ handle # 0 /\ c \in program.conns \ arrived
    /\ arrived' = arrived \cup {c}
    /\ Commit(handle, Distribute(Fields(handle), c), NoMessage)
    /\ UNCHANGED <<program, workers, connected, exited, handle, gens, leaving, masterError,
                   workerVars, toMaster, servedBy, closed>>

OnAck(w) ==
    /\ Receive(w, "ack")
    /\ unacked' = [unacked EXCEPT ![w] = @ - 1]
    /\ UNCHANGED <<program, workers, connected, exited, handle, gens, rr, leaving, masterError,
                   workerVars, toWorker, history>>

OnAccepted(w) ==
    LET m == Head(toMaster[w]) IN
    /\ Receive(w, "accepted")
    /\ Commit(m.gen, AfterReply(Fields(m.gen), w, m), NoMessage)
    /\ UNCHANGED <<program, workers, connected, exited, handle, gens, leaving, masterError,
                   workerVars, history>>

OnClose(w) ==
    /\ Receive(w, "close")
    /\ Release(w)
    /\ UNCHANGED <<program, workers, connected, exited, unacked, gens, leaving, masterError,
                   workerVars, toWorker, arrived, servedBy>>

\* removeWorker(), once the handle of the address is handle'.
RemoveWorker(w) ==
    /\ workers' = workers \ {w}
    /\ masterError' = IF workers' = {} /\ handle' # 0
                        THEN "Resource leak detected." ELSE masterError

\* The channel of w is at its end.  Only when no handle waits for its ACK does
\* the worker's process emit 'disconnect', whose listener does the rest.
OnEof(w) ==
    /\ MasterRuns /\ connected[w] /\ up[w] \in {"closed", "dead"} /\ toMaster[w] = <<>>
    /\ connected' = [connected EXCEPT ![w] = FALSE]
    /\ IF unacked[w] > 0
         THEN UNCHANGED <<rr, handle, closed, workers, masterError>>
         ELSE /\ Release(w)
              /\ IF exited[w] THEN RemoveWorker(w) ELSE UNCHANGED <<workers, masterError>>
    /\ UNCHANGED <<program, exited, unacked, gens, leaving, workerVars, toWorker, toMaster,
                   arrived, servedBy>>

\* Faulty variant of OnExit: the worker is removed while still connected.
OnExitAlways(w) ==
    /\ MasterRuns /\ up[w] = "dead" /\ ~exited[w]
    /\ exited' = [exited EXCEPT ![w] = TRUE]
    /\ UNCHANGED handle
    /\ RemoveWorker(w)
    /\ UNCHANGED <<program, connected, unacked, gens, rr, leaving, workerVars, toWorker,
                   toMaster, history>>

OnExit(w) ==
    /\ MasterRuns /\ up[w] = "dead" /\ ~exited[w]
    /\ exited' = [exited EXCEPT ![w] = TRUE]
    /\ UNCHANGED handle
    /\ IF connected[w] THEN UNCHANGED <<workers, masterError>> ELSE RemoveWorker(w)
    /\ UNCHANGED <<program, connected, unacked, gens, rr, leaving, workerVars, toWorker,
                   toMaster, history>>

\* Faulty variant of DisconnectAll: only workers on a handle are told.
DisconnectListening ==
    /\ MasterRuns /\ ~leaving
    /\ leaving' = TRUE
    /\ toWorker' = [w \in Worker |-> IF handle # 0 /\ w \in rr[handle].all /\ connected[w]
            THEN Append(toWorker[w], [type |-> "disconnect"]) ELSE toWorker[w]]
    /\ UNCHANGED <<program, workers, connected, exited, unacked, handle, gens, rr, masterError,
                   workerVars, toMaster, history>>

\* cluster.disconnect() tells every connected worker to disconnect.
DisconnectAll ==
    /\ MasterRuns /\ ~leaving
    /\ leaving' = TRUE
    /\ toWorker' = [w \in Worker |-> IF w \in workers /\ connected[w]
            THEN Append(toWorker[w], [type |-> "disconnect"]) ELSE toWorker[w]]
    /\ UNCHANGED <<program, workers, connected, exited, unacked, handle, gens, rr, masterError,
                   workerVars, toMaster, history>>
-----------------------------------------------------------------------------
(* The workers                                                             *)

Tell(w, messages) == toMaster' = [toMaster EXCEPT ![w] = @ \o messages]

\* server.listen() of a worker: cluster._getServer().
Listen(w) ==
    /\ up[w] = "up" /\ serving[w] = "no" /\ listens[w] < program.listens[w]
    /\ listens' = [listens EXCEPT ![w] = @ + 1]
    /\ serving' = [serving EXCEPT ![w] = "asked"]
    /\ Tell(w, <<[type |-> "queryServer"]>>)
    /\ UNCHANGED <<program, masterVars, up, toWorker, history>>

\* Faulty variant of Closing: close() runs again on a closed faux handle.
ClosingAgain(w) == <<[type |-> "close"]>>

\* close() of the faux handle.
Closing(w) == IF serving[w] = "yes" THEN <<[type |-> "close"]>> ELSE <<>>

CloseServer(w) ==
    /\ up[w] = "up" /\ serving[w] = "yes"
    /\ serving' = [serving EXCEPT ![w] = "no"]
    /\ Tell(w, Closing(w))
    /\ UNCHANGED <<program, masterVars, up, listens, toWorker, history>>

\* The next message of the master has the given type.
Take(w, type) ==
    /\ up[w] = "up" /\ toWorker[w] # <<>>
    /\ Head(toWorker[w]).type = type
    /\ toWorker' = [toWorker EXCEPT ![w] = Tail(@)]

OnQueryReply(w) ==
    /\ Take(w, "reply")
    /\ serving' = [serving EXCEPT ![w] = IF Head(toWorker[w]).errno THEN "no" ELSE "yes"]
    /\ UNCHANGED <<program, masterVars, up, listens, toMaster, history>>

\* onconnection(): the channel acknowledges the handle before the message is
\* delivered; a connection for a server that is gone goes back to the master.
OnNewconn(w) ==
    LET m == Head(toWorker[w])
        accepted == serving[w] = "yes" IN
    /\ Take(w, "newconn")
    /\ Tell(w, <<[type |-> "ack"],
                 [type |-> "accepted", accepted |-> accepted, conn |-> m.conn, gen |-> m.gen]>>)
    /\ servedBy' = [servedBy EXCEPT ![m.conn] = IF accepted THEN @ \cup {w} ELSE @]
    /\ UNCHANGED <<program, masterVars, workerVars, arrived, closed>>

\* Worker.prototype.disconnect: close what is served, then the channel.
DoDisconnect(w) ==
    /\ serving' = [serving EXCEPT ![w] = "no"]
    /\ up' = [up EXCEPT ![w] = "closed"]
    /\ Tell(w, Closing(w))

OnDisconnect(w) ==
    /\ Take(w, "disconnect")
    /\ DoDisconnect(w)
    /\ UNCHANGED <<program, masterVars, listens, history>>

WorkerDisconnect(w) ==
    /\ up[w] = "up"
    /\ DoDisconnect(w)
    /\ UNCHANGED <<program, masterVars, listens, toWorker, history>>

\* Worker.prototype.destroy closes the channel only; the exit follows.
WorkerDestroy(w) ==
    /\ up[w] = "up"
    /\ up' = [up EXCEPT ![w] = "closed"]
    /\ UNCHANGED <<program, masterVars, serving, listens, toWorker, toMaster, history>>

\* A worker without a channel exits when it has nothing left to do.
Exit(w) ==
    /\ up[w] = "closed"
    /\ up' = [up EXCEPT ![w] = "dead"]
    /\ UNCHANGED <<program, masterVars, serving, listens, toWorker, toMaster, history>>

\* A worker dies; if it was answering a newconn, maybe after the ACK only.
Crash(w) ==
    /\ w \in MayCrash /\ up[w] = "up"
    /\ up' = [up EXCEPT ![w] = "dead"]
    /\ \/ UNCHANGED <<toWorker, toMaster>>
       \/ /\ Take(w, "newconn")
          /\ Tell(w, <<[type |-> "ack"]>>)
    /\ UNCHANGED <<program, masterVars, serving, listens, history>>
-----------------------------------------------------------------------------
Master(w) == \/ QueryServer(w) \/ OnAck(w) \/ OnAccepted(w) \/ OnClose(w)
             \/ OnEof(w) \/ OnExit(w)
Reads(w) == OnQueryReply(w) \/ OnNewconn(w) \/ OnDisconnect(w)
Program(w) == \/ Fork(w) \/ Listen(w) \/ CloseServer(w) \/ WorkerDisconnect(w)
              \/ WorkerDestroy(w) \/ Crash(w)

Next ==
    \/ \E w \in Worker : Master(w) \/ Reads(w) \/ Program(w) \/ Exit(w)
    \/ \E c \in Conn : Connection(c)
    \/ DisconnectAll

\* The event loops of the master and of the workers handle what arrives; the
\* program and the network owe nothing, and a worker need not exit.
Fairness == \A w \in Worker : WF_vars(Master(w)) /\ WF_vars(Reads(w))

Spec == Init /\ [][Next]_vars /\ Fairness
-----------------------------------------------------------------------------
(* Properties                                                              *)

Messages ==
    [type : {"queryServer", "ack", "close"}]
        \cup [type : {"accepted"}, accepted : BOOLEAN, conn : Conn, gen : Gen]
Orders ==
    [type : {"disconnect"}] \cup [type : {"reply"}, errno : BOOLEAN]
        \cup [type : {"newconn"}, conn : Conn, gen : Gen]

\* Every variable has its type: the tables of the master, the worker states
\* and the messages of lib/cluster.js.
TypeOK ==
    /\ workers \subseteq Worker
    /\ connected \in [Worker -> BOOLEAN] /\ exited \in [Worker -> BOOLEAN]
    /\ unacked \in [Worker -> Nat]
    /\ gens \in 0..Cardinality(Gen) /\ handle \in 0..gens
    /\ \A g \in Gen : /\ DOMAIN rr[g] = {"all", "free", "handles"}
                      /\ rr[g].all \subseteq Worker
                      /\ rr[g].free \in Seq(Worker) /\ rr[g].handles \in Seq(Conn)
    /\ leaving \in BOOLEAN
    /\ masterError \in {"none", "Already added.", "Resource leak detected."}
    /\ serving \in [Worker -> {"no", "asked", "yes"}]
    /\ up \in [Worker -> {"unborn", "up", "closed", "dead"}]
    /\ \A w \in Worker : listens[w] \in 0..program.listens[w]
    /\ \A w \in Worker : toWorker[w] \in Seq(Orders) /\ toMaster[w] \in Seq(Messages)
    /\ arrived \subseteq Conn /\ closed \subseteq Conn
    /\ servedBy \in [Conn -> SUBSET Worker]

\* How often connection c waits in a handle, is on its way to a worker, is on
\* its way back, and is with a worker.
Copies(c) ==
    LET Waits(g) == {i \in DOMAIN rr[g].handles : rr[g].handles[i] = c}
        Out(w) == {i \in DOMAIN toWorker[w] : /\ toWorker[w][i].type = "newconn"
                                              /\ toWorker[w][i].conn = c}
        Back(w) == {i \in DOMAIN toMaster[w] : /\ toMaster[w][i].type = "accepted"
                                               /\ ~toMaster[w][i].accepted
                                               /\ toMaster[w][i].conn = c} IN
    Cardinality(UNION {{g} \X Waits(g) : g \in Gen})
        + Cardinality(UNION {{w} \X Out(w) : w \in Worker})
        + Cardinality(UNION {{w} \X Back(w) : w \in Worker})
        + Cardinality(servedBy[c])
        + Cardinality(closed \cap {c})

\* The channel of w ended with a handle the worker had not acknowledged.
Stranded(w) == ~connected[w] /\ unacked[w] > 0

\* handoff() and its reply never duplicate a connection: one that arrived is in
\* at most one of these places, whatever closes, listens again, disconnects or
\* hands back meanwhile.  It is in none of them only after a worker died
\* between its ACK and its reply, or after send() found the channel of a
\* stranded worker closed.  (A place need not lead on: the channel of a worker
\* that ended and the queue of a handle without workers keep what they have.)
OneCopy == \A c \in arrived :
    /\ Copies(c) <= 1
    /\ Copies(c) = 0 => \E w \in Worker : Stranded(w) \/ (w \in MayCrash /\ up[w] = "dead")

\* A connection never waits in the listening handle while distribute() has a
\* free worker for it.  This is so until a worker listens again: it may then be
\* in the ready queue twice, and leave an entry there when it closes, which
\* distribute() takes in vain.
NoIdleWorker ==
    /\ handle # 0 /\ rr[handle].handles # <<>>
    /\ \A w \in Worker : listens[w] <= 1
    => rr[handle].free = <<>>

\* A worker in the ready queue has no connection to answer for: none is on its
\* way to it, and no reply of its is on its way back.  This is so until it
\* listens again: a reply from before may then put it there a second time.
FreeIsIdle == \A w \in Worker :
    handle # 0 /\ w \in ToSet(rr[handle].free) /\ listens[w] <= 1 =>
        /\ w \in rr[handle].all
        /\ unacked[w] = 0
        /\ \A i \in DOMAIN toMaster[w] : toMaster[w][i].type # "accepted"

\* The master's handles are what the messages take them for, also when workers
\* close and listen again.  close() dereferences handles[key] unchecked: the
\* handle that a worker's close message is about is there when it arrives.  And
\* what add() asserts holds: a worker that asks is not on the handle yet.
MessagesFindHandle ==
    /\ \A w \in Worker : connected[w] /\ [type |-> "close"] \in ToSet(toMaster[w]) =>
         handle # 0 /\ w \in rr[handle].all
    /\ masterError # "Already added."

\* A worker leaves cluster.workers only after both its exit and the end of its
\* channel, and (unless the channel died with an unacknowledged handle) after
\* it was taken off the handle it served.
RemovedIsGone == \A w \in Worker :
    up[w] # "unborn" /\ w \notin workers =>
        /\ exited[w] /\ ~connected[w]
        /\ handle # 0 /\ w \in rr[handle].all => unacked[w] > 0

\* The event loops have handled all that arrived: no message that somebody can
\* read, no end of a channel and no exit is left.
Settled ==
    /\ MasterRuns
    /\ \A w \in Worker :
         /\ connected[w] => toMaster[w] = <<>> /\ up[w] = "up"
         /\ up[w] = "up" => toWorker[w] = <<>>
         /\ up[w] = "dead" => exited[w]

\* A worker that called listen() does not wait in vain: when all is handled, it
\* got the address or, where binding failed, the error.
ListenIsAnswered == Settled =>
    \A w \in Worker : up[w] = "up" => serving[w] # "asked"

\* After cluster.disconnect(), when all is handled and every worker that
\* disconnected has exited, cluster.workers is empty, which is when the
\* callback runs; unless a channel ended with an unacknowledged handle.
DisconnectCompletes ==
    /\ Settled /\ leaving
    /\ \A w \in Worker : up[w] # "closed" /\ ~Stranded(w)
    => workers = {}

\* What removeWorker() asserts: when the last worker is gone, no handle is left.
\* This does not hold.
NoResourceLeak == masterError # "Resource leak detected."

\* A connection a worker hands back because its server is closing is sent to
\* another worker or closed.  This does not hold.
ReturnedIsSettled == \A c \in Conn :
    (\E w \in Worker : \E i \in DOMAIN toMaster[w] :
        /\ toMaster[w][i].type = "accepted" /\ ~toMaster[w][i].accepted
        /\ toMaster[w][i].conn = c)
    ~> c \in closed \/ servedBy[c] # {} \/ ~MasterRuns
=============================================================================
