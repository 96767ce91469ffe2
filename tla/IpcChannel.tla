----------------------------- MODULE IpcChannel -----------------------------
(***************************************************************************)
(* The IPC channel between a parent and a forked child: setupChannel() of  *)
(* lib/child_process.js, which both ends run over the two ends of one      *)
(* socket pair.  A message that carries a handle (a socket, a server) must *)
(* be acknowledged before anything else may be written, because the kernel *)
(* attaches the file descriptor to the byte stream; until then messages    *)
(* wait in _handleQueue.                                                   *)
(*                                                                         *)
(* An endpoint runs JavaScript: onread, one message at a time, then the    *)
(* nextTick queue, then the next event.  User code (Send, Disconnect) runs *)
(* in message handlers, ticks and other callbacks, hence between any two   *)
(* steps.  The wire keeps bytes in order and loses them only when the      *)
(* reader has closed its end; bytes written to a closed end stay on the    *)
(* wire, where nobody reads them.                                          *)
(***************************************************************************)
EXTENDS Naturals, Sequences, FiniteSets

CONSTANTS
    MaxSend,     \* bound: how many messages each endpoint sends
    Sends,       \* the kinds of messages each endpoint sends
    Splittable,  \* the kinds long enough to be read in two pieces (> 64 KB)
    MayCrash,    \* the endpoints whose process may be killed
    MayDisconnect \* the endpoints whose user code may call disconnect()

Endpoint == {"parent", "child"}

\* Plain text, an internal message (its cmd starts with NODE_), and the
\* handles: those emitted at once and those emitted by a callback.
HandleKinds == {"socket", "server"}
Kinds == {"text", "internal"} \cup HandleKinds

ASSUME IpcAssumption ==
    /\ MaxSend \in [Endpoint -> Nat]
    /\ Sends \in [Endpoint -> SUBSET Kinds]
    /\ Splittable \subseteq Kinds
    /\ MayCrash \subseteq Endpoint
    /\ MayDisconnect \subseteq Endpoint

Peer(p) == IF p = "parent" THEN "child" ELSE "parent"

\* A message is its number among those its sender was allowed to send, and
\* the kind of handle it carries; the handle has the number of its message.
Message == [id : Nat \ {0}, kind : Kinds]
Ack     == [id |-> 0, kind |-> "ack"]
IsHandle(m) == m.kind \in HandleKinds

VARIABLES
    connected,    \* target.connected
    channel,      \* target._channel is not null
    waiting,      \* target._handleQueue is not null: an ACK is outstanding
    handleQueue,  \* the entries of target._handleQueue
    buffering,    \* channel.buffering
    once,         \* events whose next emission calls finish()
    open,         \* the pipe handle has not been closed
    alive,        \* the process runs
    wire,         \* wire[p]: written by p, not yet read by its peer
    split,        \* the first part of the next message is in jsonBuffer
    reading,      \* inside onread
    inbox,        \* complete messages of the chunk, not yet emitted
    recvHandle,   \* the handle that came with the chunk (0: none)
    ticks,        \* the nextTick queue: "finish" or a deferred emit
    accepted,     \* history: the kinds of the messages send() took
    delivered,    \* history: 'message' events, with message and handle
    disconnects,  \* history: 'disconnect' events
    asked,        \* history: user code called disconnect()
    failed        \* history: the assertion that killed the process

control == <<connected, channel, waiting, handleQueue, buffering, once>>
vars == <<control, open, alive, wire, split, reading, inbox, recvHandle,
          ticks, accepted, delivered, disconnects, asked, failed>>

Set(f, p, v) == [f EXCEPT ![p] = v]
Push(f, p, v) == [f EXCEPT ![p] = Append(@, v)]

Finish == [id |-> 0, kind |-> "finish", handle |-> 0]

Init ==
    /\ connected = [p \in Endpoint |-> TRUE]
    /\ channel = [p \in Endpoint |-> TRUE]
    /\ waiting = [p \in Endpoint |-> FALSE]
    /\ handleQueue = [p \in Endpoint |-> <<>>]
    /\ buffering = [p \in Endpoint |-> FALSE]
    /\ once = [p \in Endpoint |-> {}]
    /\ open = [p \in Endpoint |-> TRUE]
    /\ alive = [p \in Endpoint |-> TRUE]
    /\ wire = [p \in Endpoint |-> <<>>]
    /\ split = [p \in Endpoint |-> FALSE]
    /\ reading = [p \in Endpoint |-> FALSE]
    /\ inbox = [p \in Endpoint |-> <<>>]
    /\ recvHandle = [p \in Endpoint |-> 0]
    /\ ticks = [p \in Endpoint |-> <<>>]
    /\ accepted = [p \in Endpoint |-> <<>>]
    /\ delivered = [p \in Endpoint |-> <<>>]
    /\ disconnects = [p \in Endpoint |-> 0]
    /\ asked = [p \in Endpoint |-> FALSE]
    /\ failed = [p \in Endpoint |-> "none"]
-----------------------------------------------------------------------------
(* send() and disconnect(), called by user code                            *)

\* Faulty variant of OpensQueue: sending a handle does not start to wait.
NeverWaits(m) == FALSE

\* Once a handle is written, _handleQueue is an array until the ACK comes.
OpensQueue(m) == IsHandle(m)

\* Faulty variant of MustQueue: only handles wait.
QueueHandlesOnly(p, kind) == waiting[p] /\ kind \in HandleKinds

\* _send() queues a message behind an unacknowledged handle: one with a handle
\* because only one may be on its way, any other to keep the order.
MustQueue(p, kind) == waiting[p]

\* send() on a disconnected channel only emits 'error' and changes nothing.
\* A handle that is gone before send() makes the message a "text"; one in the
\* queue is still there when the queue is flushed.
Send(p, kind) ==
    /\ alive[p] /\ connected[p] /\ Len(accepted[p]) < MaxSend[p]
    /\ accepted' = Push(accepted, p, kind)
    /\ LET m == [id |-> Len(accepted[p]) + 1, kind |-> kind] IN
       \/ /\ MustQueue(p, kind)
          /\ handleQueue' = Push(handleQueue, p, m)
          /\ UNCHANGED <<wire, waiting>>
       \/ /\ ~MustQueue(p, kind)
          /\ wire' = Push(wire, p, m)
          /\ waiting' = Set(waiting, p, waiting[p] \/ OpensQueue(m))
          /\ UNCHANGED handleQueue
    /\ UNCHANGED <<connected, channel, buffering, once, open, alive, split,
                   reading, inbox, recvHandle, ticks, delivered, disconnects,
                   asked, failed>>

\* Faulty variant of DoDisconnect: listens to an event nobody emits.
DoDisconnectTypo(p, isBuffering) ==
    /\ channel' = Set(channel, p, FALSE)
    /\ once' = IF isBuffering THEN Set(once, p, {"data"}) ELSE once
    /\ ticks' = IF isBuffering THEN ticks ELSE Push(ticks, p, Finish)

\* _disconnect(): give the channel up, and finish in the next tick or, when
\* a message is being read, once it has been emitted.
DoDisconnect(p, isBuffering) ==
    /\ channel' = Set(channel, p, FALSE)
    /\ once' = IF isBuffering
                 THEN Set(once, p, {"message", "internalMessage"}) ELSE once
    /\ ticks' = IF isBuffering THEN ticks ELSE Push(ticks, p, Finish)

\* Faulty variant of QueueIsPending: disconnect() does not look at the queue.
NeverPending(p) == FALSE

\* disconnect() postpones the disconnect until the queue is flushed.
QueueIsPending(p) == waiting[p]

\* A second disconnect() only emits 'error'.
Disconnect(p) ==
    /\ alive[p] /\ connected[p] /\ p \in MayDisconnect
    /\ connected' = Set(connected, p, FALSE)
    /\ asked' = Set(asked, p, TRUE)
    /\ \/ /\ ~QueueIsPending(p)
          /\ DoDisconnect(p, buffering[p])
       \/ /\ QueueIsPending(p)
          /\ UNCHANGED <<channel, once, ticks>>
    /\ UNCHANGED <<waiting, handleQueue, buffering, open, alive, wire, split,
                   reading, inbox, recvHandle, accepted, delivered,
                   disconnects, failed>>
-----------------------------------------------------------------------------
(* onread                                                                  *)

\* The messages whose first byte is in a chunk of n complete messages and,
\* if s, the first part of another.
Starts(p, n, s) == (IF split[p] THEN 2 ELSE 1) .. (IF s THEN n + 1 ELSE n)

\* recvmsg() returns what it has up to, and including, the first piece of
\* data that carries a descriptor: a message with a handle is the last one
\* to start in its chunk, and its handle comes with its first byte.
Read(p) ==
    /\ alive[p] /\ open[p] /\ ~reading[p] /\ ticks[p] = <<>>
    /\ LET in == wire[Peer(p)] IN
       \E n \in 0..Len(in), s \in BOOLEAN :
         /\ s => n < Len(in) /\ in[n + 1].kind \in Splittable
         /\ n > 0 \/ (s /\ ~split[p])
         /\ \A i, j \in Starts(p, n, s) : IsHandle(in[i]) => j <= i
         /\ inbox' = Set(inbox, p, SubSeq(in, 1, n))
         /\ wire' = Set(wire, Peer(p), SubSeq(in, n + 1, Len(in)))
         /\ split' = Set(split, p, s)
         /\ recvHandle' = Set(recvHandle, p,
              IF \E i \in Starts(p, n, s) : IsHandle(in[i])
                THEN in[CHOOSE i \in Starts(p, n, s) : IsHandle(in[i])].id
                ELSE 0)
    /\ reading' = Set(reading, p, TRUE)
    /\ UNCHANGED <<control, open, alive, ticks, accepted, delivered,
                   disconnects, asked, failed>>

\* Faulty variant of Emit: finish() without the flag fired.
EmitUnguarded(p, raised) ==
    LET calls == once[p] \cap raised IN
    /\ once' = Set(once, p, once[p] \ raised)
    /\ open' = IF calls # {} THEN Set(open, p, FALSE) ELSE open
    /\ disconnects' = [disconnects EXCEPT ![p] = @ + Cardinality(calls)]

\* finish() runs for each event of raised it was registered for; the flag
\* fired lets only the first call through.
Emit(p, raised) ==
    LET calls == once[p] \cap raised
        first == calls # {} /\ disconnects[p] = 0 IN
    /\ once' = Set(once, p, once[p] \ raised)
    /\ open' = IF first THEN Set(open, p, FALSE) ELSE open
    /\ disconnects' = IF first THEN Set(disconnects, p, 1) ELSE disconnects

\* handleMessage(): the event an ordinary message is emitted as.
EventName(m) == IF m.kind = "internal" THEN "internalMessage" ELSE "message"

\* A message without a handle is emitted at once.
OnText(p) ==
    /\ alive[p] /\ reading[p] /\ inbox[p] # <<>>
    /\ LET m == Head(inbox[p]) IN
       /\ m.kind \in {"text", "internal"}
       /\ delivered' = Push(delivered, p, [id |-> m.id, handle |-> 0])
       /\ Emit(p, {EventName(m)})
    /\ inbox' = Set(inbox, p, Tail(inbox[p]))
    /\ UNCHANGED <<connected, channel, waiting, handleQueue, buffering, alive,
                   wire, split, reading, recvHandle, ticks, accepted, asked,
                   failed>>

\* Faulty variant of Flushed: the ACK sends only the first message of the queue.
FlushedOne(q) == {i \in 1..Len(q) : i = 1}

\* The part of a queue that _send() writes when it is flushed: up to its
\* first handle, after which the rest has to wait for another ACK.
Flushed(q) ==
    {i \in 1..Len(q) : \A j \in 1..(i - 1) : ~IsHandle(q[j])}

\* NODE_HANDLE_ACK: flush the queue, then process a pending disconnect.
\* A listener that _disconnect() adds is not called by the event in progress.
OnAck(p) ==
    /\ alive[p] /\ reading[p] /\ inbox[p] # <<>> /\ Head(inbox[p]).kind = "ack"
    /\ inbox' = Set(inbox, p, Tail(inbox[p]))
    /\ LET q == handleQueue[p]
           n == Cardinality(Flushed(q))
           again == n > 0 /\ OpensQueue(q[n]) IN
       /\ wire' = Set(wire, p, wire[p] \o SubSeq(q, 1, n))
       /\ handleQueue' = Set(handleQueue, p, SubSeq(q, n + 1, Len(q)))
       /\ waiting' = Set(waiting, p, again)
       /\ \/ /\ ~connected[p] /\ channel[p] /\ ~again
             /\ DoDisconnect(p, buffering[p])
             /\ UNCHANGED <<open, disconnects>>
          \/ /\ connected[p] \/ ~channel[p] \/ again
             /\ Emit(p, {"internalMessage"})
             /\ UNCHANGED <<channel, ticks>>
    /\ UNCHANGED <<connected, buffering, alive, split, reading, recvHandle,
                   accepted, delivered, asked, failed>>

\* Faulty variant of CanAck: without the assertion.
AlwaysAck(p) == TRUE

\* _send() asserts that the channel has not been given up.
CanAck(p) == connected[p] \/ channel[p]

\* NODE_HANDLE: acknowledge, convert, emit.  A server is emitted by the
\* callback of listen(), one tick later.
OnHandle(p) ==
    /\ alive[p] /\ reading[p] /\ inbox[p] # <<>> /\ IsHandle(Head(inbox[p]))
    /\ LET m == Head(inbox[p])
           got == [id |-> m.id, handle |-> recvHandle[p]] IN
       /\ inbox' = Set(inbox, p, Tail(inbox[p]))
       /\ \/ /\ ~CanAck(p)
             /\ failed' = Set(failed, p, "cannot ack")
             /\ alive' = Set(alive, p, FALSE)
             /\ open' = Set(open, p, FALSE)
             /\ UNCHANGED <<wire, delivered, ticks, once, disconnects>>
          \/ /\ CanAck(p)
             /\ wire' = Push(wire, p, Ack)
             /\ \/ /\ m.kind = "socket"
                   /\ delivered' = Push(delivered, p, got)
                   /\ Emit(p, {"message", "internalMessage"})
                   /\ UNCHANGED ticks
                \/ /\ m.kind = "server"
                   /\ ticks' = Push(ticks, p, [id |-> m.id, kind |-> "emit",
                                               handle |-> recvHandle[p]])
                   /\ Emit(p, {"internalMessage"})
                   /\ UNCHANGED delivered
             /\ UNCHANGED <<alive, failed>>
    /\ UNCHANGED <<connected, channel, waiting, handleQueue, buffering, split,
                   reading, recvHandle, accepted, asked>>

\* The loop over the chunk is over: what is left of jsonBuffer is a part of
\* the next message.
EndRead(p) ==
    /\ alive[p] /\ reading[p] /\ inbox[p] = <<>>
    /\ reading' = Set(reading, p, FALSE)
    /\ buffering' = Set(buffering, p, split[p])
    /\ recvHandle' = Set(recvHandle, p, 0)
    /\ UNCHANGED <<connected, channel, waiting, handleQueue, once, open, alive,
                   wire, split, inbox, ticks, accepted, delivered,
                   disconnects, asked, failed>>

\* End of file: the peer has closed its end and everything was read.  The
\* handler calls target.disconnect(), which emits 'error' if disconnect()
\* was called before, and closes the pipe.
OnEof(p) ==
    /\ alive[p] /\ open[p] /\ ~reading[p] /\ ticks[p] = <<>>
    /\ ~open[Peer(p)] /\ wire[Peer(p)] = <<>>
    /\ buffering' = Set(buffering, p, FALSE)
    /\ open' = Set(open, p, FALSE)
    /\ connected' = Set(connected, p, FALSE)
    /\ \/ /\ connected[p] /\ ~waiting[p]
          /\ DoDisconnect(p, FALSE)
       \/ /\ ~connected[p] \/ waiting[p]
          /\ UNCHANGED <<channel, once, ticks>>
    /\ UNCHANGED <<waiting, handleQueue, alive, wire, split, reading, inbox,
                   recvHandle, accepted, delivered, disconnects, asked, failed>>
-----------------------------------------------------------------------------
(* The nextTick queue, and the death of a process                          *)

FinishTick(p) ==
    /\ alive[p] /\ ~reading[p] /\ ticks[p] # <<>> /\ Head(ticks[p]) = Finish
    /\ ticks' = Set(ticks, p, Tail(ticks[p]))
    /\ open' = Set(open, p, FALSE)
    /\ disconnects' = [disconnects EXCEPT ![p] = IF @ = 0 THEN 1 ELSE @]
    /\ UNCHANGED <<control, alive, wire, split, reading, inbox, recvHandle,
                   accepted, delivered, asked, failed>>

EmitTick(p) ==
    /\ alive[p] /\ ~reading[p] /\ ticks[p] # <<>> /\ Head(ticks[p]).kind = "emit"
    /\ ticks' = Set(ticks, p, Tail(ticks[p]))
    /\ delivered' = Push(delivered, p, [id |-> Head(ticks[p]).id,
                                        handle |-> Head(ticks[p]).handle])
    /\ Emit(p, {"message"})
    /\ UNCHANGED <<connected, channel, waiting, handleQueue, buffering, alive,
                   wire, split, reading, inbox, recvHandle, accepted, asked,
                   failed>>

\* The process is killed: the kernel closes its end of the pipe.
Crash(p) ==
    /\ alive[p] /\ p \in MayCrash
    /\ alive' = Set(alive, p, FALSE)
    /\ open' = Set(open, p, FALSE)
    /\ UNCHANGED <<control, wire, split, reading, inbox, recvHandle, ticks,
                   accepted, delivered, disconnects, asked, failed>>

\* What the runtime does by itself, as opposed to what user code asks for.
Runtime(p) == Read(p) \/ OnText(p) \/ OnAck(p) \/ OnHandle(p) \/ EndRead(p)
                \/ OnEof(p) \/ FinishTick(p) \/ EmitTick(p)

Next == \E p \in Endpoint :
    \/ \E kind \in Sends[p] : Send(p, kind)
    \/ Disconnect(p)
    \/ Read(p)
    \/ OnText(p)
    \/ OnAck(p)
    \/ OnHandle(p)
    \/ EndRead(p)
    \/ OnEof(p)
    \/ FinishTick(p)
    \/ EmitTick(p)
    \/ Crash(p)

\* The event loop runs what is ready; nothing obliges user code to act.
Fairness == \A p \in Endpoint : WF_vars(Runtime(p))

Spec == Init /\ [][Next]_vars /\ Fairness
-----------------------------------------------------------------------------
(* Properties                                                              *)

Entry == Message \cup {Ack}

\* The types of the state of both ends.
TypeOK ==
    /\ connected \in [Endpoint -> BOOLEAN] /\ channel \in [Endpoint -> BOOLEAN]
    /\ waiting \in [Endpoint -> BOOLEAN] /\ buffering \in [Endpoint -> BOOLEAN]
    /\ open \in [Endpoint -> BOOLEAN] /\ alive \in [Endpoint -> BOOLEAN]
    /\ split \in [Endpoint -> BOOLEAN] /\ reading \in [Endpoint -> BOOLEAN]
    /\ asked \in [Endpoint -> BOOLEAN]
    /\ handleQueue \in [Endpoint -> Seq(Message)]
    /\ wire \in [Endpoint -> Seq(Entry)]
    /\ inbox \in [Endpoint -> Seq(Entry)]
    /\ once \in [Endpoint -> SUBSET {"message", "internalMessage"}]
    /\ recvHandle \in [Endpoint -> Nat]
    /\ accepted \in [Endpoint -> Seq(Kinds)]
    /\ delivered \in [Endpoint -> Seq([id : Nat, handle : Nat])]
    /\ ticks \in [Endpoint -> Seq([id : Nat, kind : {"finish", "emit"},
                                   handle : Nat])]
    /\ disconnects \in [Endpoint -> Nat]
    /\ failed \in [Endpoint -> {"none", "cannot ack"}]

\* Where a handle of p, or the ACK for it, is on its way.
InFlight(p) ==
    LET q == Peer(p) IN
    {<<"wire", i>> : i \in {j \in DOMAIN wire[p] : IsHandle(wire[p][j])}}
    \cup {<<"inbox", i>> : i \in {j \in DOMAIN inbox[q] : IsHandle(inbox[q][j])}}
    \cup {<<"ack wire", i>> : i \in {j \in DOMAIN wire[q] : wire[q][j] = Ack}}
    \cup {<<"ack inbox", i>> : i \in {j \in DOMAIN inbox[p] : inbox[p][j] = Ack}}

\* The handshake behind _handleQueue: at most one handle, or the ACK for it,
\* is on its way, and exactly while _handleQueue is not null; so an ACK finds
\* a queue (the assertion of the internalMessage handler), and the queue
\* cannot stay for ever unless the peer died over the handle.
OneHandleInFlight == \A p \in Endpoint :
    /\ \A x, y \in InFlight(p) : x = y
    /\ InFlight(p) # {} => waiting[p]
    /\ waiting[p] /\ failed[Peer(p)] = "none" => InFlight(p) # {}
    /\ handleQueue[p] # <<>> => waiting[p]

\* disconnect() leaves nothing behind: a channel is given up only when every
\* message send() took has been written (the three states described above
\* target.connected), and a channel that was not given up has not finished.
NothingLeftBehind == \A p \in Endpoint :
    /\ connected[p] => channel[p]
    /\ ~channel[p] => ~waiting[p] /\ handleQueue[p] = <<>>
    /\ disconnects[p] > 0 => ~channel[p] /\ ~open[p]

\* 'disconnect' is emitted at most once, although finish() may be called by
\* several events.
DisconnectOnce == \A p \in Endpoint : disconnects[p] <= 1

\* An endpoint never writes to the pipe it has closed, not even an ACK.
NoWriteAfterClose ==
    [][\A p \in Endpoint : ~open[p] => Len(wire'[p]) <= Len(wire[p])]_vars

\* What the two ends promise together: see FifoLink.
Fifo == INSTANCE FifoLink WITH accepted <- accepted, delivered <- delivered
FifoSpec == Fifo!Spec

\* Every message that send() took reaches the peer, whatever both ends send
\* at the same time and even if its sender disconnects right after, unless
\* the peer itself disconnects or one of the processes dies.
SentIsDelivered == \A p \in Endpoint : \A n \in 1..MaxSend[p] :
    Len(accepted[p]) >= n
      ~> \/ Len(delivered[Peer(p)]) >= n
         \/ asked[Peer(p)] \/ ~alive[p] \/ ~alive[Peer(p)]

\* doc/api/child_process.markdown on 'disconnect': the event "is emitted after
\* calling the .disconnect() method in the parent or in the child".
DisconnectIsEmitted == \A p \in Endpoint :
    ~connected[p] ~> disconnects[p] > 0 \/ ~alive[p]
=============================================================================
