-------------------------- MODULE IpcChannelProofs --------------------------
(***************************************************************************)
(* Proofs about IpcChannel, for any number of messages, any kinds sent by  *)
(* either end, and any ends that crash and disconnect.                     *)
(***************************************************************************)
EXTENDS IpcChannel, FiniteSetTheorems, SequenceTheorems, WellFoundedInduction, TLAPS

-----------------------------------------------------------------------------
(* What flushing the queue writes                                          *)

\* A set of naturals that is not empty has a least element.
LEMMA LeastNat ==
    ASSUME NEW T, T \subseteq Nat, T # {}
    PROVE  \E x \in T : \A y \in T : x <= y
<1>1. IsWellFoundedOn(OpToRel(<, Nat), Nat)
  BY NatLessThanWellFounded
<1>2. PICK x \in T : \A y \in T : ~(<<y, x>> \in OpToRel(<, Nat))
  BY <1>1, WFMin
<1>3. \A y \in T : ~(y < x)
  BY <1>2 DEF OpToRel
<1> QED
  BY <1>3

\* Flushing the queue on an ACK writes a prefix of it, which is the whole
\* queue unless it ends with a handle, and has no handle before its end.
LEMMA FlushedIsPrefix ==
    ASSUME NEW q \in Seq(Message)
    PROVE  LET n == Cardinality(Flushed(q)) IN
           /\ n \in 0..Len(q)
           /\ \A j \in 1..(n - 1) : ~IsHandle(q[j])
           /\ n < Len(q) => n > 0 /\ IsHandle(q[n])
<1> DEFINE H == {i \in 1..Len(q) : IsHandle(q[i])}
<1>1. Len(q) \in Nat
  BY LenProperties
<1>2. CASE H = {}
  <2>1. Flushed(q) = 1..Len(q)
    BY <1>1, <1>2 DEF Flushed
  <2>2. Cardinality(Flushed(q)) = Len(q)
    BY <1>1, <2>1, FS_Interval
  <2> QED
    BY <1>1, <1>2, <2>2
<1>3. CASE H # {}
  <2>1. PICK n \in H : \A y \in H : n <= y
    <3>1. H \subseteq Nat
      BY <1>1
    <3> QED
      BY <1>3, <3>1, LeastNat
  <2>2. n \in 1..Len(q) /\ IsHandle(q[n])
    OBVIOUS
  <2>3. Flushed(q) = 1..n
    BY <1>1, <2>1, <2>2 DEF Flushed
  <2>4. Cardinality(Flushed(q)) = n
    BY <2>2, <2>3, FS_Interval
  <2> QED
    BY <1>1, <2>1, <2>2, <2>4
<1> QED
  BY <1>2, <1>3

-----------------------------------------------------------------------------
(* Type correctness                                                        *)

Tick == [id : Nat, kind : {"finish", "emit"}, handle : Nat]
Event == {"message", "internalMessage"}
Delivery == [id : Nat, handle : Nat]

\* What the constants and the two ends look like to the provers.
LEMMA EndpointFacts ==
    /\ \A p \in Endpoint : Peer(p) \in Endpoint /\ Peer(p) # p /\ Peer(Peer(p)) = p
    /\ Ack \in Entry /\ Message \subseteq Entry /\ Finish \in Tick
    /\ \A e \in Entry : e.id \in Nat /\ (e = Ack \/ e \in Message)
    /\ \A e \in Entry : IsHandle(e) => e \in Message
  BY DEF Endpoint, Peer, Ack, Entry, Message, Finish, Tick, Kinds, HandleKinds, IsHandle

\* Pushing a value on the sequence of an endpoint, and taking its tail.
LEMMA PushType ==
    ASSUME NEW S, NEW f \in [Endpoint -> Seq(S)], NEW p \in Endpoint, NEW v \in S
    PROVE  Push(f, p, v) \in [Endpoint -> Seq(S)]
  BY DEF Push

\* Assigning a value of the right type keeps the type of the function.
LEMMA SetType ==
    ASSUME NEW S, NEW f \in [Endpoint -> S], NEW p \in Endpoint, NEW v \in S
    PROVE  Set(f, p, v) \in [Endpoint -> S]
  BY DEF Set

\* A non-empty sequence has a head and a tail of its type.
LEMMA TailType ==
    ASSUME NEW S, NEW f \in [Endpoint -> Seq(S)], NEW p \in Endpoint, f[p] # <<>>
    PROVE  /\ Head(f[p]) \in S
           /\ Set(f, p, Tail(f[p])) \in [Endpoint -> Seq(S)]
  BY DEF Set

\* Calling finish() from an event keeps the types of once, open, disconnects.
LEMMA EmitType ==
    ASSUME TypeOK, NEW p \in Endpoint, NEW raised \in SUBSET Event, Emit(p, raised)
    PROVE  /\ once' \in [Endpoint -> SUBSET Event]
           /\ open' \in [Endpoint -> BOOLEAN]
           /\ disconnects' \in [Endpoint -> Nat]
<1>1. once' \in [Endpoint -> SUBSET Event]
  BY DEF Emit, TypeOK, Set, Event
<1>2. open' \in [Endpoint -> BOOLEAN]
  BY DEF Emit, TypeOK, Set
<1>3. disconnects' \in [Endpoint -> Nat]
  BY DEF Emit, TypeOK, Set
<1> QED
  BY <1>1, <1>2, <1>3

\* _disconnect() keeps the types of channel, once and ticks.
LEMMA DoDisconnectType ==
    ASSUME TypeOK, NEW p \in Endpoint, NEW b \in BOOLEAN, DoDisconnect(p, b)
    PROVE  /\ channel' \in [Endpoint -> BOOLEAN]
           /\ once' \in [Endpoint -> SUBSET Event]
           /\ ticks' \in [Endpoint -> Seq(Tick)]
<1>1. channel' \in [Endpoint -> BOOLEAN]
  BY DEF DoDisconnect, TypeOK, Set
<1>2. once' \in [Endpoint -> SUBSET Event]
  BY DEF DoDisconnect, TypeOK, Set, Event
<1>3. ticks' \in [Endpoint -> Seq(Tick)]
  <2>1. ticks \in [Endpoint -> Seq(Tick)]
    BY DEF TypeOK, Tick
  <2>2. ticks' = ticks \/ ticks' = Push(ticks, p, Finish)
    BY DEF DoDisconnect
  <2>3. Finish \in Tick
    BY EndpointFacts
  <2> QED
    BY <2>1, <2>2, <2>3, PushType
<1> QED
  BY <1>1, <1>2, <1>3

\* Every step of either end keeps the types of its state.
LEMMA TypeStep == TypeOK /\ [Next]_vars => TypeOK'
<1> SUFFICES ASSUME TypeOK, [Next]_vars PROVE TypeOK'
  OBVIOUS
<1>1. ASSUME NEW p \in Endpoint, NEW kind \in Sends[p], Send(p, kind) PROVE TypeOK'
  <2> DEFINE m == [id |-> Len(accepted[p]) + 1, kind |-> kind]
  <2>1. kind \in Kinds
    BY IpcAssumption
  <2>2. m \in Message /\ m \in Entry
    <3>1. Len(accepted[p]) + 1 \in Nat \ {0}
      <4>1. accepted[p] \in Seq(Kinds)
        BY DEF TypeOK
      <4> QED
        BY <4>1, LenProperties
    <3>2. m \in Message
      BY <2>1, <3>1, Zenon DEF Message
    <3> QED
      BY <3>2 DEF Entry
  <2> HIDE DEF m
  <2>3. accepted' \in [Endpoint -> Seq(Kinds)]
    <3>1. accepted' = Push(accepted, p, kind)
      BY <1>1 DEF Send
    <3> QED
      BY <2>1, <3>1, PushType DEF TypeOK
  <2>4. handleQueue' \in [Endpoint -> Seq(Message)]
    <3>1. handleQueue' = handleQueue \/ handleQueue' = Push(handleQueue, p, m)
      BY <1>1 DEF Send, m
    <3>2. handleQueue \in [Endpoint -> Seq(Message)]
      BY DEF TypeOK
    <3> QED
      BY <2>2, <3>1, <3>2, PushType
  <2>5. wire' \in [Endpoint -> Seq(Entry)]
    <3>1. wire' = wire \/ wire' = Push(wire, p, m)
      BY <1>1 DEF Send, m
    <3>2. wire \in [Endpoint -> Seq(Entry)]
      BY DEF TypeOK
    <3> QED
      BY <2>2, <3>1, <3>2, PushType
  <2>6. waiting' \in [Endpoint -> BOOLEAN]
    BY <1>1 DEF Send, TypeOK, Set, OpensQueue, IsHandle
  <2> QED
    BY <1>1, <2>3, <2>4, <2>5, <2>6 DEF Send, TypeOK
<1>2. ASSUME NEW p \in Endpoint, Disconnect(p) PROVE TypeOK'
  <2>1. connected' \in [Endpoint -> BOOLEAN] /\ asked' \in [Endpoint -> BOOLEAN]
    BY <1>2, SetType DEF Disconnect, TypeOK
  <2>2. /\ channel' \in [Endpoint -> BOOLEAN]
        /\ once' \in [Endpoint -> SUBSET Event]
        /\ ticks' \in [Endpoint -> Seq(Tick)]
    BY <1>2, DoDisconnectType DEF Disconnect, TypeOK, Event, Tick
  <2> QED
    BY <1>2, <2>1, <2>2 DEF Disconnect, TypeOK, Event, Tick
<1>3. ASSUME NEW p \in Endpoint, Read(p) PROVE TypeOK'
  <2> DEFINE in == wire[Peer(p)]
  <2>1. in \in Seq(Entry)
    BY EndpointFacts DEF TypeOK
  <2>2. PICK n \in 0..Len(in), s \in BOOLEAN :
          /\ s => n < Len(in)
          /\ inbox' = Set(inbox, p, SubSeq(in, 1, n))
          /\ wire' = Set(wire, Peer(p), SubSeq(in, n + 1, Len(in)))
          /\ split' = Set(split, p, s)
          /\ recvHandle' = Set(recvHandle, p,
               IF \E i \in Starts(p, n, s) : IsHandle(in[i])
                 THEN in[CHOOSE i \in Starts(p, n, s) : IsHandle(in[i])].id
                 ELSE 0)
    BY <1>3 DEF Read
  <2>3. SubSeq(in, 1, n) \in Seq(Entry) /\ SubSeq(in, n + 1, Len(in)) \in Seq(Entry)
    BY <2>1, <2>2
  <2>4. inbox' \in [Endpoint -> Seq(Entry)] /\ wire' \in [Endpoint -> Seq(Entry)]
    BY <2>2, <2>3, SetType, EndpointFacts DEF TypeOK
  <2>5. ASSUME NEW i \in Starts(p, n, s) PROVE in[i].id \in Nat
    <3>1. i \in 1..Len(in)
      BY <2>1, <2>2 DEF Starts
    <3> QED
      BY <2>1, <3>1, EndpointFacts
  <2>6. recvHandle' \in [Endpoint -> Nat]
    <3> DEFINE c == CHOOSE i \in Starts(p, n, s) : IsHandle(in[i])
    <3>1. CASE \E i \in Starts(p, n, s) : IsHandle(in[i])
      <4>1. c \in Starts(p, n, s)
        BY <3>1
      <4>2. in[c].id \in Nat
        BY <2>5, <4>1
      <4> HIDE DEF c
      <4> QED
        BY <2>2, <3>1, <4>2, SetType DEF TypeOK, c
    <3>2. CASE ~\E i \in Starts(p, n, s) : IsHandle(in[i])
      BY <2>2, <3>2, SetType DEF TypeOK
    <3> QED
      BY <3>1, <3>2
  <2>7. split' \in [Endpoint -> BOOLEAN] /\ reading' \in [Endpoint -> BOOLEAN]
    BY <1>3, <2>2, SetType DEF Read, TypeOK
  <2> QED
    BY <1>3, <2>4, <2>6, <2>7 DEF Read, TypeOK, control
<1>4. ASSUME NEW p \in Endpoint, OnText(p) PROVE TypeOK'
  <2>1. inbox' \in [Endpoint -> Seq(Entry)] /\ Head(inbox[p]) \in Entry
    BY <1>4, TailType DEF OnText, TypeOK
  <2> Head(inbox[p]).id \in Nat
    BY <2>1, EndpointFacts
  <2>2. delivered' \in [Endpoint -> Seq([id : Nat, handle : Nat])]
    BY <1>4, <2>1, PushType DEF OnText, TypeOK
  <2>3. {EventName(Head(inbox[p]))} \in SUBSET Event
    BY DEF EventName, Event
  <2>4. Emit(p, {EventName(Head(inbox[p]))})
    BY <1>4 DEF OnText
  <2> HIDE DEF TypeOK
  <2>5. /\ once' \in [Endpoint -> SUBSET Event]
        /\ open' \in [Endpoint -> BOOLEAN]
        /\ disconnects' \in [Endpoint -> Nat]
    BY <2>3, <2>4, EmitType
  <2> QED
    BY <1>4, <2>1, <2>2, <2>5 DEF OnText, TypeOK, Event
<1>5. ASSUME NEW p \in Endpoint, OnAck(p) PROVE TypeOK'
  <2> DEFINE q == handleQueue[p]
             n == Cardinality(Flushed(q))
             again == n > 0 /\ OpensQueue(q[n])
  <2>1. q \in Seq(Message)
    BY DEF TypeOK
  <2>2. n \in 0..Len(q)
    BY <2>1, FlushedIsPrefix
  <2> HIDE DEF n
  <2>3. /\ inbox' = Set(inbox, p, Tail(inbox[p])) /\ inbox[p] # <<>>
        /\ wire' = Set(wire, p, wire[p] \o SubSeq(q, 1, n))
        /\ handleQueue' = Set(handleQueue, p, SubSeq(q, n + 1, Len(q)))
        /\ waiting' = Set(waiting, p, again)
    BY <1>5 DEF OnAck, n
  <2>4. inbox' \in [Endpoint -> Seq(Entry)]
    BY <2>3, TailType DEF TypeOK
  <2>5. SubSeq(q, 1, n) \in Seq(Message) /\ SubSeq(q, n + 1, Len(q)) \in Seq(Message)
    BY <2>1, <2>2
  <2>6. wire[p] \o SubSeq(q, 1, n) \in Seq(Entry)
    <3>1. SubSeq(q, 1, n) \in Seq(Entry)
      BY <2>5, EndpointFacts
    <3> QED
      BY <3>1, ConcatProperties DEF TypeOK
  <2>7. wire' \in [Endpoint -> Seq(Entry)] /\ handleQueue' \in [Endpoint -> Seq(Message)]
    BY <2>3, <2>5, <2>6, SetType DEF TypeOK
  <2>8. waiting' \in [Endpoint -> BOOLEAN]
    BY <2>3, SetType DEF TypeOK, OpensQueue, IsHandle
  <2>9. /\ channel' \in [Endpoint -> BOOLEAN]
        /\ once' \in [Endpoint -> SUBSET Event]
        /\ ticks' \in [Endpoint -> Seq(Tick)]
        /\ open' \in [Endpoint -> BOOLEAN]
        /\ disconnects' \in [Endpoint -> Nat]
    <3>1. CASE DoDisconnect(p, buffering[p]) /\ UNCHANGED <<open, disconnects>>
      BY <3>1, DoDisconnectType DEF TypeOK
    <3>2. CASE Emit(p, {"internalMessage"}) /\ UNCHANGED <<channel, ticks>>
      <4>1. {"internalMessage"} \in SUBSET Event
        BY DEF Event
      <4> QED
        BY <3>2, <4>1, EmitType DEF TypeOK, Tick
    <3> QED
      BY <1>5, <3>1, <3>2 DEF OnAck
  <2> QED
    BY <1>5, <2>4, <2>7, <2>8, <2>9 DEF OnAck, TypeOK, Event, Tick
<1>6. ASSUME NEW p \in Endpoint, OnHandle(p) PROVE TypeOK'
  <2> DEFINE m == Head(inbox[p])
  <2>1. inbox' \in [Endpoint -> Seq(Entry)] /\ m \in Entry /\ m.id \in Nat
    BY <1>6, TailType, EndpointFacts DEF OnHandle, TypeOK
  <2>2. recvHandle[p] \in Nat
    BY DEF TypeOK
  <2> HIDE DEF m
  <2>3. CASE ~CanAck(p)
    <3>1. /\ alive' = Set(alive, p, FALSE)
          /\ open' = Set(open, p, FALSE)
          /\ failed' = Set(failed, p, "cannot ack")
          /\ UNCHANGED <<wire, delivered, ticks, once, disconnects>>
      BY <1>6, <2>3 DEF OnHandle
    <3>2. /\ alive' \in [Endpoint -> BOOLEAN] /\ open' \in [Endpoint -> BOOLEAN]
          /\ failed' \in [Endpoint -> {"none", "cannot ack"}]
      BY <3>1 DEF Set, TypeOK
    <3> QED
      BY <1>6, <2>1, <2>3, <3>1, <3>2 DEF OnHandle, TypeOK
  <2>4. CASE CanAck(p)
    <3>1. wire' \in [Endpoint -> Seq(Entry)]
      <4>1. wire' = Push(wire, p, Ack)
        BY <1>6, <2>4 DEF OnHandle
      <4>2. wire \in [Endpoint -> Seq(Entry)] /\ Ack \in Entry
        BY EndpointFacts DEF TypeOK
      <4> QED
        BY <4>1, <4>2, PushType
    <3>2. delivered' \in [Endpoint -> Seq(Delivery)]
      <4> DEFINE got == [id |-> m.id, handle |-> recvHandle[p]]
      <4>1. delivered' = delivered \/ delivered' = Push(delivered, p, got)
        BY <1>6, <2>4 DEF OnHandle, m
      <4>2. delivered \in [Endpoint -> Seq(Delivery)]
        BY DEF TypeOK, Delivery
      <4>3. got \in Delivery
        BY <2>1, <2>2 DEF Delivery
      <4> HIDE DEF got
      <4> QED
        BY <4>1, <4>2, <4>3, PushType
    <3>3. ticks' \in [Endpoint -> Seq(Tick)]
      <4>1. [id |-> m.id, kind |-> "emit", handle |-> recvHandle[p]] \in Tick
        BY <2>1, <2>2 DEF Tick
      <4>2. ticks \in [Endpoint -> Seq(Tick)]
        BY DEF TypeOK, Tick
      <4>3. \/ ticks' = ticks
            \/ ticks' = Push(ticks, p, [id |-> m.id, kind |-> "emit", handle |-> recvHandle[p]])
        BY <1>6, <2>4 DEF OnHandle, m
      <4> QED
        BY <4>1, <4>2, <4>3, PushType
    <3>4. /\ once' \in [Endpoint -> SUBSET Event]
          /\ open' \in [Endpoint -> BOOLEAN]
          /\ disconnects' \in [Endpoint -> Nat]
      <4>1. Emit(p, {"message", "internalMessage"}) \/ Emit(p, {"internalMessage"})
        BY <1>6, <2>4 DEF OnHandle
      <4>2. {"message", "internalMessage"} \in SUBSET Event /\ {"internalMessage"} \in SUBSET Event
        BY DEF Event
      <4> QED
        BY <4>1, <4>2, EmitType
    <3> QED
      BY <1>6, <2>1, <2>4, <3>1, <3>2, <3>3, <3>4 DEF OnHandle, TypeOK, Event, Tick, Delivery
  <2> QED
    BY <2>3, <2>4
<1>7. ASSUME NEW p \in Endpoint, EndRead(p) PROVE TypeOK'
  BY <1>7 DEF EndRead, TypeOK, Set
<1>8. ASSUME NEW p \in Endpoint, OnEof(p) PROVE TypeOK'
  <2>1. /\ buffering' \in [Endpoint -> BOOLEAN]
        /\ open' \in [Endpoint -> BOOLEAN]
        /\ connected' \in [Endpoint -> BOOLEAN]
    BY <1>8, SetType DEF OnEof, TypeOK
  <2>2. /\ channel' \in [Endpoint -> BOOLEAN]
        /\ once' \in [Endpoint -> SUBSET Event]
        /\ ticks' \in [Endpoint -> Seq(Tick)]
    BY <1>8, DoDisconnectType DEF OnEof, TypeOK, Event, Tick
  <2> QED
    BY <1>8, <2>1, <2>2 DEF OnEof, TypeOK, Event, Tick
<1>9. ASSUME NEW p \in Endpoint, FinishTick(p) PROVE TypeOK'
  <2>1. ticks' \in [Endpoint -> Seq(Tick)]
    BY <1>9, TailType DEF FinishTick, TypeOK, Tick
  <2> QED
    BY <1>9, <2>1 DEF FinishTick, TypeOK, Set, control, Tick
<1>10. ASSUME NEW p \in Endpoint, EmitTick(p) PROVE TypeOK'
  <2>1. ticks' \in [Endpoint -> Seq(Tick)] /\ Head(ticks[p]) \in Tick
    BY <1>10, TailType DEF EmitTick, TypeOK, Tick
  <2>2. delivered' \in [Endpoint -> Seq([id : Nat, handle : Nat])]
    BY <1>10, <2>1, PushType DEF EmitTick, TypeOK, Tick
  <2>3. /\ once' \in [Endpoint -> SUBSET Event]
        /\ open' \in [Endpoint -> BOOLEAN]
        /\ disconnects' \in [Endpoint -> Nat]
    <3>1. Emit(p, {"message"}) /\ {"message"} \in SUBSET Event
      BY <1>10 DEF EmitTick, Event
    <3> QED
      BY <3>1, EmitType
  <2> QED
    BY <1>10, <2>1, <2>2, <2>3 DEF EmitTick, TypeOK, Event, Tick
<1>11. ASSUME NEW p \in Endpoint, Crash(p) PROVE TypeOK'
  BY <1>11 DEF Crash, TypeOK, Set, control
<1>12. CASE UNCHANGED vars
  BY <1>12 DEF TypeOK, vars, control
<1> QED
  BY <1>1, <1>2, <1>3, <1>4, <1>5, <1>6, <1>7, <1>8, <1>9, <1>10, <1>11, <1>12 DEF Next

\* The variables of setupChannel() always have their types: in particular a
\* queue holds messages only, and 'disconnect' is counted by a natural.
THEOREM TypeCorrect == Spec => []TypeOK
<1>1. Init => TypeOK
  BY DEF Init, TypeOK
<1> QED
  BY <1>1, TypeStep, PTL DEF Spec

-----------------------------------------------------------------------------
(* The life of a channel                                                   *)

\* What holds of one end between connected and closed.  The two conditions on
\* an open pipe are what makes the rest inductive: finish() is only ever
\* called, by a listener or a tick, for a channel that was given up, and an
\* end that reached end of file with the channel kept is not reading.
Lifecycle(p) ==
    /\ connected[p] => channel[p]
    /\ ~channel[p] => ~waiting[p]
    /\ handleQueue[p] # <<>> => waiting[p]
    /\ disconnects[p] > 0 => ~channel[p] /\ ~open[p]
    /\ disconnects[p] <= 1
    /\ once[p] # {} => ~channel[p]
    /\ (\E i \in DOMAIN ticks[p] : ticks[p][i] = Finish) => ~channel[p]
    /\ alive[p] /\ ~open[p] /\ channel[p] => ~reading[p]
    /\ alive[p] /\ connected[p] => open[p]

LifecycleInv == \A p \in Endpoint : Lifecycle(p)

\* An end that neither writes nor changes its own state keeps its Lifecycle.
LEMMA LifecycleOfOther ==
    ASSUME NEW r \in Endpoint, Lifecycle(r),
           connected'[r] = connected[r], channel'[r] = channel[r],
           waiting'[r] = waiting[r], handleQueue'[r] = handleQueue[r],
           disconnects'[r] = disconnects[r], once'[r] = once[r],
           ticks'[r] = ticks[r], alive'[r] = alive[r], open'[r] = open[r],
           reading'[r] = reading[r]
    PROVE  Lifecycle(r)'
  BY DEF Lifecycle

\* finish(), called by an event, closes only a channel that was given up.
LEMMA EmitLifecycle ==
    ASSUME TypeOK, NEW p \in Endpoint, Lifecycle(p), NEW raised, Emit(p, raised)
    PROVE  /\ once'[p] # {} => ~channel[p]
           /\ channel[p] => open'[p] = open[p] /\ disconnects'[p] = disconnects[p]
           /\ disconnects'[p] <= 1
           /\ disconnects'[p] > 0 => ~open'[p] /\ ~channel[p]
           /\ \A r \in Endpoint \ {p} : /\ once'[r] = once[r] /\ open'[r] = open[r]
                                        /\ disconnects'[r] = disconnects[r]
<1> DEFINE calls == once[p] \cap raised
<1>1. CASE calls # {} /\ disconnects[p] = 0
  <2>1. ~channel[p]
    BY <1>1 DEF Lifecycle
  <2>2. open' = Set(open, p, FALSE) /\ disconnects' = Set(disconnects, p, 1)
    BY <1>1 DEF Emit
  <2>3. ~open'[p] /\ disconnects'[p] = 1
    BY <2>2 DEF TypeOK, Set
  <2>4. \A r \in Endpoint \ {p} : /\ once'[r] = once[r] /\ open'[r] = open[r]
                                  /\ disconnects'[r] = disconnects[r]
    BY <2>2 DEF Emit, TypeOK, Set
  <2> QED
    BY <2>1, <2>3, <2>4
<1>2. CASE ~(calls # {} /\ disconnects[p] = 0)
  <2>1. open' = open /\ disconnects' = disconnects
    BY <1>2 DEF Emit
  <2>2. once'[p] = once[p] \ raised /\ \A r \in Endpoint \ {p} : once'[r] = once[r]
    BY DEF Emit, TypeOK, Set
  <2> QED
    BY <2>1, <2>2 DEF Lifecycle
<1> QED
  BY <1>1, <1>2

\* The elements of a sequence after Append and after Tail.
LEMMA AppendElements ==
    ASSUME NEW S, NEW s \in Seq(S), NEW e \in S, NEW i \in DOMAIN Append(s, e)
    PROVE  \/ i = Len(s) + 1 /\ Append(s, e)[i] = e
           \/ i \in DOMAIN s /\ Append(s, e)[i] = s[i]
  BY AppendProperties, LenProperties

\* The elements of a tail are those of the sequence, one place on.
LEMMA TailElements ==
    ASSUME NEW S, NEW s \in Seq(S), s # <<>>
    PROVE  /\ 1 \in DOMAIN s /\ Head(s) = s[1]
           /\ \A i \in DOMAIN Tail(s) : i + 1 \in DOMAIN s /\ Tail(s)[i] = s[i + 1]
<1>1. Len(s) \in Nat \ {0} /\ DOMAIN s = 1..Len(s)
  OBVIOUS
<1>2. DOMAIN Tail(s) = 1..(Len(s) - 1)
  BY <1>1
<1> QED
  BY <1>1, <1>2, HeadTailProperties

\* Every step of either end keeps the Lifecycle of both.
LEMMA LifecycleStep == TypeOK /\ LifecycleInv /\ [Next]_vars => LifecycleInv'
<1> SUFFICES ASSUME TypeOK, LifecycleInv, [Next]_vars, NEW r \in Endpoint
             PROVE  Lifecycle(r)'
  BY DEF LifecycleInv
<1>0. \A p \in Endpoint : Lifecycle(p)
  BY DEF LifecycleInv
<1>t. ticks \in [Endpoint -> Seq(Tick)]
  BY DEF TypeOK, Tick
<1>1. ASSUME NEW p \in Endpoint, NEW kind \in Sends[p], Send(p, kind)
      PROVE  Lifecycle(r)'
  <2>1. /\ connected[p] /\ UNCHANGED <<connected, channel, once, open, alive, reading, ticks, disconnects>>
        /\ \A t \in Endpoint \ {p} : waiting'[t] = waiting[t] /\ handleQueue'[t] = handleQueue[t]
    BY <1>1 DEF Send, TypeOK, Set, Push
  <2>2. CASE waiting[p]
    <3>1. waiting' = waiting
      BY <1>1, <2>2 DEF Send, MustQueue
    <3> QED
      BY <1>0, <2>1, <2>2, <3>1 DEF Lifecycle
  <2>3. CASE ~waiting[p]
    <3>1. handleQueue' = handleQueue
      BY <1>1, <2>3 DEF Send, MustQueue
    <3> QED
      BY <1>0, <2>1, <2>3, <3>1 DEF Lifecycle
  <2> QED
    BY <2>2, <2>3
<1>2. ASSUME NEW p \in Endpoint, Disconnect(p) PROVE Lifecycle(r)'
  <2>1. CASE r = p
    <3>1. CASE QueueIsPending(p)
      BY <1>0, <1>2, <2>1, <3>1 DEF Disconnect, Lifecycle, TypeOK, Set
    <3>2. CASE ~QueueIsPending(p)
      BY <1>0, <1>2, <2>1, <3>2
        DEF Disconnect, Lifecycle, TypeOK, Set, DoDisconnect, QueueIsPending
    <3> QED
      BY <3>1, <3>2
  <2>2. CASE r # p
    BY <1>0, <1>2, <2>2, LifecycleOfOther DEF Disconnect, TypeOK, Set, Push, DoDisconnect
  <2> QED
    BY <2>1, <2>2
<1>3. ASSUME NEW p \in Endpoint, Read(p) PROVE Lifecycle(r)'
  BY <1>0, <1>3 DEF Read, Lifecycle, TypeOK, Set, control
<1>4. ASSUME NEW p \in Endpoint, OnText(p) PROVE Lifecycle(r)'
  <2>1. Emit(p, {EventName(Head(inbox[p]))})
    BY <1>4 DEF OnText
  <2> QED
    BY <1>0, <1>4, <2>1, EmitLifecycle DEF OnText, Lifecycle
<1>5. ASSUME NEW p \in Endpoint, OnAck(p) PROVE Lifecycle(r)'
  <2> DEFINE q == handleQueue[p]
             n == Cardinality(Flushed(q))
             again == n > 0 /\ OpensQueue(q[n])
  <2>1. q \in Seq(Message)
    BY DEF TypeOK
  <2>2. n \in 0..Len(q) /\ (n < Len(q) => n > 0 /\ OpensQueue(q[n]))
    BY <2>1, FlushedIsPrefix DEF OpensQueue
  <2> HIDE DEF n
  <2>3. /\ handleQueue' = Set(handleQueue, p, SubSeq(q, n + 1, Len(q)))
        /\ waiting' = Set(waiting, p, again)
        /\ UNCHANGED <<connected, alive, reading>>
    BY <1>5 DEF OnAck, n
  <2>4. handleQueue'[p] # <<>> => again
    <3>1. handleQueue'[p] = SubSeq(q, n + 1, Len(q))
      BY <2>3 DEF TypeOK, Set
    <3>2. n = Len(q) => SubSeq(q, n + 1, Len(q)) = <<>>
      BY <2>1, <2>2, SubSeqEmpty
    <3> QED
      BY <2>2, <3>1, <3>2
  <2>5. ~channel[p] => ~again
    <3>1. ~channel[p] => q = <<>>
      BY <1>0 DEF Lifecycle
    <3> QED
      BY <2>2, <3>1
  <2>6. waiting'[p] = again
    BY <2>3 DEF TypeOK, Set
  <2> HIDE DEF again
  <2>7. CASE r = p
    <3>1. CASE /\ ~connected[p] /\ channel[p] /\ ~again
               /\ DoDisconnect(p, buffering[p])
               /\ UNCHANGED <<open, disconnects>>
      BY <1>0, <2>3, <2>4, <2>6, <2>7, <3>1 DEF DoDisconnect, Lifecycle, TypeOK, Set
    <3>2. CASE Emit(p, {"internalMessage"}) /\ UNCHANGED <<channel, ticks>>
      BY <1>0, <2>3, <2>4, <2>5, <2>6, <2>7, <3>2, EmitLifecycle DEF Lifecycle
    <3> QED
      BY <1>5, <3>1, <3>2 DEF OnAck, n, again
  <2>8. CASE r # p
    <3>1. /\ channel'[r] = channel[r] /\ once'[r] = once[r] /\ ticks'[r] = ticks[r]
          /\ open'[r] = open[r] /\ disconnects'[r] = disconnects[r]
      BY <1>5, <2>8 DEF OnAck, DoDisconnect, Emit, TypeOK, Set, Push
    <3> QED
      BY <1>0, <2>3, <2>8, <3>1, LifecycleOfOther DEF TypeOK, Set
  <2> QED
    BY <2>7, <2>8
<1>6. ASSUME NEW p \in Endpoint, OnHandle(p) PROVE Lifecycle(r)'
  <2>1. UNCHANGED <<connected, channel, waiting, handleQueue, reading>>
    BY <1>6 DEF OnHandle
  <2>2. CASE ~CanAck(p)
    <3>1. /\ alive' = Set(alive, p, FALSE) /\ open' = Set(open, p, FALSE)
          /\ UNCHANGED <<ticks, once, disconnects>>
      BY <1>6, <2>2 DEF OnHandle
    <3> QED
      BY <1>0, <2>1, <3>1 DEF Lifecycle, TypeOK, Set
  <2>3. CASE CanAck(p)
    <3>1. alive' = alive
      BY <1>6, <2>3 DEF OnHandle
    <3>2. Emit(p, {"message", "internalMessage"}) \/ Emit(p, {"internalMessage"})
      BY <1>6, <2>3 DEF OnHandle
    <3>3. ASSUME NEW i \in DOMAIN ticks'[r], ticks'[r][i] = Finish
          PROVE  ~channel[r]
      <4> DEFINE e == [id |-> Head(inbox[p]).id, kind |-> "emit", handle |-> recvHandle[p]]
      <4>1. ticks' = ticks \/ ticks' = Push(ticks, p, e)
        BY <1>6, <2>3 DEF OnHandle
      <4>2. e \in Tick /\ e # Finish
        <5>1. Head(inbox[p]) \in Entry
          BY <1>6, TailType DEF OnHandle, TypeOK
        <5>2. Head(inbox[p]).id \in Nat /\ recvHandle[p] \in Nat
          BY <5>1, EndpointFacts DEF TypeOK
        <5> QED
          BY <5>2 DEF Tick, Finish
      <4> HIDE DEF e
      <4>3. ticks'[r] = ticks[r] \/ ticks'[r] = Append(ticks[r], e)
        BY <4>1, <1>t DEF Push
      <4>4. ticks[r] \in Seq(Tick)
        BY <1>t
      <4>5. i \in DOMAIN ticks[r] /\ ticks[r][i] = Finish
        BY <3>3, <4>2, <4>3, <4>4, AppendElements
      <4> QED
        BY <1>0, <4>5 DEF Lifecycle
    <3> QED
      BY <1>0, <2>1, <3>1, <3>2, <3>3, EmitLifecycle DEF Lifecycle
  <2> QED
    BY <2>2, <2>3
<1>7. ASSUME NEW p \in Endpoint, EndRead(p) PROVE Lifecycle(r)'
  BY <1>0, <1>7 DEF EndRead, Lifecycle, TypeOK, Set
<1>8. ASSUME NEW p \in Endpoint, OnEof(p) PROVE Lifecycle(r)'
  <2>1. CASE r = p
    BY <1>0, <1>8, <2>1 DEF OnEof, DoDisconnect, Lifecycle, TypeOK, Set
  <2>2. CASE r # p
    BY <1>0, <1>8, <2>2, LifecycleOfOther DEF OnEof, TypeOK, Set, Push, DoDisconnect
  <2> QED
    BY <2>1, <2>2
<1>9. ASSUME NEW p \in Endpoint, FinishTick(p) PROVE Lifecycle(r)'
  <2>1. CASE r = p
    <3>1. ticks[p] \in Seq(Tick) /\ ticks[p] # <<>> /\ Head(ticks[p]) = Finish
      BY <1>9, <1>t DEF FinishTick
    <3>2. ~channel[p]
      BY <1>0, <3>1, TailElements DEF Lifecycle
    <3>3. /\ UNCHANGED <<connected, channel, waiting, handleQueue, once, alive, reading>>
          /\ ~open'[p] /\ disconnects'[p] <= 1
      <4>1. open' = Set(open, p, FALSE) /\ disconnects[p] <= 1
        BY <1>0, <1>9 DEF FinishTick, Lifecycle
      <4>2. disconnects'[p] = IF disconnects[p] = 0 THEN 1 ELSE disconnects[p]
        BY <1>9 DEF FinishTick, TypeOK
      <4>3. ~open'[p]
        BY <4>1 DEF TypeOK, Set
      <4>4. disconnects'[p] <= 1
        BY <4>1, <4>2
      <4> QED
        BY <1>9, <4>3, <4>4 DEF FinishTick, control
    <3> QED
      BY <1>0, <2>1, <3>2, <3>3 DEF Lifecycle
  <2>2. CASE r # p
    BY <1>0, <1>9, <2>2, LifecycleOfOther DEF FinishTick, TypeOK, Set, control
  <2> QED
    BY <2>1, <2>2
<1>10. ASSUME NEW p \in Endpoint, EmitTick(p) PROVE Lifecycle(r)'
  <2>1. Emit(p, {"message"}) /\ UNCHANGED <<connected, channel, waiting, handleQueue, alive, reading>>
    BY <1>10 DEF EmitTick
  <2>2. ASSUME NEW i \in DOMAIN ticks'[r], ticks'[r][i] = Finish
        PROVE  ~channel[r]
    <3>1. ticks[p] # <<>> /\ ticks' = Set(ticks, p, Tail(ticks[p]))
      BY <1>10 DEF EmitTick
    <3>2. ticks[r] \in Seq(Tick)
      BY <1>t
    <3>3. \E j \in DOMAIN ticks[r] : ticks[r][j] = Finish
      <4>1. CASE r = p
        <5>1. ticks'[r] = Tail(ticks[r])
          BY <1>t, <3>1, <4>1 DEF Set
        <5>2. \A k \in DOMAIN Tail(ticks[r]) :
                k + 1 \in DOMAIN ticks[r] /\ Tail(ticks[r])[k] = ticks[r][k + 1]
          BY <3>1, <3>2, <4>1, TailElements
        <5> QED
          BY <2>2, <5>1, <5>2
      <4>2. CASE r # p
        BY <1>t, <2>2, <3>1, <4>2 DEF Set
      <4> QED
        BY <4>1, <4>2
    <3> QED
      BY <1>0, <3>3 DEF Lifecycle
  <2> QED
    BY <1>0, <2>1, <2>2, EmitLifecycle DEF Lifecycle
<1>11. ASSUME NEW p \in Endpoint, Crash(p) PROVE Lifecycle(r)'
  BY <1>0, <1>11 DEF Crash, Lifecycle, TypeOK, Set, control
<1>12. CASE UNCHANGED vars
  BY <1>0, <1>12 DEF Lifecycle, vars, control
<1> QED
  BY <1>1, <1>2, <1>3, <1>4, <1>5, <1>6, <1>7, <1>8, <1>9, <1>10, <1>11, <1>12 DEF Next

\* A new channel has its types and its Lifecycle.
LEMMA InvInit == Init => TypeOK /\ LifecycleInv
  BY DEF Init, TypeOK, LifecycleInv, Lifecycle

\* Types and Lifecycle hold for ever.
LEMMA Invariants == Spec => [](TypeOK /\ LifecycleInv)
<1>1. TypeOK /\ LifecycleInv /\ [Next]_vars => (TypeOK /\ LifecycleInv)'
  BY TypeStep, LifecycleStep
<1> QED
  BY <1>1, InvInit, PTL DEF Spec

\* disconnect() gives the channel up, and closes it, only when all that
\* send() took is written: nothing stays behind in _handleQueue.
THEOREM DisconnectLeavesNothing == Spec => []NothingLeftBehind
<1>1. TypeOK /\ LifecycleInv => NothingLeftBehind
  BY DEF LifecycleInv, Lifecycle, NothingLeftBehind
<1> QED
  BY <1>1, Invariants, PTL

\* finish() emits 'disconnect' at most once, whichever of the two events and
\* the tick call it.
THEOREM EmittedOnce == Spec => []DisconnectOnce
<1>1. TypeOK /\ LifecycleInv => DisconnectOnce
  BY DEF LifecycleInv, Lifecycle, DisconnectOnce
<1> QED
  BY <1>1, Invariants, PTL

\* Neither send(), nor the ACK of a handle, nor the flush of the queue writes
\* to a pipe this end has closed.
THEOREM ClosedIsSilent == Spec => NoWriteAfterClose
<1> DEFINE Silent == \A p \in Endpoint : ~open[p] => Len(wire'[p]) <= Len(wire[p])
<1>1. TypeOK /\ LifecycleInv /\ [Next]_vars => [Silent]_vars
  <2> SUFFICES ASSUME TypeOK, LifecycleInv, Next, NEW r \in Endpoint, ~open[r]
               PROVE  Len(wire'[r]) <= Len(wire[r])
    BY DEF vars
  <2>0. \A p \in Endpoint : Lifecycle(p)
    BY DEF LifecycleInv
  <2>w. wire \in [Endpoint -> Seq(Entry)] /\ Len(wire[r]) \in Nat
    <3>1. wire \in [Endpoint -> Seq(Entry)] /\ wire[r] \in Seq(Entry)
      BY DEF TypeOK
    <3> QED
      BY <3>1, LenProperties
  <2>1. ASSUME NEW p \in Endpoint, NEW kind \in Sends[p], Send(p, kind)
        PROVE  wire'[r] = wire[r]
    <3>1. p # r
      BY <2>0, <2>1 DEF Send, Lifecycle
    <3> QED
      BY <2>1, <2>w, <3>1 DEF Send, Push
  <2>2. ASSUME NEW p \in Endpoint, Read(p) PROVE Len(wire'[r]) <= Len(wire[r])
    <3> DEFINE in == wire[Peer(p)]
    <3>1. PICK n \in 0..Len(in) : wire' = Set(wire, Peer(p), SubSeq(in, n + 1, Len(in)))
      BY <2>2 DEF Read
    <3>2. in \in Seq(Entry)
      BY <2>w, EndpointFacts
    <3>3. Len(SubSeq(in, n + 1, Len(in))) <= Len(in)
      BY <3>1, <3>2
    <3>4. CASE r = Peer(p)
      <4>1. wire'[r] = SubSeq(in, n + 1, Len(in))
        BY <2>w, <3>1, <3>4 DEF Set
      <4> QED
        BY <3>3, <3>4, <4>1
    <3>5. CASE r # Peer(p)
      <4>1. wire'[r] = wire[r]
        BY <2>w, <3>1, <3>5 DEF Set
      <4> QED
        BY <2>w, <4>1
    <3> QED
      BY <3>4, <3>5
  <2>3. ASSUME NEW p \in Endpoint, OnAck(p) PROVE wire'[r] = wire[r]
    <3> DEFINE q == handleQueue[p]
               n == Cardinality(Flushed(q))
    <3>1. wire' = Set(wire, p, wire[p] \o SubSeq(q, 1, n))
      BY <2>3 DEF OnAck
    <3>2. CASE p = r
      <4>1. q = <<>>
        BY <2>0, <2>3, <3>2 DEF OnAck, Lifecycle
      <4>2. SubSeq(q, 1, n) = <<>>
        <5>1. q \in Seq(Message)
          BY DEF TypeOK
        <5>2. n \in 0..Len(q)
          BY <5>1, FlushedIsPrefix
        <5>3. n = 0
          BY <4>1, <5>2
        <5> QED
          BY <5>3, SubSeqEmpty
      <4>3. wire[p] \o <<>> = wire[p]
        BY <2>w, ConcatEmptySeq
      <4> QED
        BY <2>w, <3>1, <3>2, <4>2, <4>3 DEF Set
    <3>3. CASE p # r
      BY <2>w, <3>1, <3>3 DEF Set
    <3> QED
      BY <3>2, <3>3
  <2>4. ASSUME NEW p \in Endpoint, OnHandle(p) PROVE wire'[r] = wire[r]
    <3>1. CASE p = r
      <4>1. ~CanAck(p)
        BY <2>0, <2>4, <3>1 DEF OnHandle, CanAck, Lifecycle
      <4> QED
        BY <2>4, <4>1 DEF OnHandle
    <3>2. CASE p # r
      <4>1. wire' = wire \/ wire' = Push(wire, p, Ack)
        BY <2>4 DEF OnHandle
      <4> QED
        BY <2>w, <3>2, <4>1 DEF Push
    <3> QED
      BY <3>1, <3>2
  <2>5. ASSUME NEW p \in Endpoint,
               \/ Disconnect(p) \/ OnText(p) \/ EndRead(p) \/ OnEof(p)
               \/ FinishTick(p) \/ EmitTick(p) \/ Crash(p)
        PROVE  wire'[r] = wire[r]
    BY <2>5 DEF Disconnect, OnText, EndRead, OnEof, FinishTick, EmitTick, Crash
  <2>6. wire'[r] = wire[r] => Len(wire'[r]) <= Len(wire[r])
    BY <2>w
  <2> QED
    BY <2>1, <2>2, <2>3, <2>4, <2>5, <2>6, Zenon DEF Next
<1> QED
  BY <1>1, Invariants, PTL DEF Spec, NoWriteAfterClose

=============================================================================
