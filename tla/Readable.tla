------------------------------ MODULE Readable ------------------------------
(***************************************************************************)
(* A Readable stream and pipe(): lib/_stream_readable.js.  As in Writable, *)
(* the module keeps the call stack, because _read and the listeners of the *)
(* stream call it again, and the nextTick queue.                           *)
(*                                                                         *)
(* The stream is in objectMode: read() takes one chunk.  A chunk is the    *)
(* number of the push() that brought it.  A consumer pipes the stream, or  *)
(* listens for 'data' and pauses and resumes, or reads when 'readable'     *)
(* comes; the source pushes from _read, later, unasked, or when one of     *)
(* these listeners makes it do so.                                         *)
(***************************************************************************)
EXTENDS Naturals, Sequences, FiniteSets, SequencesExt

CONSTANTS
    Dest,       \* the destinations of pipe()
    MaxChunks,  \* bound: calls of push(chunk)
    Cases       \* the consumers, with the number of calls they may make, and
                \* of the chunks that come

Chunk == 1..MaxChunks
Null == 0           \* what read() returns when there is nothing
Unread == MaxChunks + 1   \* a listener that has not called read() yet

ASSUME ReadableAssumption ==
    /\ MaxChunks \in Nat
    /\ Cases \subseteq [consumer : {"pipe", "data", "readable"},
                        highWaterMark : Nat, calls : Nat, chunks : 0..MaxChunks]

VARIABLES
    conf,       \* the kind of consumer, the highWaterMark, and how many chunks come
    m,          \* the stream, the stack, the ticks, and what was delivered
    pushed,     \* history: the number of push(chunk) calls
    dest,       \* the destinations: see Init
    odd,        \* history: calls made while a pipe waited for 'drain': "pipe",
                \* of pipe(), and "unpipe", of unpipe() for several pipes
    calls       \* bound: the calls that the consumer has left

vars == <<conf, m, pushed, dest, odd, calls>>

\* flowing: null, true, false in the code.  pipes are the destinations, attached
\* those whose listeners pipe() added and cleanup() has not removed.  m.ret is
\* what read() returned.
Init ==
    /\ \E c \in Cases :
         /\ conf = [consumer |-> c.consumer, highWaterMark |-> c.highWaterMark,
                    chunks |-> c.chunks]
         /\ calls = c.calls
    /\ m = [st |-> [buffer |-> <<>>, pipes |-> <<>>, attached |-> <<>>,
                    onData |-> FALSE, flowing |-> "null",
                    ended |-> FALSE, endEmitted |-> FALSE, reading |-> FALSE, sync |-> TRUE,
                    needReadable |-> FALSE, emittedReadable |-> FALSE,
                    readableListening |-> FALSE, awaitDrain |-> 0,
                    readingMore |-> FALSE, resumeScheduled |-> FALSE],
            stack |-> <<>>, ticks |-> <<>>, ret |-> Null, emitted |-> <<>>]
    /\ pushed = 0 /\ odd = {}
    /\ dest = [d \in Dest |-> [needDrain |-> FALSE, doEnd |-> TRUE, state |-> "open"]]
-----------------------------------------------------------------------------
(* The parts of the stream.  M is a state m; a part returns the state in   *)
(* which it has returned or pushed the frames that remain to be run.       *)

Frame(pc) == [pc |-> pc]
User(role) == [pc |-> "user", role |-> role]
Call(M, frames) == [M EXCEPT !.stack = @ \o frames]
Later(M, tick) == [M EXCEPT !.ticks = Append(@, tick)]
Size(M) == Len(M.st.buffer)
Flowing(M) == M.st.flowing = "true"

\* The 'data' listeners: the pipes, and the consumer's.
Listeners(M) == M.st.attached \o (IF M.st.onData THEN <<"user">> ELSE <<>>)

EmitData(M, chunk) ==
    Call([M EXCEPT !.emitted = Append(@, chunk)], <<[pc |-> "data", to |-> Listeners(M)]>>)

\* emitReadable_(): 'readable', then flow().
EmitReadable_(M) ==
    LET N == Call(M, <<Frame("flow_")>>) IN
    IF M.st.readableListening THEN Call([N EXCEPT !.ret = Unread], <<User("readable")>>) ELSE N

EmitReadable(M) ==
    LET N == [M EXCEPT !.st.needReadable = FALSE, !.st.emittedReadable = TRUE] IN
    IF M.st.emittedReadable THEN N
    ELSE IF M.st.sync THEN Later(N, "emitReadable_") ELSE EmitReadable_(N)

\* endReadable(), which is only called with an empty buffer.
EndReadable(M) == IF M.st.endEmitted THEN M ELSE Later(M, "end")

HowMuchToRead(M, n) == IF Size(M) = 0 /\ M.st.ended THEN 0 ELSE n

\* read() after _read: take a chunk, and emit it.  n is what is asked for,
\* and k what there is to be taken.
ReadRest(M, n, k) ==
    LET chunk == IF k > 0 /\ Size(M) > 0 THEN Head(M.st.buffer) ELSE Null
        N == IF chunk = Null THEN M ELSE [M EXCEPT !.st.buffer = Tail(@)]
        E == [N EXCEPT !.st.needReadable = @ \/ chunk = Null \/ (Size(N) = 0 /\ ~N.st.ended),
                       !.ret = Null]
        F == IF n > 0 /\ E.st.ended /\ Size(E) = 0 THEN EndReadable(E) ELSE E IN
    IF chunk = Null THEN F ELSE EmitData(Call(F, <<[pc |-> "return", ret |-> chunk]>>), chunk)

\* read(n); n is 0, or 1 for read().
Read(M, n) ==
    LET N == [M EXCEPT !.st.emittedReadable = @ /\ n = 0, !.ret = Null]
        k == HowMuchToRead(N, n)
        doRead == /\ N.st.needReadable \/ Size(N) = 0 \/ Size(N) < conf.highWaterMark + k
                  /\ ~N.st.ended /\ ~N.st.reading IN
    IF n = 0 /\ N.st.needReadable /\ (Size(N) >= conf.highWaterMark \/ N.st.ended)
    THEN IF Size(N) = 0 /\ N.st.ended THEN EndReadable(N) ELSE EmitReadable(N)
    ELSE IF k = 0 /\ N.st.ended
    THEN IF Size(N) = 0 THEN EndReadable(N) ELSE N
    ELSE IF doRead
    THEN Call([N EXCEPT !.st.reading = TRUE, !.st.sync = TRUE,
                        !.st.needReadable = @ \/ Size(N) = 0],
              <<[pc |-> "_read", n |-> n, k |-> k], User("_read")>>)
    ELSE ReadRest(N, n, k)

\* flow(): the loop goes on at frame "flow".
Flow(M) == IF Flowing(M) THEN Read(Call(M, <<Frame("flow")>>), 1) ELSE M

\* resume()
DoResume(M) ==
    LET N == [M EXCEPT !.st.flowing = "true", !.st.resumeScheduled = TRUE] IN
    IF Flowing(M) THEN M
    ELSE IF M.st.resumeScheduled THEN N ELSE Later(N, "resume_")

\* pause()
DoPause(M) == [M EXCEPT !.st.flowing = "false"]

\* Faulty variant of AddChunk: does not look whether others wait.
AddChunkFirst(M, chunk, buffer) ==
    LET N == Call(M, <<Frame("maybeReadMore")>>)
        B == [N EXCEPT !.st.buffer = buffer] IN
    IF Flowing(M) /\ ~M.st.sync THEN EmitData(Call(N, <<Frame("read0")>>), chunk)
    ELSE IF M.st.needReadable THEN EmitReadable(B) ELSE B

\* readableAddChunk(): the chunk is emitted at once, or buffered.
AddChunk(M, chunk, buffer) ==
    LET N == Call(M, <<Frame("maybeReadMore")>>)
        B == [N EXCEPT !.st.buffer = buffer] IN
    IF Flowing(M) /\ Size(M) = 0 /\ ~M.st.sync
    THEN EmitData(Call(N, <<Frame("read0")>>), chunk)
    ELSE IF M.st.needReadable THEN EmitReadable(B) ELSE B

\* push(chunk)
AddLast(M, chunk) ==
    AddChunk([M EXCEPT !.st.reading = FALSE], chunk, Append(M.st.buffer, chunk))

\* Faulty variant of AddEof: nobody is told.
AddEofSilently(M) == [M EXCEPT !.st.reading = FALSE, !.st.ended = TRUE]

\* push(null)
AddEof(M) ==
    LET N == [M EXCEPT !.st.reading = FALSE] IN
    IF M.st.ended THEN N ELSE EmitReadable([N EXCEPT !.st.ended = TRUE])

\* Faulty variant of OnDrain: counts a 'drain' that nobody waits for.
OnDrainAlways(M) ==
    LET N == [M EXCEPT !.st.awaitDrain = @ - 1] IN
    IF N.st.awaitDrain = 0 /\ Listeners(N) # <<>>
    THEN Flow([N EXCEPT !.st.flowing = "true"]) ELSE N

\* The listener of 'drain' that pipe() adds.
OnDrain(M) ==
    LET N == [M EXCEPT !.st.awaitDrain = IF @ > 0 THEN @ - 1 ELSE @] IN
    IF N.st.awaitDrain = 0 /\ Listeners(N) # <<>>
    THEN Flow([N EXCEPT !.st.flowing = "true"]) ELSE N

\* cleanup() of the pipe to d: nothing waits for d any more.
Cleanup(M, d) ==
    LET N == [M EXCEPT !.st.attached = Remove(@, d)] IN
    IF N.st.awaitDrain > 0 /\ dest[d].needDrain THEN OnDrain(N) ELSE N
-----------------------------------------------------------------------------
(* The library runs the frame on top of the stack, or the next tick.       *)

At(pc) == m.stack # <<>> /\ Last(m.stack).pc = pc
Top == Last(m.stack)
Pop == [m EXCEPT !.stack = Front(@)]
Idle == m.stack = <<>>
Quiet == Idle /\ m.ticks = <<>>

\* The listeners of 'data', one after the other; a destination that is full
\* makes the stream pause until it drains.
OnData ==
    /\ At("data") /\ UNCHANGED <<conf, pushed, odd, calls>>
    /\ \/ Top.to = <<>> /\ m' = Pop /\ UNCHANGED dest
       \/ /\ Top.to # <<>>
          /\ LET d == Head(Top.to)
                 M == Call(Pop, <<[Top EXCEPT !.to = Tail(@)]>>) IN
             \/ d = "user" /\ m' = Call(M, <<User("data")>>) /\ UNCHANGED dest
             \/ d # "user" /\ m' = M /\ UNCHANGED dest
             \/ /\ d # "user"
                /\ m' = DoPause([M EXCEPT !.st.awaitDrain = @ + 1])
                /\ dest' = [dest EXCEPT ![d].needDrain = TRUE]

\* The frames that wait for a call to return.
Continue ==
    /\ UNCHANGED <<conf, pushed, dest, odd, calls>>
    /\ \/ At("_read") /\ LET N == [Pop EXCEPT !.st.sync = FALSE] IN
            m' = ReadRest(N, Top.n, IF N.st.reading THEN Top.k ELSE HowMuchToRead(N, Top.n))
       \/ At("return") /\ m' = [Pop EXCEPT !.ret = Top.ret]
       \/ At("flow_") /\ m' = Flow(Pop)
       \/ At("flow") /\ m' = IF m.ret # Null THEN Flow(Pop) ELSE Pop
       \/ At("read0") /\ m' = Read(Pop, 0)
       \/ At("maybeReadMore") /\ m' =
            IF m.st.readingMore THEN Pop
            ELSE Later([Pop EXCEPT !.st.readingMore = TRUE], "maybeReadMore_")
       \/ At("resume_") /\ m' =
            Flow(Call([Pop EXCEPT !.st.resumeScheduled = FALSE], <<Frame("resumed")>>))
       \/ At("cleanup") /\ m' = Cleanup(Pop, Top.d)
       \/ At("resumed") /\ m' = IF Flowing(m) /\ ~m.st.reading THEN Read(Pop, 0) ELSE Pop

\* maybeReadMore_(): read(0) as long as that brings something.
MaybeReadMore ==
    /\ At("more")
    /\ m' = IF /\ ~m.st.reading /\ ~Flowing(m) /\ ~m.st.ended
               /\ Size(m) < conf.highWaterMark /\ Size(m) # Top.len
            THEN Read(Call(Pop, <<[Top EXCEPT !.len = Size(m)]>>), 0)
            ELSE [Pop EXCEPT !.st.readingMore = FALSE]
    /\ UNCHANGED <<conf, pushed, dest, odd, calls>>

\* The listeners of 'end', one after the other: a pipe ends its destination, or
\* was told not to and only cleans up.
OnEnd ==
    /\ At("end") /\ UNCHANGED <<conf, pushed, odd, calls>>
    /\ IF Top.to = <<>> THEN m' = Pop /\ UNCHANGED dest
       ELSE LET d == Head(Top.to)
                M == Call(Pop, <<[Top EXCEPT !.to = Tail(@)]>>) IN
            IF dest[d].doEnd
            THEN /\ m' = M
                 /\ dest' = [dest EXCEPT ![d].state = IF @ = "open" THEN "ended" ELSE @]
            ELSE m' = Cleanup(M, d) /\ UNCHANGED dest

EmitEnd(M, to) == Call(M, <<[pc |-> "end", to |-> to]>>)

\* Among the ticks: 'end', unless something was put back; and what it does to a
\* destination that was piped to later.
RunTick ==
    /\ Idle /\ m.ticks # <<>>
    /\ UNCHANGED <<conf, pushed, dest, odd, calls>>
    /\ LET tick == Head(m.ticks)
           M == [m EXCEPT !.ticks = Tail(@)] IN
       \/ tick = "emitReadable_" /\ m' = EmitReadable_(M)
       \/ tick = "maybeReadMore_" /\ m' = Call(M, <<[pc |-> "more", len |-> MaxChunks + 1]>>)
       \/ tick = "resume_" /\ LET N == Call(M, <<Frame("resume_")>>)
                              IN m' = IF M.st.reading THEN N ELSE Read(N, 0)
       \/ tick = "read0" /\ m' = Read(M, 0)
       \/ tick = "end" /\ m' = IF M.st.endEmitted \/ Size(M) > 0 THEN M
                               ELSE EmitEnd([M EXCEPT !.st.endEmitted = TRUE], M.st.attached)
       \/ tick \in Dest /\ m' = EmitEnd(M, <<tick>>)
-----------------------------------------------------------------------------
(* The source                                                              *)

\* Code that the stream does not call runs in a turn of its own, or in one in
\* which ticks are already queued.  A listener may make the source push; what it
\* has read itself is not changed by what happens then.
SourceRuns == Idle \/ At("user")
Aside == IF Idle THEN m ELSE Call(m, <<[pc |-> "return", ret |-> m.ret]>>)

Push ==
    /\ SourceRuns /\ ~m.st.ended /\ pushed < conf.chunks
    /\ pushed' = pushed + 1
    /\ m' = AddLast(Aside, pushed')
    /\ UNCHANGED <<conf, dest, odd, calls>>

PushEof ==
    /\ SourceRuns /\ ~m.st.ended
    /\ m' = AddEof(Aside)
    /\ UNCHANGED <<conf, pushed, dest, odd, calls>>

\* _read returns, and so does a listener of 'data'; one of 'readable' does
\* when it has read everything.
Return ==
    /\ At("user") /\ (Top.role = "readable" => m.ret = Null)
    /\ m' = Pop
    /\ UNCHANGED <<conf, pushed, dest, odd, calls>>

-----------------------------------------------------------------------------
(* The consumer                                                            *)

Calls(consumer) ==
    /\ conf.consumer = consumer /\ calls > 0
    /\ calls' = calls - 1 /\ UNCHANGED <<conf, pushed>>

\* on('data')
ListenData ==
    /\ Calls("data") /\ Idle /\ ~m.st.onData
    /\ LET M == [m EXCEPT !.st.onData = TRUE]
       IN m' = IF m.st.flowing = "false" THEN M ELSE DoResume(M)
    /\ UNCHANGED <<dest, odd>>

DataRuns == Idle \/ (At("user") /\ Top.role = "data")

Pause == Calls("data") /\ DataRuns /\ m' = DoPause(m) /\ UNCHANGED <<dest, odd>>

Resume == Calls("data") /\ DataRuns /\ m' = DoResume(m) /\ UNCHANGED <<dest, odd>>

\* on('readable')
ListenReadable ==
    /\ Calls("readable") /\ Idle /\ ~m.st.readableListening /\ ~m.st.endEmitted
    /\ LET M == [m EXCEPT !.st.readableListening = TRUE, !.st.emittedReadable = FALSE,
                          !.st.needReadable = TRUE]
       IN m' = IF ~m.st.reading THEN Later(M, "read0")
               ELSE IF Size(m) > 0 THEN EmitReadable(M) ELSE M
    /\ UNCHANGED <<dest, odd>>

Reader == At("user") /\ Top.role = "readable" /\ m.ret # Null

CallRead == Reader /\ m' = Read(m, 1) /\ UNCHANGED <<conf, pushed, dest, odd, calls>>

\* unshift() of the chunk that was read last; after 'end' it is an error.
Unshift ==
    /\ Calls("readable") /\ Reader /\ m.ret # Unread /\ m.ret = Last(m.emitted)
    /\ LET M == Call([m EXCEPT !.emitted = Front(@)], <<[pc |-> "return", ret |-> Unread]>>)
       IN m' = IF m.st.endEmitted THEN m ELSE AddChunk(M, m.ret, <<m.ret>> \o m.st.buffer)
    /\ UNCHANGED <<dest, odd>>

\* pipe(d).  It resumes the stream, also while a pipe waits for 'drain'.
Pipe == \E d \in Dest, doEnd \in BOOLEAN :
    /\ Calls("pipe") /\ Idle /\ d \notin ToSet(m.st.pipes) \cup ToSet(m.ticks)
    /\ LET M == [m EXCEPT !.st.pipes = Append(@, d), !.st.attached = Append(@, d)]
       IN m' = DoResume(IF m.st.endEmitted THEN Later(M, d) ELSE M)
    /\ dest' = [dest EXCEPT ![d].doEnd = doEnd]
    /\ odd' = odd \cup {"pipe" : x \in 1..m.st.awaitDrain}

\* Faulty variant of DoUnpipe: goes on waiting for the destination.
DoUnpipeOnly(M, d) ==
    [M EXCEPT !.st.pipes = Remove(@, d), !.st.attached = Remove(@, d),
              !.st.flowing = IF Len(M.st.pipes) = 1 THEN "false" ELSE @]

\* unpipe(d), with the cleanup that pipe() does then.
DoUnpipe(M, d) ==
    LET N == [M EXCEPT !.st.pipes = Remove(@, d),
                       !.st.flowing = IF Len(M.st.pipes) = 1 THEN "false" ELSE @] IN
    IF d \in ToSet(M.st.attached) THEN Cleanup(N, d) ELSE N

Unpipe == \E d \in ToSet(m.st.pipes) :
    Calls("pipe") /\ Idle /\ m' = DoUnpipe(m, d) /\ UNCHANGED <<dest, odd>>

\* unpipe() for several destinations: one after the other cleans up, and may
\* make the stream flow to those that have not yet.
UnpipeAll ==
    /\ Calls("pipe") /\ Idle /\ Len(m.st.pipes) > 1
    /\ m' = Call([m EXCEPT !.st.pipes = <<>>, !.st.flowing = "false"],
                 [i \in DOMAIN m.st.attached |->
                    [pc |-> "cleanup", d |-> Reverse(m.st.attached)[i]]])
    /\ odd' = odd \cup {"unpipe" : x \in 1..m.st.awaitDrain}
    /\ UNCHANGED dest
-----------------------------------------------------------------------------
(* The destinations.  One that was ended emits no 'drain'.                 *)

Drain(d) ==
    /\ Idle /\ dest[d].needDrain /\ dest[d].state = "open"
    /\ dest' = [dest EXCEPT ![d].needDrain = FALSE]
    /\ m' = IF d \in ToSet(m.st.attached) THEN OnDrain(m) ELSE m
    /\ UNCHANGED <<conf, pushed, odd, calls>>

\* 'finish' of a destination that was ended, at once or later.
Finish(d) ==
    /\ Idle \/ At("end")
    /\ dest[d].state = "ended"
    /\ dest' = [dest EXCEPT ![d].state = "finished"]
    /\ m' = IF d \in ToSet(m.st.attached) THEN DoUnpipe(m, d) ELSE m
    /\ UNCHANGED <<conf, pushed, odd, calls>>

Source == Push \/ PushEof

\* The library runs to the end, listeners return, a destination drains, and
\* the source answers a call of _read.
Progress ==
    \/ OnData \/ OnEnd \/ Continue \/ MaybeReadMore \/ RunTick \/ Return \/ CallRead
    \/ (\E d \in Dest : Drain(d) \/ Finish(d))
    \/ (m.st.reading /\ Source)

Next ==
    \/ Progress \/ Source \/ ListenData \/ Pause \/ Resume
    \/ ListenReadable \/ Unshift \/ Pipe \/ Unpipe \/ UnpipeAll

Spec == Init /\ [][Next]_vars /\ WF_vars(Progress)
-----------------------------------------------------------------------------
(* Properties                                                              *)

\* Types; awaitDrain never gets below zero.
TypeOK ==
    /\ m.st.buffer \in Seq(Chunk) /\ m.emitted \in Seq(Chunk) /\ m.st.pipes \in Seq(Dest)
    /\ m.st.attached \in Seq(Dest)
    /\ m.st.flowing \in {"null", "true", "false"} /\ m.ret \in Chunk \cup {Null, Unread}
    /\ {m.st.ended, m.st.endEmitted, m.st.reading, m.st.sync, m.st.needReadable,
        m.st.emittedReadable, m.st.readableListening, m.st.readingMore,
        m.st.resumeScheduled} \subseteq BOOLEAN
    /\ m.st.awaitDrain \in Nat /\ odd \subseteq {"pipe", "unpipe"}
    /\ dest \in [Dest -> [needDrain : BOOLEAN, doEnd : BOOLEAN,
                        state : {"open", "ended", "finished"}]]
    /\ pushed \in 0..MaxChunks /\ calls \in Nat

\* The stream implements DataFlow: whatever mixture of emitted chunks, read()
\* and 'end' the consumer sees, it is the pushed chunks in order, and 'end'
\* last.  A chunk that is emitted while nobody listens counts as delivered.
Abstract == INSTANCE DataFlow WITH
    pushed <- pushed, eof <- m.st.ended, got <- m.emitted, end <- m.st.endEmitted

FlowSpec == Abstract!Spec

\* When the library has nothing left to run, a consumer that wants data has
\* taken all there is and more was asked of the source; every 'drain' that a
\* stopped pipe waits for is still to come; and a stream that has lost its last
\* pipe does not flow.  There are three exceptions.  A listener of 'readable'
\* that is added in the turn of a push() may not hear of that chunk until the
\* source answers.  After a pipe() while another pipe waited for 'drain', that
\* one is written to again, is counted again, and drains once.  And an unpipe()
\* of several pipes, one of which waited for 'drain', may make the stream flow
\* again before the last of them is gone.
NoLostWakeup == Quiet /\ "pipe" \notin odd =>
    /\ Flowing(m) \/ m.st.readableListening => m.st.reading \/ m.st.ended
    /\ Flowing(m) \/ (m.st.readableListening /\ ~m.st.needReadable) => m.st.buffer = <<>>
    /\ m.st.awaitDrain <= Cardinality({d \in ToSet(m.st.attached) : dest[d].needDrain})
    /\ conf.consumer = "pipe" /\ m.st.pipes = <<>> /\ "unpipe" \notin odd => ~Flowing(m)

\* A consumer wants data: some pipe, a listener that is not paused, a reader.
Consuming ==
    \/ m.st.pipes # <<>>
    \/ m.st.onData /\ m.st.flowing # "false"
    \/ m.st.readableListening

Complete == m.st.endEmitted /\ Len(m.emitted) = pushed

\* A consumer that keeps wanting data gets all of it and the end, even from a
\* source that only pushes when _read asks for it.  (Not so after a pipe() while
\* another pipe waited for 'drain'.)
Completes == <>[](Consuming \/ m.st.endEmitted) => <>("pipe" \in odd \/ Complete)

\* The same for pipes, whenever pipe() was called: "Multiple destinations can be
\* piped to safely" (doc/api/stream.markdown).
PipesComplete == <>[](m.st.pipes # <<>>) => <>Complete
=============================================================================
