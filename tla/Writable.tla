------------------------------ MODULE Writable ------------------------------
(***************************************************************************)
(* A Writable stream: lib/_stream_writable.js.  Its methods call user code *)
(* (_write, callbacks, event listeners), which may call them again before  *)
(* they return, so the module keeps the call stack: a frame is either user *)
(* code or the rest of a library function that waits for a call to return. *)
(* The nextTick queue runs when the stack is empty.                        *)
(*                                                                         *)
(* Every chunk has length 1 (objectMode); a chunk is the number of the     *)
(* write() call that brought it, and so is its request in the buffer.      *)
(***************************************************************************)
EXTENDS Naturals, Sequences, FiniteSets, SequencesExt

CONSTANTS
    HighWaterMark,
    Writev,      \* whether the stream implements _writev: the cases
    MayFail,     \* _write and _writev may report an error
    Callers,     \* the roles in which user code calls the stream again
    MaxWrites,   \* bound: calls of write()
    MaxCorks,    \* bound: calls of cork()
    MaxEnds      \* bound: calls of end()

Role == {"main", "_write", "callback", "drain", "error", "prefinish", "finish"}
Req == 1..MaxWrites

ASSUME WritableAssumption ==
    /\ {HighWaterMark, MaxWrites, MaxCorks, MaxEnds} \subseteq Nat
    /\ Writev \subseteq BOOLEAN /\ MayFail \in BOOLEAN
    /\ Callers \subseteq Role

VARIABLES
    st,         \* stream._writableState, and whether stream._writev is set
    next,       \* the field next of each WriteReq
    stack,      \* the call stack, innermost last
    ticks,      \* the nextTick queue
    pending,    \* the callback given to _write has not been called
    writes,     \* history: the number of write() calls
    corks, ends,
    rejected,   \* history: the writes after end
    handed,     \* history: the chunks given to _write and _writev
    called,     \* history: how often the callback of each write was called
    finishes,   \* history: 'finish' events
    errored     \* history: _write reported an error

calls == <<writes, corks, ends, rejected>>
outcome == <<called, finishes, errored>>
vars == <<st, next, stack, ticks, pending, calls, handed, outcome>>

NoCb == [reqs |-> <<>>, v |-> FALSE]

Init ==
    /\ \E v \in Writev : st =
            [hasWritev |-> v, length |-> 0, needDrain |-> FALSE, writing |-> FALSE, sync |-> TRUE,
             corked |-> 0, bufferProcessing |-> FALSE,
             bufferedRequest |-> 0, lastBufferedRequest |-> 0,
             ending |-> FALSE, ended |-> FALSE, finished |-> FALSE,
             prefinished |-> FALSE, pendingcb |-> 0, writelen |-> 0,
             writecb |-> NoCb]
    /\ next = [r \in Req |-> 0]
    /\ stack = <<>> /\ ticks = <<>> /\ pending = FALSE
    /\ writes = 0 /\ corks = 0 /\ ends = 0
    /\ rejected = {} /\ handed = <<>>
    /\ called = [r \in Req |-> 0]
    /\ finishes = 0 /\ errored = FALSE
-----------------------------------------------------------------------------
(* The stack                                                               *)

User(role) == [pc |-> "user", role |-> role]
Frame(pc) == [pc |-> pc]
Rest == Front(stack)
Top == Last(stack)
At(pc) == stack # <<>> /\ Top.pc = pc

\* User code runs: a turn or a tick of its own, or a frame on the stack.
UserRuns ==
    \/ stack = <<>> /\ "main" \in Callers
    \/ At("user") /\ Top.role \in Callers
Caller == IF stack = <<>> THEN <<User("main")>> ELSE stack

\* doWrite(): s is the state, base the stack, reqs what _write(v) gets.
DoWrite(s, base, reqs, v, len) ==
    /\ st' = [s EXCEPT !.writelen = len, !.writecb = [reqs |-> reqs, v |-> v],
                       !.writing = TRUE, !.sync = TRUE]
    /\ stack' = base \o <<Frame("doWrite"), User("_write")>>
    /\ handed' = handed \o reqs
    /\ pending' = TRUE

\* The requests from r on.
Chain(nx, r) ==
    LET Step(acc, i) == IF acc.at = 0 THEN acc
                        ELSE [reqs |-> Append(acc.reqs, acc.at), at |-> nx[acc.at]]
    IN FoldLeft(Step, [reqs |-> <<>>, at |-> r], [i \in 1..MaxWrites |-> i]).reqs

\* Faulty variant of ClearBuffer: does not count the callback it adds.
ClearBufferUncounted(s, base) ==
    LET entry == s.bufferedRequest
        s1 == [s EXCEPT !.bufferProcessing = TRUE] IN
    IF s.hasWritev /\ next[entry] # 0
      THEN DoWrite([s1 EXCEPT !.lastBufferedRequest = 0],
                   Append(base, Frame("clearv")), Chain(next, entry), TRUE, s.length)
      ELSE DoWrite(s1, Append(base, [pc |-> "clear", entry |-> entry]), <<entry>>, FALSE, 1)

\* clearBuffer(): all at once with _writev, else the first one.
ClearBuffer(s, base) ==
    LET entry == s.bufferedRequest
        s1 == [s EXCEPT !.bufferProcessing = TRUE] IN
    IF s.hasWritev /\ next[entry] # 0
      THEN DoWrite([s1 EXCEPT !.pendingcb = @ + 1, !.lastBufferedRequest = 0],
                   Append(base, Frame("clearv")), Chain(next, entry), TRUE, s.length)
      ELSE DoWrite(s1, Append(base, [pc |-> "clear", entry |-> entry]), <<entry>>, FALSE, 1)

CanClear(s) ==
    s.corked = 0 /\ ~s.bufferProcessing /\ s.bufferedRequest # 0

NeedFinish(s) ==
    s.ending /\ s.length = 0 /\ s.bufferedRequest = 0 /\ ~s.finished /\ ~s.writing

\* Go on with state s and stack k, without a call of _write.
Goto(s, k) == st' = s /\ stack' = k /\ UNCHANGED <<handed, pending>>
-----------------------------------------------------------------------------
(* write(), cork(), uncork() and end()                                     *)

\* Faulty variant of MustBuffer: a write on its way is not waited for.
MustBufferCorked(s) == s.corked > 0

\* A chunk waits its turn behind a write on its way, or for uncork().
MustBuffer(s) == s.writing \/ s.corked > 0

\* Calls write() from user code on the stack base.
DoCall(base) ==
    LET r == writes + 1
        s == [st EXCEPT !.pendingcb = @ + 1, !.length = @ + 1,
                        !.needDrain = @ \/ st.length + 1 >= HighWaterMark]
        last == s.lastBufferedRequest IN
    /\ writes' = r
    /\ IF st.ended
         THEN /\ Goto(st, base \o <<[pc |-> "writeAfterEnd", cb |-> [reqs |-> <<r>>, v |-> FALSE]],
                                     User("error")>>)
              /\ rejected' = rejected \cup {r}
              /\ UNCHANGED next
         ELSE /\ IF MustBuffer(s)
                   THEN /\ Goto([s EXCEPT !.lastBufferedRequest = r,
                                  !.bufferedRequest = IF last = 0 THEN r ELSE @], base)
                        /\ next' = IF last = 0 THEN next ELSE [next EXCEPT ![last] = r]
                   ELSE /\ DoWrite(s, base, <<r>>, FALSE, 1)
                        /\ UNCHANGED next
              /\ UNCHANGED rejected
    /\ UNCHANGED ticks

Write ==
    /\ UserRuns /\ writes < MaxWrites
    /\ DoCall(Caller)
    /\ UNCHANGED <<corks, ends, outcome>>

\* writeAfterEnd() once 'error' was emitted: the callback comes in a tick.
RejectLater ==
    /\ At("writeAfterEnd")
    /\ Goto(st, Rest) /\ ticks' = Append(ticks, [pc |-> "call", cb |-> Top.cb])
    /\ UNCHANGED <<next, calls, outcome>>

Cork ==
    /\ UserRuns /\ corks < MaxCorks
    /\ corks' = corks + 1
    /\ Goto([st EXCEPT !.corked = @ + 1], Caller)
    /\ UNCHANGED <<next, ticks, writes, ends, rejected, outcome>>

\* Faulty variant of DoUncork: the buffer is not cleared.
DoUncorkIdle(s, base) == Goto([s EXCEPT !.corked = @ - 1], base)

DoUncork(s, base) ==
    IF ~s.writing /\ ~s.finished /\ CanClear([s EXCEPT !.corked = @ - 1])
      THEN ClearBuffer([s EXCEPT !.corked = @ - 1], base)
      ELSE Goto([s EXCEPT !.corked = @ - 1], base)

Uncork ==
    /\ UserRuns /\ st.corked > 0
    /\ DoUncork(st, Caller)
    /\ UNCHANGED <<next, ticks, calls, outcome>>

\* end() with or without a last chunk.
End ==
    /\ UserRuns /\ ends < MaxEnds
    /\ ends' = ends + 1
    /\ \/ /\ writes < MaxWrites
          /\ DoCall(Append(Caller, Frame("end")))
       \/ /\ Goto(st, Append(Caller, Frame("end")))
          /\ UNCHANGED <<next, ticks, writes, rejected>>
    /\ UNCHANGED <<corks, outcome>>

EndUncork ==
    /\ At("end")
    /\ IF st.corked > 0
         THEN DoUncork([st EXCEPT !.corked = 1], Append(Rest, Frame("endWritable")))
         ELSE Goto(st, Append(Rest, Frame("endWritable")))
    /\ UNCHANGED <<next, ticks, calls, outcome>>

EndWritable ==
    /\ At("endWritable")
    /\ IF ~st.ending /\ ~st.finished
         THEN Goto([st EXCEPT !.ending = TRUE], Rest \o <<Frame("ended"), Frame("finishMaybe")>>)
         ELSE Goto(st, Rest)
    /\ UNCHANGED <<next, ticks, calls, outcome>>

Ended ==
    /\ At("ended")
    /\ Goto([st EXCEPT !.ended = TRUE], Rest)
    /\ UNCHANGED <<next, ticks, calls, outcome>>
-----------------------------------------------------------------------------
(* onwrite(), the callback of _write, and what follows                     *)

Updated == [st EXCEPT !.writing = FALSE, !.writecb = NoCb,
                      !.length = @ - st.writelen, !.writelen = 0]

\* Without an error: clear the buffer first, then afterWrite().
Onwrite(base) ==
    LET cb == st.writecb
        finished == NeedFinish(Updated)
        k == Append(base, [pc |-> "onwrite", sync |-> st.sync, finished |-> finished, cb |-> cb]) IN
    IF ~finished /\ CanClear(Updated) THEN ClearBuffer(Updated, k)
    ELSE st' = Updated /\ stack' = k /\ pending' = FALSE /\ UNCHANGED handed

\* With an error: the callback and 'error', but nothing for the buffer.
OnwriteError(base) ==
    LET cb == st.writecb IN
    /\ pending' = FALSE /\ errored' = TRUE
    /\ IF st.sync
         THEN /\ ticks' = Append(ticks, [pc |-> "callback", cb |-> cb])
              /\ st' = Updated /\ stack' = Append(base, User("error"))
         ELSE /\ st' = Updated
              /\ stack' = base \o <<Frame("emit error"), [pc |-> "callback", cb |-> cb]>>
              /\ UNCHANGED ticks
    /\ UNCHANGED handed

\* _write calls its callback before it returns, or other code does so later: in
\* a turn or a tick of its own, or while user code that calls the stream runs,
\* as a Transform does when its other side is read.  An afterWrite() may then
\* still wait in a tick.
Complete ==
    /\ pending
    /\ stack = <<>> \/ (At("user") /\ Top.role \in Callers \cup {"_write"})
    /\ \/ Onwrite(stack) /\ UNCHANGED <<ticks, errored>>
       \/ MayFail /\ OnwriteError(stack)
    /\ UNCHANGED <<next, calls, called, finishes>>

\* Faulty variant of OnwriteEnd: state.writecb is read after clearBuffer().
OnwriteEndLate ==
    /\ At("onwrite")
    /\ LET after == [pc |-> "afterWrite", finished |-> Top.finished,
                     cb |-> IF st.writing THEN st.writecb ELSE Top.cb] IN
       IF Top.sync THEN Goto(st, Rest) /\ ticks' = Append(ticks, after)
       ELSE Goto(st, Append(Rest, after)) /\ UNCHANGED ticks
    /\ UNCHANGED <<next, calls, outcome>>

\* The end of onwrite(): afterWrite() now, or in a tick.
OnwriteEnd ==
    /\ At("onwrite")
    /\ LET after == [pc |-> "afterWrite", finished |-> Top.finished, cb |-> Top.cb] IN
       IF Top.sync THEN Goto(st, Rest) /\ ticks' = Append(ticks, after)
       ELSE Goto(st, Append(Rest, after)) /\ UNCHANGED ticks
    /\ UNCHANGED <<next, calls, outcome>>

\* Faulty variant of AfterWrite: does not check for the end.
AfterWriteForever ==
    /\ At("afterWrite")
    /\ LET k == Append(Rest, [pc |-> "callback", cb |-> Top.cb]) IN
       IF ~Top.finished /\ st.length = 0 /\ st.needDrain
         THEN Goto([st EXCEPT !.needDrain = FALSE], Append(k, User("drain")))
         ELSE Goto(st, k)
    /\ UNCHANGED <<next, ticks, calls, outcome>>

\* Faulty variant of AfterWrite: 'drain' only while the buffer is full.
AfterWriteWhenFull ==
    /\ At("afterWrite")
    /\ LET k == Rest \o <<Frame("finishMaybe"), [pc |-> "callback", cb |-> Top.cb]>> IN
       IF ~Top.finished /\ st.length >= HighWaterMark /\ st.needDrain
         THEN Goto([st EXCEPT !.needDrain = FALSE], Append(k, User("drain")))
         ELSE Goto(st, k)
    /\ UNCHANGED <<next, ticks, calls, outcome>>

AfterWrite ==
    /\ At("afterWrite")
    /\ LET k == Rest \o <<Frame("finishMaybe"), [pc |-> "callback", cb |-> Top.cb]>> IN
       IF ~Top.finished /\ st.length = 0 /\ st.needDrain
         THEN Goto([st EXCEPT !.needDrain = FALSE], Append(k, User("drain")))
         ELSE Goto(st, k)
    /\ UNCHANGED <<next, ticks, calls, outcome>>

\* pendingcb--, then the callback of one write, or the function that
\* clearBuffer() made to call those of a _writev one by one.
Callback ==
    /\ At("callback")
    /\ LET s == [st EXCEPT !.pendingcb = @ - 1] IN
       IF Top.cb.v THEN Goto(s, Append(Rest, [pc |-> "each", reqs |-> Top.cb.reqs]))
                        /\ UNCHANGED called
       ELSE /\ Goto(s, Append(Rest, User("callback")))
            /\ called' = [called EXCEPT ![Top.cb.reqs[1]] = @ + 1]
    /\ UNCHANGED <<next, ticks, calls, finishes, errored>>

\* Faulty variant of Each: pendingcb is not decremented.
EachUncounted ==
    /\ At("each")
    /\ IF Top.reqs = <<>> THEN Goto(st, Rest) /\ UNCHANGED called
       ELSE /\ Goto(st, Rest \o <<[Top EXCEPT !.reqs = Tail(@)], User("callback")>>)
            /\ called' = [called EXCEPT ![Head(Top.reqs)] = @ + 1]
    /\ UNCHANGED <<next, ticks, calls, finishes, errored>>

Each ==
    /\ At("each")
    /\ IF Top.reqs = <<>> THEN Goto(st, Rest) /\ UNCHANGED called
       ELSE /\ Goto([st EXCEPT !.pendingcb = @ - 1],
                    Rest \o <<[Top EXCEPT !.reqs = Tail(@)], User("callback")>>)
            /\ called' = [called EXCEPT ![Head(Top.reqs)] = @ + 1]
    /\ UNCHANGED <<next, ticks, calls, finishes, errored>>

\* The callback of a rejected write: no pendingcb was counted for it.
Call ==
    /\ At("call")
    /\ Goto(st, Append(Rest, User("callback")))
    /\ called' = [called EXCEPT ![Top.cb.reqs[1]] = @ + 1]
    /\ UNCHANGED <<next, ticks, calls, finishes, errored>>

EmitError ==
    /\ At("emit error")
    /\ Goto(st, Append(Rest, User("error")))
    /\ UNCHANGED <<next, ticks, calls, outcome>>

\* Faulty variant of FinishMaybe: does not wait for the callbacks.
FinishMaybeEager ==
    /\ At("finishMaybe")
    /\ LET k == Append(Rest, Frame("finish")) IN
       IF ~NeedFinish(st) THEN Goto(st, Rest)
       ELSE IF st.prefinished THEN Goto(st, k)
       ELSE Goto([st EXCEPT !.prefinished = TRUE], Append(k, User("prefinish")))
    /\ UNCHANGED <<next, ticks, calls, outcome>>

\* finishMaybe(): prefinish once; finish if no callback is outstanding.
FinishMaybe ==
    /\ At("finishMaybe")
    /\ LET k == IF st.pendingcb = 0 THEN Append(Rest, Frame("finish")) ELSE Rest IN
       IF ~NeedFinish(st) THEN Goto(st, Rest)
       ELSE IF st.prefinished THEN Goto(st, k)
       ELSE Goto([st EXCEPT !.prefinished = TRUE], Append(k, User("prefinish")))
    /\ UNCHANGED <<next, ticks, calls, outcome>>

Finish ==
    /\ At("finish")
    /\ Goto([st EXCEPT !.finished = TRUE], Append(Rest, User("finish")))
    /\ finishes' = finishes + 1
    /\ UNCHANGED <<next, ticks, calls, called, errored>>
-----------------------------------------------------------------------------
(* The loop of clearBuffer(), returns and ticks                            *)

AfterDoWrite ==
    /\ At("doWrite")
    /\ Goto([st EXCEPT !.sync = FALSE], Rest)
    /\ UNCHANGED <<next, ticks, calls, outcome>>

\* Faulty variant of ClearLoop: lastBufferedRequest outlives the buffer.
ClearLoopStale ==
    /\ At("clear")
    /\ LET entry == next[Top.entry] IN
       IF ~st.writing /\ entry # 0
         THEN DoWrite(st, Append(Rest, [pc |-> "clear", entry |-> entry]), <<entry>>, FALSE, 1)
         ELSE Goto([st EXCEPT !.bufferedRequest = entry, !.bufferProcessing = FALSE], Rest)
    /\ UNCHANGED <<next, ticks, calls, outcome>>

ClearLoop ==
    /\ At("clear")
    /\ LET entry == next[Top.entry] IN
       IF ~st.writing /\ entry # 0
         THEN DoWrite(st, Append(Rest, [pc |-> "clear", entry |-> entry]), <<entry>>, FALSE, 1)
         ELSE Goto([st EXCEPT !.bufferedRequest = entry, !.bufferProcessing = FALSE,
                              !.lastBufferedRequest = IF entry = 0 THEN 0 ELSE @], Rest)
    /\ UNCHANGED <<next, ticks, calls, outcome>>

ClearvEnd ==
    /\ At("clearv")
    /\ Goto([st EXCEPT !.bufferedRequest = 0, !.bufferProcessing = FALSE], Rest)
    /\ UNCHANGED <<next, ticks, calls, outcome>>

\* User code returns.
Return ==
    /\ At("user")
    /\ Goto(st, Rest)
    /\ UNCHANGED <<next, ticks, calls, outcome>>

Tick ==
    /\ stack = <<>> /\ ticks # <<>>
    /\ Goto(st, <<Head(ticks)>>)
    /\ ticks' = Tail(ticks)
    /\ UNCHANGED <<next, calls, outcome>>

Library ==
    \/ RejectLater \/ EndUncork \/ EndWritable \/ Ended \/ OnwriteEnd \/ AfterWrite
    \/ Callback \/ Each \/ Call \/ EmitError \/ FinishMaybe \/ Finish \/ AfterDoWrite
    \/ ClearLoop \/ ClearvEnd \/ Tick

Next == Write \/ Cork \/ Uncork \/ End \/ Complete \/ Return \/ Library

\* Functions return, ticks run, and what _write started completes.
Fairness == WF_vars(Return) /\ WF_vars(Library) /\ WF_vars(stack = <<>> /\ Complete)

Spec == Init /\ [][Next]_vars /\ Fairness
-----------------------------------------------------------------------------
(* Properties                                                              *)

Accepted == (1..writes) \ rejected
Buffered == Chain(next, st.bufferedRequest)
Quiet == stack = <<>>

\* The types of _writableState and of the history; no counter is ever negative
\* and no callback is called twice.
TypeOK ==
    /\ st.length \in 0..MaxWrites /\ st.writelen \in 0..MaxWrites
    /\ st.corked \in 0..MaxCorks /\ st.pendingcb \in 0..(2 * MaxWrites)
    /\ {st.needDrain, st.writing, st.sync, st.bufferProcessing, st.ending, st.ended,
        st.finished, st.prefinished, pending, errored} \subseteq BOOLEAN
    /\ {st.bufferedRequest, st.lastBufferedRequest} \subseteq Req \cup {0}
    /\ st.writecb.reqs \in Seq(Req) /\ next \in [Req -> Req \cup {0}]
    /\ writes \in 0..MaxWrites /\ corks \in 0..MaxCorks /\ ends \in 0..MaxEnds
    /\ rejected \subseteq Req /\ handed \in Seq(Req)
    /\ called \in [Req -> 0..1] /\ finishes \in 0..1

\* The chunks reach _write and _writev in the order of the write() calls,
\* none left out and none twice, however the calls of the stream from callbacks,
\* listeners and other turns nest and whenever _write completes; only an error
\* of _write changes the order.
InOrder == ~errored => \A i \in DOMAIN handed : handed[i] = i

\* Between turns nothing that write() took is lost: it was given to _write or
\* waits in the linked list from bufferedRequest, whose end is
\* lastBufferedRequest; and length counts what is not completed.
NothingLost == Quiet =>
    /\ ToSet(handed) \cup ToSet(Buffered) = Accepted
    /\ ToSet(handed) \cap ToSet(Buffered) = {}
    /\ st.lastBufferedRequest = IF Buffered = <<>> THEN 0 ELSE Last(Buffered)
    /\ st.length = Len(Buffered) + Len(st.writecb.reqs)
    /\ pending <=> st.writing

\* Between turns pendingcb counts the callbacks still to be called, and one
\* for every _writev on its way; 'finish' depends on it.
PendingCount == Quiet =>
    st.pendingcb = Cardinality({r \in Accepted : called[r] = 0})
        + (IF st.writecb.v THEN 1 ELSE 0)
        + Cardinality({i \in DOMAIN ticks : ticks[i].cb.v})

\* The writes that onwrite() was called for and whose callback is about to be
\* called: by a tick, or by a function on the stack.
Due == UNION (
    {ToSet(ticks[i].cb.reqs) : i \in DOMAIN ticks}
    \cup {ToSet(stack[i].cb.reqs) :
            i \in {j \in DOMAIN stack : stack[j].pc \in {"onwrite", "afterWrite", "callback"}}}
    \cup {ToSet(stack[i].reqs) : i \in {j \in DOMAIN stack : stack[j].pc = "each"}})

\* A callback is called only for a chunk that was handed over, and before that
\* of an earlier write only if the earlier one is due: it waits in a tick or
\* further out on the stack.  (onwrite() defers some callbacks and calls others
\* at once, so their order need not be that of the writes.)  When the stack and
\* the ticks are done, the writes whose callbacks were called are the first ones.
OvertakenIsDue ==
    /\ \A r \in Accepted : called[r] > 0 => r \in ToSet(handed)
    /\ ~errored => \A r, t \in Accepted : r < t /\ called[t] > 0 => called[r] > 0 \/ r \in Due

\* 'finish' comes once, after every callback; nothing is written after it.
FinishIsLast ==
    st.finished => /\ finishes <= 1
                   /\ \A r \in Accepted : called[r] = 1
                   /\ ~st.writing

\* Once end() was called no write() is accepted, even before the stream has
\* finished.
NothingAfterEnd == [][st.ending => Accepted' = Accepted]_vars

\* Every write() has its callback called, unless an error stopped the stream
\* or the program leaves it corked.
WriteCompletes == \A r \in Req :
    writes >= r ~> called[r] > 0 \/ errored \/ st.corked > 0

\* After end() comes 'finish', unless there was an error or the program corks
\* the stream again.
EndFinishes == ends > 0 ~> finishes > 0 \/ errored \/ st.corked > 0

\* After write() returned false comes 'drain', unless the stream is ended or
\* corked, or there was an error.
DrainComes == st.needDrain ~> ~st.needDrain \/ st.ending \/ errored \/ st.corked > 0
=============================================================================
