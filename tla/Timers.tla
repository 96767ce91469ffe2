------------------------------- MODULE Timers -------------------------------
(***************************************************************************)
(* Timers, immediates and what is left of a turn of the event loop when a  *)
(* callback throws: lib/timers.js, lib/_linklist.js and, for the tick      *)
(* queue and uncaught exceptions, src/node.js.  A program with an          *)
(* 'uncaughtException' listener is assumed: without one it would exit.     *)
(*                                                                         *)
(* Time is relative, so that it has no bound: an object knows its age (the *)
(* time since _idleStart), a libuv timer what is left until it expires,    *)
(* and a function that called Timer.now() how late it is by now.  Time     *)
(* passes between turns and in callbacks of timers.  libuv counts a timer  *)
(* from the loop's time, which it reads at the start of a turn and when    *)
(* Timer.now() is called: tm.stale is how old that time is.                *)
(*                                                                         *)
(* A list is a sequence, the most idle item first.                         *)
(***************************************************************************)
EXTENDS Integers, Sequences, FiniteSets, SequencesExt, FiniteSetsExt

CONSTANTS
    Msecs,          \* the delays
    MaxTimers,      \* bound: calls of setTimeout() and setInterval()
    MaxItems,       \* bound: items (sockets) given to enroll()
    MaxLists,       \* bound: lists at a time
    MaxImmediates,  \* bound: calls of setImmediate()
    MaxLate,        \* bound: how long a callback runs
    Programs        \* bounds of each program: how many timers, items and
                    \* immediates it uses, calls it makes, exceptions it throws

ASSUME TimersAssumption ==
    /\ Msecs \subseteq Nat \ {0} /\ IsFiniteSet(Msecs) /\ Msecs # {}
    /\ {MaxTimers, MaxItems, MaxLists, MaxImmediates, MaxLate} \subseteq Nat
    /\ Programs \subseteq [timers : 0..MaxTimers, items : 0..MaxItems,
                           immediates : 0..MaxImmediates, calls : Nat, throws : Nat]

Timeout == 1..MaxTimers
Item == (MaxTimers + 1)..(MaxTimers + MaxItems)
Id == Timeout \cup Item
NoList == 0         \* lists[msecs] is undefined
UnrefList == 0      \* the list of _unrefActive(), and unrefTimer
ListId == 1..MaxLists
Immediate == 1..MaxImmediates
TickCallback == 0   \* process._tickCallback, as an immediate
Oldest == Max(Msecs) + MaxLate   \* ages from here on are the same

VARIABLES
    tm,       \* the state of timers.js: see Init
    imm,      \* immediateQueue, process._needImmediateCallback, and a count
    stack,    \* the call stack, innermost last
    ticks,    \* the nextTick queue
    budget,   \* what the program may still do, of its bounds
    owed,     \* history: who is to be called, and the time since it was set
    dead,     \* history: the timers whose callback threw
    setImm    \* history: the immediates neither run nor cleared

vars == <<tm, imm, stack, ticks, budget, owed, dead, setImm>>

Closed == [open |-> FALSE, active |-> FALSE, left |-> 0, ref |-> FALSE]
Started(n, r) == [open |-> TRUE, active |-> TRUE, left |-> n, ref |-> r]
Start(h, n) == [h EXCEPT !.active = TRUE, !.left = n]
Stop(h) == [h EXCEPT !.active = FALSE, !.left = 0]
\* start() without a call of Timer.now() just before.
StartStale(S, h, n) == Start(h, n - S.stale)

\* kind "new": not created yet; handle is a set, empty or with one handle.
NewObject(kind, ms) ==
    [kind |-> kind, delay |-> ms, idleTimeout |-> ms, age |-> Oldest, linked |-> kind # "new",
     onTimeout |-> kind # "new", repeat |-> kind = "interval", called |-> FALSE, handle |-> {}]

Init ==
    /\ tm = [obj |-> [t \in Id |-> NewObject(IF t \in Item THEN "item" ELSE "new", -1)],
             lists |-> [ms \in Msecs |-> NoList],
             q |-> [l \in ListId \cup {UnrefList} |-> <<>>],
             msecs |-> [l \in ListId \cup {UnrefList} |-> 0],
             h |-> [l \in ListId \cup {UnrefList} |->
                        IF l = UnrefList THEN [Closed EXCEPT !.open = TRUE] ELSE Closed],
             when |-> 0, stale |-> 0]
    /\ imm = [queue |-> <<>>, need |-> FALSE, made |-> 0]
    /\ stack = <<>> /\ ticks = <<>>
    /\ budget \in Programs
    /\ owed = [t \in Id |-> [on |-> FALSE, age |-> 0]]
    /\ dead = {} /\ setImm = {}
-----------------------------------------------------------------------------
(* The stack.  The frame "ticks" is _tickCallback(), which runs after the  *)
(* callback that libuv called and as the immediate TickCallback.           *)

User(who) == [pc |-> "user", who |-> who]
Main == 0
Frame(pc) == [pc |-> pc]
ListFrame(l, ms) == [pc |-> "list", l |-> l, ms |-> ms, late |-> 0]
UnrefdFrame(t) == [pc |-> "unrefd", t |-> t, late |-> 0]
Of(pc, t) == [pc |-> pc, t |-> t]
Clocked(f) == f.pc \in {"list", "unrefd"}
Rest == Front(stack)
Top == Last(stack)
At(pc) == stack # <<>> /\ Top.pc = pc
Used == {t \in Item : t <= MaxTimers + budget.items}

\* User code calls: a callback on the stack, or one of libuv that has nothing
\* to do with timers.
Calling ==
    /\ budget.calls > 0
    /\ stack = <<>> \/ At("user")
Caller == IF stack = <<>> THEN <<Frame("ticks"), User(Main)>> ELSE stack
Spend == budget' = [budget EXCEPT !.calls = @ - 1]
-----------------------------------------------------------------------------
(* Lists (_linklist.js), and the lists of timers.js.  S is a state tm.     *)

Unlink(S, t) ==
    \* The age of an item in no list does not matter.
    [S EXCEPT !.q = [l \in DOMAIN @ |-> Remove(@[l], t)],
              !.obj[t].linked = FALSE, !.obj[t].age = Oldest]

\* Faulty variant of AppendTo: the item stays in the list it was in.
AppendToLinked(S, l, t) ==
    [S EXCEPT !.q[l] = Append(@, t), !.obj[t].linked = TRUE, !.obj[t].age = 0]

\* L.append()
AppendTo(S, l, t) ==
    [Unlink(S, t) EXCEPT !.q[l] = Append(@, t), !.obj[t].linked = TRUE, !.obj[t].age = 0]

\* A new Timer(): one that nothing refers to.
NewList(S) == Min({l \in ListId :
    /\ ~S.h[l].open /\ S.q[l] = <<>>
    /\ \A ms \in Msecs : S.lists[ms] # l
    /\ \A f \in ToSet(stack \o ticks) : f.pc = "list" => f.l # l})

\* insert(): the list of this delay is made when there is none.
Insert(S, t, ms) ==
    LET A == [S EXCEPT !.obj[t].idleTimeout = ms, !.stale = 0] IN
    IF S.lists[ms] # NoList THEN AppendTo(A, S.lists[ms], t)
    ELSE LET l == NewList(S) IN
         AppendTo([A EXCEPT !.lists[ms] = l, !.msecs[l] = ms, !.h[l] = Started(ms, TRUE)], l, t)

CloseList(S, l, ms) == [S EXCEPT !.h[l] = Closed, !.msecs[l] = 0, !.lists[ms] = NoList]

Unenroll(S, t) ==
    LET R == Unlink(S, t)
        ms == S.obj[t].idleTimeout
        l == IF ms = -1 THEN NoList ELSE S.lists[ms]
        C == IF l # NoList /\ R.q[l] = <<>>
               THEN CloseList(R, l, ms) ELSE R
    IN [C EXCEPT !.obj[t].idleTimeout = -1]

Enroll(S, t, ms) ==
    [(IF S.obj[t].linked THEN Unenroll(S, t) ELSE S)
        EXCEPT !.obj[t].idleTimeout = ms, !.obj[t].delay = ms, !.obj[t].linked = TRUE]

\* What is left until an item of the unref list times out.
LeftOf(S, t) == S.obj[t].idleTimeout - S.obj[t].age

\* Faulty variant of UnrefActive: the newest item is always the last.
UnrefActiveLast(S, t) ==
    LET ms == S.obj[t].idleTimeout
        R == [Unlink(S, t) EXCEPT !.obj[t].age = 0, !.obj[t].linked = TRUE, !.stale = 0]
        A == [R EXCEPT !.q[UnrefList] = Append(@, t)] IN
    IF R.q[UnrefList] = <<>> \/ R.when > ms
      THEN [A EXCEPT !.h[UnrefList] = Start(@, ms), !.when = ms] ELSE A

\* _unrefActive(): the list is sorted by the time of expiry.
UnrefActive(S, t) ==
    LET ms == S.obj[t].idleTimeout
        R == [Unlink(S, t) EXCEPT !.obj[t].age = 0, !.obj[t].linked = TRUE, !.stale = 0]
        q == R.q[UnrefList]
        later == {i \in DOMAIN q : ms < LeftOf(R, q[i])}
        Restarted(A) == [A EXCEPT !.h[UnrefList] = Start(@, ms), !.when = ms] IN
    CASE q = <<>>    -> Restarted([R EXCEPT !.q[UnrefList] = <<t>>])
      [] later # {}  -> LET A == [R EXCEPT !.q[UnrefList] = InsertAt(q, Min(later), t)]
                        IN IF R.when > ms THEN Restarted(A) ELSE A
      [] OTHER       -> [R EXCEPT !.q[UnrefList] = Append(q, t)]

\* Timeout.prototype.close()
Close(S, t) ==
    LET A == [S EXCEPT !.obj[t].onTimeout = FALSE] IN
    IF S.obj[t].handle # {} THEN [A EXCEPT !.obj[t].handle = {Closed}] ELSE Unenroll(A, t)

\* Faulty variant of Unref: a callback that runs may be scheduled again.
UnrefAgain(S, t) ==
    LET o == S.obj[t]
        delay == Max({o.idleTimeout - o.age, 0})
        U == [Unenroll(S, t) EXCEPT !.stale = 0] IN
    CASE o.handle # {}              -> [S EXCEPT !.obj[t].handle = {[h EXCEPT !.ref = FALSE] : h \in @}]
      [] ~o.onTimeout               -> S
      [] o.onTimeout /\ o.handle = {} ->
            [U EXCEPT !.obj[t].handle = {Started(delay, FALSE)}]

\* Timeout.prototype.unref(): the timer gets a handle of its own.
Unref(S, t) ==
    LET o == S.obj[t]
        delay == Max({o.idleTimeout - o.age, 0})
        U == [Unenroll(S, t) EXCEPT !.stale = 0] IN
    CASE o.handle # {}              -> [S EXCEPT !.obj[t].handle = {[h EXCEPT !.ref = FALSE] : h \in @}]
      [] ~o.onTimeout               -> S
      [] o.onTimeout /\ o.handle = {} ->
            IF o.called /\ ~o.repeat THEN U
            ELSE [U EXCEPT !.obj[t].handle = {Started(delay, FALSE)}]
-----------------------------------------------------------------------------
(* What user code calls                                                    *)

Owe(t) == [owed EXCEPT ![t] = [on |-> TRUE, age |-> 0]]
Release(t) == [owed EXCEPT ![t] = [on |-> FALSE, age |-> 0]]

\* A new Timeout, in the list of its delay.
NewTimer(kind) ==
    /\ Calling /\ budget.timers > 0
    /\ budget' = [budget EXCEPT !.calls = @ - 1, !.timers = @ - 1]
    /\ \E t \in Timeout, ms \in Msecs :
         /\ tm.obj[t].kind = "new" /\ \A u \in 1..(t - 1) : tm.obj[u].kind # "new"
         /\ tm' = Insert([tm EXCEPT !.obj[t] = NewObject(kind, ms)], t, ms)
         /\ owed' = Owe(t)
    /\ stack' = Caller
    /\ UNCHANGED <<imm, ticks, dead, setImm>>

SetTimeout == NewTimer("timeout")
SetInterval == NewTimer("interval")

ClearTimeout ==
    /\ Calling /\ Spend /\ stack' = Caller
    /\ \E t \in Timeout :
         /\ tm.obj[t].kind = "timeout" /\ tm.obj[t].onTimeout
         /\ tm' = Close(tm, t)
         /\ owed' = Release(t)
    /\ UNCHANGED <<imm, ticks, dead, setImm>>

ClearInterval ==
    /\ Calling /\ Spend /\ stack' = Caller
    /\ \E t \in Timeout :
         /\ tm.obj[t].kind = "interval" /\ tm.obj[t].repeat
         /\ tm' = Close([tm EXCEPT !.obj[t].repeat = FALSE], t)
         /\ owed' = Release(t)
    /\ UNCHANGED <<imm, ticks, dead, setImm>>

CallUnref ==
    /\ Calling /\ Spend /\ stack' = Caller
    /\ \E t \in Timeout :
         /\ tm.obj[t].kind # "new"
         /\ tm' = Unref(tm, t)
    /\ UNCHANGED <<imm, ticks, owed, dead, setImm>>

CallRef ==
    /\ Calling /\ Spend /\ stack' = Caller
    /\ \E t \in Timeout :
         /\ tm.obj[t].kind # "new"
         /\ tm' = [tm EXCEPT !.obj[t].handle = {[h EXCEPT !.ref = h.open] : h \in @}]
    /\ UNCHANGED <<imm, ticks, owed, dead, setImm>>

\* Socket.prototype.setTimeout(): enroll() and _unrefActive(), or unenroll()
SocketSetTimeout ==
    /\ Calling /\ Spend /\ stack' = Caller
    /\ \E t \in Used :
         \/ /\ \E ms \in Msecs : tm' = UnrefActive(Enroll(tm, t, ms), t)
            /\ owed' = Owe(t)
         \/ tm' = Unenroll(tm, t) /\ owed' = Release(t)
    /\ UNCHANGED <<imm, ticks, dead, setImm>>

\* Data for the socket: _unrefTimer().
SocketActive ==
    /\ Calling /\ Spend /\ stack' = Caller
    /\ \E t \in Used :
         /\ tm.obj[t].idleTimeout # -1
         /\ tm' = UnrefActive(tm, t) /\ owed' = Owe(t)
    /\ UNCHANGED <<imm, ticks, dead, setImm>>

\* timers.active(): the item moves to the list of its delay.
Active ==
    /\ Calling /\ Spend /\ stack' = Caller
    /\ \E t \in Used :
         /\ tm.obj[t].idleTimeout # -1
         /\ tm' = Insert(tm, t, tm.obj[t].idleTimeout) /\ owed' = Owe(t)
    /\ UNCHANGED <<imm, ticks, dead, setImm>>

SetImmediate ==
    /\ Calling /\ budget.immediates > 0
    /\ budget' = [budget EXCEPT !.calls = @ - 1, !.immediates = @ - 1]
    /\ stack' = Caller
    /\ LET i == imm.made + 1 IN
       /\ imm' = [queue |-> Append(imm.queue, i), need |-> TRUE, made |-> i]
       /\ setImm' = setImm \cup {i}
    /\ UNCHANGED <<tm, ticks, owed, dead>>

\* The immediate leaves the queue it is in: one to come, or one being run.
ClearImmediate ==
    /\ Calling /\ Spend
    /\ \E i \in 1..imm.made :
         /\ imm' = [imm EXCEPT !.queue = Remove(@, i), !.need = @ /\ Remove(imm.queue, i) # <<>>]
         /\ stack' = [n \in DOMAIN Caller |->
                        IF Caller[n].pc # "imm" THEN Caller[n]
                        ELSE [Caller[n] EXCEPT !.queue = Remove(@, i)]]
         /\ setImm' = setImm \ {i}
    /\ UNCHANGED <<tm, ticks, owed, dead>>

Return ==
    /\ At("user")
    /\ stack' = Rest
    /\ UNCHANGED <<tm, imm, ticks, budget, owed, dead, setImm>>
-----------------------------------------------------------------------------
(* Timers expire                                                           *)

\* t._onTimeout() on the stack base; an interval's is wrapper().
OnTimeout(base, t) ==
    /\ stack' = IF tm.obj[t].kind = "interval" THEN base \o <<Of("wrapper", t), User(t)>>
                ELSE Append(base, User(t))
    /\ owed' = Release(t)

Handles == {tm.h[l] : l \in DOMAIN tm.h} \cup UNION {tm.obj[t].handle : t \in Id}

\* libuv calls the timers that have expired in the order of their expiry.
Expired(h) == h.active /\ h.left <= 0
IsNext(h) == Expired(h) /\ \A g \in Handles : g.active => h.left <= g.left

\* libuv calls a list's timer, or unrefTimer.
Fire == \E l \in DOMAIN tm.h :
    /\ stack = <<>> /\ IsNext(tm.h[l])
    /\ tm' = [tm EXCEPT !.h[l] = Stop(@), !.stale = 0]
    /\ stack' = <<Frame("ticks"), ListFrame(l, tm.msecs[l])>>
    /\ UNCHANGED <<imm, ticks, budget, owed, dead, setImm>>

\* listOnTimeout(): one turn of the loop.
ListOnTimeout ==
    /\ At("list") /\ Top.l # UnrefList
    /\ LET l == Top.l
           ms == Top.ms
           diff == tm.obj[Head(tm.q[l])].age - Top.late
           first == Head(tm.q[l]) IN
       CASE tm.q[l] = <<>> ->
              /\ tm' = CloseList(tm, l, ms)
              /\ stack' = Rest /\ UNCHANGED owed
         [] tm.q[l] # <<>> /\ diff < ms ->
              /\ tm' = [tm EXCEPT !.h[l] = StartStale(tm, @, ms - diff)]
              /\ stack' = Rest /\ UNCHANGED owed
         [] tm.q[l] # <<>> /\ diff >= ms ->
              /\ tm' = [Unlink(tm, first) EXCEPT !.obj[first].called = tm.obj[first].onTimeout]
              /\ IF tm.obj[first].onTimeout THEN OnTimeout(stack, first) ELSE UNCHANGED <<stack, owed>>
    /\ UNCHANGED <<imm, ticks, budget, dead, setImm>>

\* unrefTimeout(): the same for the items of the unref list.
UnrefTimeout ==
    /\ At("list") /\ Top.l = UnrefList
    /\ LET q == tm.q[UnrefList]
           first == Head(q)
           wait == tm.obj[first].idleTimeout - (tm.obj[first].age - Top.late) IN
       CASE q = <<>> ->
              /\ tm' = [tm EXCEPT !.when = 0]
              /\ stack' = Rest /\ UNCHANGED owed
         [] q # <<>> /\ wait > 0 ->
              /\ tm' = [tm EXCEPT !.h[UnrefList] = StartStale(tm, @, wait),
                                  !.when = Max({wait - Top.late, 0})]
              /\ stack' = Rest /\ UNCHANGED owed
         [] q # <<>> /\ wait <= 0 ->
              /\ tm' = [Unlink(tm, first) EXCEPT !.obj[first].called = tm.obj[first].onTimeout]
              /\ IF tm.obj[first].onTimeout THEN OnTimeout(stack, first) ELSE UNCHANGED <<stack, owed>>
    /\ UNCHANGED <<imm, ticks, budget, dead, setImm>>

\* After the callback of an interval: wrapper() starts it again, with a handle of
\* its own from the time the loop has.
Wrapper ==
    /\ At("wrapper")
    /\ LET t == Top.t
           o == tm.obj[t] IN
       /\ tm' = IF ~o.repeat THEN tm
                ELSE IF o.handle # {}
                THEN [tm EXCEPT !.obj[t].handle = {StartStale(tm, h, o.delay) : h \in @}]
                ELSE Insert(tm, t, o.delay)
       /\ owed' = IF ~o.repeat THEN owed
                  ELSE [owed EXCEPT ![t] =
                          [on |-> TRUE, age |-> IF o.handle # {} THEN tm.stale ELSE 0]]
    /\ stack' = Rest
    /\ UNCHANGED <<imm, ticks, budget, dead, setImm>>

\* libuv calls the handle of a timer: unrefdHandle().
UnrefdHandle == \E t \in Timeout :
    /\ stack = <<>> /\ \E h \in tm.obj[t].handle : IsNext(h)
    /\ tm' = [tm EXCEPT !.obj[t].handle = {Stop(h) : h \in @}, !.stale = 0]
    /\ OnTimeout(<<Frame("ticks"), UnrefdFrame(t)>>, t)
    /\ UNCHANGED <<imm, ticks, budget, dead, setImm>>

UnrefdEnd ==
    /\ At("unrefd")
    /\ tm' = IF tm.obj[Top.t].repeat THEN tm ELSE Close(tm, Top.t)
    /\ stack' = Rest
    /\ UNCHANGED <<imm, ticks, budget, owed, dead, setImm>>

\* Time passes: in a callback, or between turns when no timer has expired.
Older(age) == Min({age + 1, Oldest})
Sooner(h) == [h EXCEPT !.left = IF h.active THEN @ - 1 ELSE 0]

Advance ==
    /\ \/ stack = <<>> /\ ~imm.need /\ \A h \in Handles : ~Expired(h)
       \/ At("user") /\ \E n \in DOMAIN stack : Clocked(stack[n]) /\ stack[n].late < MaxLate
    /\ tm' = [tm EXCEPT
         !.obj = [t \in Id |-> [@[t] EXCEPT !.age = IF tm.obj[t].linked THEN Older(@) ELSE Oldest,
                                            !.handle = {Sooner(h) : h \in @}]],
         !.h = [l \in DOMAIN @ |-> Sooner(@[l])],
         !.when = Max({@ - 1, 0}),
         !.stale = IF stack = <<>> THEN 0 ELSE @ + 1]
    /\ stack' = [n \in DOMAIN stack |-> IF ~Clocked(stack[n]) THEN stack[n]
                                        ELSE [stack[n] EXCEPT !.late = @ + 1]]
    /\ owed' = [t \in Id |-> [owed[t] EXCEPT !.age = IF owed[t].on THEN Older(@) ELSE 0]]
    /\ UNCHANGED <<imm, ticks, budget, dead, setImm>>
-----------------------------------------------------------------------------
(* Immediates, ticks and exceptions                                        *)

\* processImmediate() on the stack base: it takes the whole queue.
ProcessImmediate(base) ==
    /\ stack' = Append(base, [pc |-> "imm", queue |-> imm.queue])
    /\ imm' = [imm EXCEPT !.queue = <<>>]

\* The check phase of the loop.
Check ==
    /\ stack = <<>> /\ imm.need
    /\ ProcessImmediate(<<Frame("ticks")>>)
    /\ UNCHANGED <<tm, ticks, budget, owed, dead, setImm>>

\* Faulty variant of RunImmediate: _needImmediateCallback stays set.
RunImmediateForever ==
    /\ At("imm")
    /\ IF Top.queue = <<>>
         THEN stack' = Rest /\ UNCHANGED <<imm, setImm>>
         ELSE LET i == Head(Top.queue)
                  base == Append(Rest, [Top EXCEPT !.queue = Tail(@)]) IN
              /\ stack' = Append(base, IF i = TickCallback THEN Frame("ticks") ELSE User(Main))
              /\ setImm' = setImm \ {i}
              /\ UNCHANGED imm
    /\ UNCHANGED <<tm, ticks, budget, owed, dead>>

\* processImmediate(): one turn of the loop, or its end.
RunImmediate ==
    /\ At("imm")
    /\ IF Top.queue = <<>>
         THEN /\ stack' = Rest
              /\ imm' = [imm EXCEPT !.need = @ /\ imm.queue # <<>>]
              /\ UNCHANGED setImm
         ELSE LET i == Head(Top.queue)
                  base == Append(Rest, [Top EXCEPT !.queue = Tail(@)]) IN
              /\ stack' = Append(base, IF i = TickCallback THEN Frame("ticks") ELSE User(Main))
              /\ setImm' = setImm \ {i}
              /\ UNCHANGED imm
    /\ UNCHANGED <<tm, ticks, budget, owed, dead>>

\* _tickCallback(): the next tick, if there is one.
RunTick ==
    /\ At("ticks")
    /\ IF ticks = <<>> THEN stack' = Rest /\ UNCHANGED <<imm, ticks>>
       ELSE /\ ticks' = Tail(ticks)
            /\ IF Head(ticks).pc = "imm" THEN ProcessImmediate(stack)
               ELSE stack' = Append(stack, Head(ticks)) /\ UNCHANGED imm
    /\ tm' = IF ticks = <<>> THEN tm ELSE [tm EXCEPT !.stale = IF Head(ticks).pc = "list" THEN 0 ELSE @]
    /\ UNCHANGED <<budget, owed, dead, setImm>>

\* Faulty variant of Finally: only immediates are taken up again.
FinallyImmediates(acc, f) ==
    IF f.pc = "imm" /\ f.queue # <<>>
      THEN [acc EXCEPT !.ticks = Append(@, Frame("imm")), !.imm.queue = f.queue \o @]
      ELSE acc

\* The finally blocks of listOnTimeout(), unrefTimeout() and
\* processImmediate() leave the rest of their work to a tick.
Finally(acc, f) ==
    CASE f.pc = "list" ->
           [acc EXCEPT !.ticks = Append(@, ListFrame(f.l, f.ms))]
      [] f.pc = "imm" /\ f.queue # <<>> ->
           [acc EXCEPT !.ticks = Append(@, Frame("imm")), !.imm.queue = f.queue \o @]
      [] OTHER -> acc

\* Faulty variant of FatalException: the ticks wait for the next callback.
FatalExceptionOnly(i) == i

\* _fatalException(): an immediate sees to the ticks.
FatalException(i) == [i EXCEPT !.queue = Append(@, TickCallback), !.need = TRUE]

Throw ==
    /\ At("user") /\ budget.throws > 0
    /\ budget' = [budget EXCEPT !.throws = @ - 1]
    /\ LET after == FoldLeft(Finally, [ticks |-> ticks, imm |-> imm], Reverse(stack)) IN
       /\ ticks' = after.ticks
       /\ imm' = FatalException(after.imm)
    /\ stack' = <<>>
    /\ dead' = dead \cup ({Top.who} \cap Id)
    /\ UNCHANGED <<tm, owed, setImm>>
-----------------------------------------------------------------------------
Library ==
    \/ ListOnTimeout \/ UnrefTimeout \/ Wrapper \/ UnrefdEnd \/ RunImmediate \/ RunTick

Loop == Fire \/ UnrefdHandle \/ Check

Next ==
    \/ SetTimeout \/ SetInterval \/ ClearTimeout \/ ClearInterval \/ CallUnref \/ CallRef
    \/ SocketSetTimeout \/ SocketActive \/ Active \/ SetImmediate \/ ClearImmediate
    \/ Return \/ Throw \/ Library \/ Loop \/ Advance

\* Functions return, libuv runs what is due, and time passes between turns.  The
\* check phase comes in every turn, however many timers are due again at once.
Fairness ==
    /\ WF_vars(Return) /\ WF_vars(Library)
    /\ WF_vars(Fire) /\ WF_vars(UnrefdHandle) /\ SF_vars(Check)
    /\ WF_vars(stack = <<>> /\ Advance)

Spec == Init /\ [][Next]_vars /\ Fairness
-----------------------------------------------------------------------------
(* Properties                                                              *)

Quiet == stack = <<>>
HandleType == [open : BOOLEAN, active : BOOLEAN, left : -Oldest..Oldest, ref : BOOLEAN]

\* The types of the timers' state; an item is in at most one list, once.
TypeOK ==
    /\ tm.lists \in [Msecs -> ListId \cup {NoList}]
    /\ tm.msecs \in [ListId \cup {UnrefList} -> Msecs \cup {0}] /\ tm.when \in 0..Max(Msecs)
    /\ tm.stale \in 0..MaxLate
    /\ tm.h \in [ListId \cup {UnrefList} -> HandleType]
    /\ \A l \in DOMAIN tm.q : tm.q[l] \in Seq(Id) /\ IsInjective(tm.q[l])
    /\ \A k, l \in DOMAIN tm.q : k # l => ToSet(tm.q[k]) \cap ToSet(tm.q[l]) = {}
    /\ \A t \in Id : /\ tm.obj[t].idleTimeout \in Msecs \cup {-1}
                     /\ tm.obj[t].age \in 0..Oldest
                     /\ tm.obj[t].handle \subseteq HandleType
                     /\ Cardinality(tm.obj[t].handle) <= 1
    /\ imm.queue \in Seq(Immediate \cup {TickCallback}) /\ imm.need \in BOOLEAN
    /\ dead \subseteq Id /\ setImm \subseteq Immediate

Relisted(l) == \E i \in DOMAIN ticks : ticks[i].pc = "list" /\ ticks[i].l = l

\* Between turns a list with items has its timer running, or a tick that goes
\* on with it after an exception; no timer is started after it was closed
\* (TimerWrap::Start() aborts), and the unref list is sorted by expiry.
Watched ==
    /\ Quiet => \A l \in DOMAIN tm.q : tm.q[l] # <<>> => tm.h[l].active \/ Relisted(l)
    /\ \A l \in DOMAIN tm.h : tm.h[l].active => tm.h[l].open
    /\ \A t \in Id : \A h \in tm.obj[t].handle : h.active => h.open
    /\ LET q == tm.q[UnrefList] IN
       \A i, j \in DOMAIN q : i < j => LeftOf(tm, q[i]) <= Max({LeftOf(tm, q[j]), 0})

Called(t) == Len(stack') > Len(stack) /\ Last(stack') = User(t)

\* A callback is called only when it was asked for, not after it was cleared
\* nor twice, and not before its delay; a timer whose callback threw is out.  An
\* interval counts from the end of its callback, or, once unref'd, from the time
\* that the loop had then, which may be that of its start.
OnTime == [][\A t \in Id \ dead :
    Called(t) => owed[t].on /\ owed[t].age >= tm.obj[t].delay]_vars

\* Whatever is called, cleared, unref'd or thrown meanwhile, a timer that was
\* set fires or is cleared.
Fires == \A t \in Id : owed[t].on ~> ~owed[t].on

\* Every immediate runs or is cleared, exceptions or not.
ImmediateRuns == \A i \in Immediate : i \in setImm ~> i \notin setImm

\* The timers and immediates that hold the program open.
Holding == \/ setImm # {}
           \/ \E t \in Id : owed[t].on /\ t \notin ToSet(tm.q[UnrefList])
                            /\ \A h \in tm.obj[t].handle : h.ref
LoopAlive ==
    \/ imm.need \/ stack # <<>>
    \/ \E l \in DOMAIN tm.h : tm.h[l].active /\ tm.h[l].ref
    \/ \E t \in Id : \E h \in tm.obj[t].handle : h.active /\ h.ref

\* When only unref'd timers are left the loop comes to have nothing that holds
\* it open, also when a cleared timer was in a list that lists[] forgot.
LoopDrains == ~Holding ~> Holding \/ ~LoopAlive
=============================================================================
