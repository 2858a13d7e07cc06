----------------------------- MODULE TimerQueue -----------------------------
(***************************************************************************)
(* The timers of a muduo EventLoop: two sets that hold the same timers, by *)
(* expiration and by identity, and a timerfd armed for the earliest.  The  *)
(* loop's thread adds and cancels timers from handlers, from functors and  *)
(* from the callbacks of timers that have just expired; another thread     *)
(* does so through functors.                                               *)
(*                                                                         *)
(* A timer is an address of the heap, which is reused once it is freed,    *)
(* and a sequence number, which is not.  One unit of time is the 100       *)
(* microseconds that is the least a timerfd is armed for.                  *)
(***************************************************************************)
EXTENDS Integers, Sequences, FiniteSetsExt, Functions

CONSTANTS Addr,         \* where a Timer may be allocated
          None,
          MaxTimers,    \* bound on the timers created
          Horizon,      \* bound on the clock
          Delays,       \* how far ahead a timer is set
          Intervals,    \* of timers that repeat
          MaxCalls      \* bound on the calls of cancel

VARIABLES
    clock,                  \* Timestamp::now(), the wall clock
    heap,                   \* the Timer at each address, or None
    s_numCreated_,
    timers_,                \* set of <<expiration, address>>
    activeTimers_,          \* set of <<address, sequence>>
    cancelingTimers_,
    callingExpiredTimers_,
    expired,                \* the batch whose callbacks run, <<>> outside handleRead
    at,                     \* the callback of the batch that runs
    now,                    \* of handleRead, 0 outside it
    timerfd,                \* time left, 0 when readable, None when disarmed
    polled,                 \* the last poll found the timerfd readable
    functors,               \* pendingFunctors_: [op, timer] and [op, id]
    adding,                 \* the other thread is inside addTimer, with this address
    ids,                    \* every TimerId that addTimer has returned
    cancels,                \* calls of cancel
    canceled                \* sequences of the waiting or expired timers cancelInLoop was run for

timerVars == <<clock, heap, s_numCreated_, timers_, activeTimers_, cancelingTimers_,
               callingExpiredTimers_, expired, at, now, timerfd, polled, functors, adding,
               ids, cancels, canceled>>
heapVars  == <<heap, s_numCreated_>>
fireVars  == <<callingExpiredTimers_, expired, at, now, polled>>
callVars  == <<functors, adding, ids>>

TimerInit ==
    /\ clock = 0
    /\ heap = [a \in Addr |-> None] /\ s_numCreated_ = 0
    /\ timers_ = {} /\ activeTimers_ = {} /\ cancelingTimers_ = {}
    /\ callingExpiredTimers_ = FALSE
    /\ expired = <<>> /\ at = 0 /\ now = 0
    /\ timerfd = None /\ polled = FALSE
    /\ functors = <<>> /\ adding = None /\ ids = {} /\ cancels = 0 /\ canceled = {}

-----------------------------------------------------------------------------
(* Timers and the two sets.  A TimerId names a timer by <<address, sequence>>. *)

Timer(when, interval) ==
    [expiration |-> when, interval |-> interval, sequence |-> s_numCreated_ + 1]

repeat(t) == t.interval > 0

restart(t, from) == [t EXCEPT !.expiration = from + t.interval]

Entry(h, a)       == <<h[a].expiration, a>>
ActiveTimer(h, a) == <<a, h[a].sequence>>

Earliest(T) == Min({e[1] : e \in T})

howMuchTimeFromNow(when) == IF when > clock THEN when - clock ELSE 1

resetTimerfd(when) == timerfd' = howMuchTimeFromNow(when)

\* insert: is the new timer the earliest?
earliestChanged(when) == timers_ = {} \/ when < Earliest(timers_)

insert(h, a) ==
    /\ timers_' = timers_ \cup {Entry(h, a)}
    /\ activeTimers_' = activeTimers_ \cup {ActiveTimer(h, a)}

addTimerInLoop(h, a) ==
    /\ insert(h, a)
    /\ IF earliestChanged(h[a].expiration) THEN resetTimerfd(h[a].expiration)
                                           ELSE UNCHANGED timerfd

\* Faulty variant: a timer that is not waiting is deleted as well.
cancelInLoopDeletes(id) ==
    /\ canceled' = canceled \cup {id[2]}
    /\ heap' = IF heap[id[1]] # None /\ id = ActiveTimer(heap, id[1])
               THEN [heap EXCEPT ![id[1]] = None] ELSE heap
    /\ timers_' = {e \in timers_ : heap'[e[2]] # None}
    /\ activeTimers_' = activeTimers_ \ {id}
    /\ cancelingTimers_' = IF callingExpiredTimers_ THEN cancelingTimers_ \cup {id}
                                                    ELSE cancelingTimers_

\* A waiting timer is deleted; one whose callback is running, or about to run
\* in the same batch, is only marked.
cancelInLoop(id) ==
    IF id \in activeTimers_
    THEN /\ timers_' = timers_ \ {Entry(heap, id[1])}
         /\ heap' = [heap EXCEPT ![id[1]] = None]
         /\ activeTimers_' = activeTimers_ \ {id}
         /\ canceled' = canceled \cup {id[2]}
         /\ UNCHANGED cancelingTimers_
    ELSE /\ cancelingTimers_' = IF callingExpiredTimers_ THEN cancelingTimers_ \cup {id}
                                                         ELSE cancelingTimers_
         /\ canceled' = IF \E i \in DOMAIN expired : ActiveTimer(heap, expired[i][2]) = id
                        THEN canceled \cup {id[2]} ELSE canceled
         /\ UNCHANGED <<timers_, heap, activeTimers_>>

-----------------------------------------------------------------------------
(* The loop's thread: handlers, functors and timer callbacks *)

New(a, when, interval) ==
    /\ heap[a] = None /\ s_numCreated_ < MaxTimers
    /\ heap' = [heap EXCEPT ![a] = Timer(when, interval)]
    /\ s_numCreated_' = s_numCreated_ + 1

\* What EventLoop's three calls ask addTimer for.
runAt(time)     == [when |-> time, interval |-> 0]
runAfter(delay) == runAt(clock + delay)
runEvery(i)     == [when |-> clock + i, interval |-> i]

Asked == {runAfter(d) : d \in Delays} \cup {runEvery(i) : i \in Intervals}

\* addTimer in the loop's thread, where runInLoop runs the functor at once.
addTimer ==
    \E a \in Addr, t \in Asked :
        /\ New(a, t.when, t.interval)
        /\ addTimerInLoop(heap', a)
        /\ ids' = ids \cup {ActiveTimer(heap', a)}
        /\ UNCHANGED <<clock, cancelingTimers_, fireVars, functors, adding, cancels, canceled>>

cancel ==
    /\ cancels < MaxCalls /\ cancels' = cancels + 1
    /\ \E id \in ids : cancelInLoop(id)
    /\ UNCHANGED <<clock, s_numCreated_, fireVars, timerfd, callVars>>

\* doPendingFunctors, after the handlers of a round.
RunsFunctor ==
    /\ functors # <<>> /\ expired = <<>> /\ ~polled
    /\ LET f == Head(functors) IN
       \/ /\ f.op = "add" /\ addTimerInLoop(heap, f.timer)
          /\ UNCHANGED <<heap, cancelingTimers_, canceled>>
       \/ /\ f.op = "cancel" /\ cancelInLoop(f.id)
          /\ UNCHANGED timerfd
    /\ functors' = Tail(functors)
    /\ UNCHANGED <<clock, s_numCreated_, fireVars, adding, ids, cancels>>

TimerfdPolled ==
    /\ expired = <<>> /\ ~polled /\ timerfd = 0
    /\ polled' = TRUE
    /\ UNCHANGED <<clock, heapVars, timers_, activeTimers_, cancelingTimers_,
                   callingExpiredTimers_, expired, at, now, timerfd, callVars, cancels, canceled>>

\* The timers whose time has come, earliest first, and among equals by address.
getExpired(t) ==
    LET due == {e \in timers_ : e[1] <= t}
        before(d, e) == d[1] < e[1] \/ (d[1] = e[1] /\ d[2] < e[2])
    IN  [i \in 1 .. Cardinality(due) |->
            CHOOSE e \in due : Cardinality({d \in due : before(d, e)}) = i - 1]

Repeats(t, id) == repeat(t) /\ id \notin cancelingTimers_

\* Faulty variant: the descriptor is not armed again.
resetUnarmed(batch, t) ==
    LET addrs == {batch[i][2] : i \in DOMAIN batch}
        kept == {a \in addrs : Repeats(heap[a], ActiveTimer(heap, a))}
        h == [a \in Addr |-> IF a \in kept THEN restart(heap[a], t)
                             ELSE IF a \in addrs THEN None ELSE heap[a]]
    IN  /\ heap' = h
        /\ timers_' = timers_ \cup {Entry(h, a) : a \in kept}
        /\ activeTimers_' = activeTimers_ \cup {ActiveTimer(h, a) : a \in kept}
        /\ UNCHANGED timerfd

\* The batch is over: what repeats is inserted again, the rest is deleted, and
\* the descriptor is armed for the earliest timer there is.
reset(batch, t) ==
    LET addrs == {batch[i][2] : i \in DOMAIN batch}
        kept == {a \in addrs : Repeats(heap[a], ActiveTimer(heap, a))}
        h == [a \in Addr |-> IF a \in kept THEN restart(heap[a], t)
                             ELSE IF a \in addrs THEN None ELSE heap[a]]
    IN  /\ heap' = h
        /\ timers_' = timers_ \cup {Entry(h, a) : a \in kept}
        /\ activeTimers_' = activeTimers_ \cup {ActiveTimer(h, a) : a \in kept}
        /\ IF timers_' = {} THEN UNCHANGED timerfd ELSE resetTimerfd(Earliest(timers_'))

readTimerfd == IF timerfd = 0 THEN None ELSE timerfd

\* Up to the first callback.  With nothing expired only reset is left to do.
handleRead ==
    /\ polled /\ polled' = FALSE
    /\ cancelingTimers_' = {}
    /\ LET batch == getExpired(clock) IN
       IF batch = <<>>
       THEN /\ callingExpiredTimers_' = FALSE
            /\ IF timers_ = {} THEN timerfd' = readTimerfd ELSE resetTimerfd(Earliest(timers_))
            /\ UNCHANGED <<heap, timers_, activeTimers_, expired, at, now>>
       ELSE /\ expired' = batch /\ at' = 1 /\ now' = clock
            /\ callingExpiredTimers_' = TRUE
            /\ timers_' = timers_ \ Range(batch)
            /\ activeTimers_' = {p \in activeTimers_ : \A e \in Range(batch) : e[2] # p[1]}
            /\ timerfd' = readTimerfd
            /\ UNCHANGED heap
    /\ UNCHANGED <<clock, s_numCreated_, callVars, cancels, canceled>>

\* Back from a callback; the last one is followed by reset.
CallbackReturns ==
    /\ expired # <<>>
    /\ IF at < Len(expired)
       THEN /\ at' = at + 1
            /\ UNCHANGED <<heap, timers_, activeTimers_, callingExpiredTimers_, expired, now, timerfd>>
       ELSE /\ reset(expired, now)
            /\ callingExpiredTimers_' = FALSE
            /\ expired' = <<>> /\ at' = 0 /\ now' = 0
    /\ UNCHANGED <<clock, s_numCreated_, cancelingTimers_, polled, callVars, cancels, canceled>>

-----------------------------------------------------------------------------
(* Another thread *)

\* addTimer allocates the timer and queues the functor ...
OtherAdds ==
    /\ adding = None
    /\ \E a \in Addr, t \in Asked :
           /\ New(a, t.when, t.interval)
           /\ functors' = Append(functors, [op |-> "add", timer |-> a])
           /\ adding' = a
    /\ UNCHANGED <<clock, timers_, activeTimers_, cancelingTimers_, fireVars, timerfd, ids,
                   cancels, canceled>>

\* ... and only then reads its sequence, from memory that may have been freed
\* and used for another timer since.
OtherReturns ==
    /\ adding # None
    /\ LET t == heap[adding]
       IN  ids' = ids \cup {<<adding, IF t = None THEN 0 ELSE t.sequence>>}
    /\ adding' = None
    /\ UNCHANGED <<clock, heapVars, timers_, activeTimers_, cancelingTimers_, fireVars, timerfd,
                   functors, cancels, canceled>>

OtherCancels ==
    /\ cancels < MaxCalls /\ cancels' = cancels + 1
    /\ \E i \in ids : functors' = Append(functors, [op |-> "cancel", id |-> i])
    /\ UNCHANGED <<clock, heapVars, timers_, activeTimers_, cancelingTimers_, fireVars, timerfd,
                   adding, ids, canceled>>

-----------------------------------------------------------------------------
\* Time passes: the wall clock and the monotonic clock of the timerfd.
Ticks ==
    /\ clock < Horizon /\ clock' = clock + 1
    /\ timerfd' = IF timerfd \in {None, 0} THEN timerfd ELSE timerfd - 1
    /\ UNCHANGED <<heapVars, timers_, activeTimers_, cancelingTimers_, fireVars, callVars,
                   cancels, canceled>>

\* The wall clock is set back; the timerfd does not notice.
SetBack ==
    /\ clock > 0 /\ clock' = clock - 1
    /\ UNCHANGED <<heapVars, timers_, activeTimers_, cancelingTimers_, fireVars, timerfd, callVars,
                   cancels, canceled>>

TimerNext ==
    \/ addTimer \/ cancel \/ RunsFunctor \/ TimerfdPolled \/ handleRead \/ CallbackReturns
    \/ OtherAdds \/ OtherReturns \/ OtherCancels
    \/ Ticks \/ SetBack

-----------------------------------------------------------------------------
(* Properties *)

Waiting == {e[2] : e \in timers_}
Firing  == {e[2] : e \in Range(expired)}
ToBeAdded == {f.timer : f \in {f \in Range(functors) : f.op = "add"}}

\* The two sets hold the same timers under their present expiration, as every
\* assertion on their sizes and on erase and insert demands.  Each timer that
\* has not been deleted is in exactly one place: waiting, in the batch whose
\* callbacks run, or in a functor that will add it.  So none is deleted twice,
\* used after it was deleted, or leaked.  One that was cancelled, while it
\* waited or while its batch ran, is never armed again, not even when its own
\* callback cancels it.
TimersAgree ==
    /\ {a \in Addr : heap[a] # None} = Waiting \cup Firing \cup ToBeAdded
    /\ Waiting \cap Firing = {} /\ (Waiting \cup Firing) \cap ToBeAdded = {}
    /\ timers_ = {Entry(heap, a) : a \in Waiting}
    /\ activeTimers_ = {ActiveTimer(heap, a) : a \in Waiting}
    /\ \A a \in Waiting : heap[a].sequence \notin canceled

\* Whenever the loop may go to sleep and a timer waits, the timerfd is armed,
\* and for no later than the earliest timer, whoever added it, whatever was
\* cancelled and however often the wall clock was set back.
ArmedForEarliest ==
    (expired = <<>> /\ timers_ # {}) =>
        /\ timerfd # None
        /\ timerfd <= (IF Earliest(timers_) > clock THEN Earliest(timers_) - clock ELSE 1)
==============================================================================
