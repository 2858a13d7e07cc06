----------------------------- MODULE EventLoop -----------------------------
(***************************************************************************)
(* One muduo EventLoop: the thread that runs loop(), and other threads     *)
(* that hand it functors with queueInLoop and stop it with quit.           *)
(*                                                                         *)
(* The thread must not sleep in epoll_wait while a functor waits, although *)
(* the queue is protected by a mutex, the wakeup descriptor by the kernel, *)
(* and the flags callingPendingFunctors_ and quit_ by nothing.             *)
(***************************************************************************)
EXTENDS Integers, Sequences

CONSTANTS Caller,       \* threads other than the loop's own
          MaxFunctors   \* bound: functors queued in all

ASSUME LoopAssumption == MaxFunctors \in Nat

VARIABLES
    pc,                      \* where loop() is
    looping_, quit_,
    eventfd,                 \* counter of the wakeup descriptor
    wakeupActive,            \* the last poll put wakeupChannel_ into activeChannels_
    pendingFunctors_,
    functors,                \* the batch doPendingFunctors took and has not run
    callingPendingFunctors_,
    callerPc,                \* what each other thread has begun
    ran,                     \* functors run, in order
    queued                   \* number of functors queued so far

queueVars == <<pendingFunctors_, queued>>
vars == <<pc, looping_, quit_, eventfd, wakeupActive, functors, callingPendingFunctors_,
          callerPc, ran, queueVars>>

-----------------------------------------------------------------------------
Init ==
    /\ pc = "start"
    /\ looping_ = FALSE /\ quit_ = FALSE
    /\ eventfd = 0 /\ wakeupActive = FALSE
    /\ pendingFunctors_ = <<>> /\ functors = <<>>
    /\ callingPendingFunctors_ = FALSE
    /\ callerPc = [c \in Caller |-> "idle"]
    /\ ran = <<>> /\ queued = 0

\* push_back under the mutex; functors are numbered in the order they come.
push_back ==
    /\ queued < MaxFunctors
    /\ queued' = queued + 1
    /\ pendingFunctors_' = Append(pendingFunctors_, queued + 1)

wakeup == eventfd' = eventfd + 1

-----------------------------------------------------------------------------
(* Other threads *)

\* Faulty variant: the other thread is taken for the loop's own.
CallerPushesOnly(c) ==
    /\ push_back
    /\ UNCHANGED <<pc, looping_, quit_, eventfd, wakeupActive, functors,
                   callingPendingFunctors_, callerPc, ran>>

\* queueInLoop and quit first publish and then wake the loop up; between the
\* two steps the loop may do anything.
CallerPushes(c) ==
    /\ callerPc[c] = "idle"
    /\ push_back
    /\ callerPc' = [callerPc EXCEPT ![c] = "wakeup"]
    /\ UNCHANGED <<pc, looping_, quit_, eventfd, wakeupActive, functors,
                   callingPendingFunctors_, ran>>

CallerQuits(c) ==
    /\ callerPc[c] = "idle"
    /\ ~quit_
    /\ quit_' = TRUE
    /\ callerPc' = [callerPc EXCEPT ![c] = "wakeup"]
    /\ UNCHANGED <<pc, looping_, eventfd, wakeupActive, functors,
                   callingPendingFunctors_, ran, queueVars>>

CallerWakes(c) ==
    /\ callerPc[c] = "wakeup"
    /\ wakeup
    /\ callerPc' = [callerPc EXCEPT ![c] = "idle"]
    /\ UNCHANGED <<pc, looping_, quit_, wakeupActive, functors,
                   callingPendingFunctors_, ran, queueVars>>

-----------------------------------------------------------------------------
(* The loop's own thread *)

loop ==
    /\ pc = "start"
    /\ looping_' = TRUE
    /\ pc' = "clear"
    /\ UNCHANGED <<quit_, eventfd, wakeupActive, functors, callingPendingFunctors_, callerPc, ran,
                   queueVars>>

\* quit_ = false: a quit() that came before is forgotten (the FIXME in loop).
ClearsQuit ==
    /\ pc = "clear"
    /\ quit_' = FALSE
    /\ pc' = "test"
    /\ UNCHANGED <<looping_, eventfd, wakeupActive, functors, callingPendingFunctors_, callerPc,
                   ran, queueVars>>

\* while (!quit_)
Tests ==
    /\ pc = "test"
    /\ pc' = IF quit_ THEN "exited" ELSE "poll"
    /\ looping_' = ~quit_
    /\ UNCHANGED <<quit_, eventfd, wakeupActive, functors, callingPendingFunctors_, callerPc,
                   ran, queueVars>>

\* epoll_wait reports the wakeup descriptor as long as its counter is not 0,
\* and returns without it for another channel or after kPollTimeMs.
PollWakes ==
    /\ pc = "poll" /\ eventfd > 0
    /\ pc' = "handle" /\ wakeupActive' = TRUE
    /\ UNCHANGED <<looping_, quit_, eventfd, functors, callingPendingFunctors_, callerPc, ran,
                   queueVars>>

PollReturns ==
    /\ pc = "poll" /\ eventfd = 0
    /\ pc' = "handle" /\ wakeupActive' = FALSE
    /\ UNCHANGED <<looping_, quit_, eventfd, functors, callingPendingFunctors_, callerPc, ran,
                   queueVars>>

\* EventLoop::handleRead takes the whole counter.
handleRead ==
    /\ pc = "handle" /\ wakeupActive
    /\ eventfd' = 0 /\ wakeupActive' = FALSE
    /\ UNCHANGED <<pc, looping_, quit_, functors, callingPendingFunctors_, callerPc, ran,
                   queueVars>>

\* A channel's handler calls queueInLoop: no wakeup, the queue is next anyway.
HandlerQueues ==
    /\ pc = "handle"
    /\ push_back
    /\ UNCHANGED <<pc, looping_, quit_, eventfd, wakeupActive, functors,
                   callingPendingFunctors_, callerPc, ran>>

\* Faulty variant: the queue is run without the flag.
HandledNoFlag ==
    /\ pc = "handle" /\ ~wakeupActive
    /\ pc' = "swap"
    /\ UNCHANGED <<looping_, quit_, eventfd, wakeupActive, functors, callingPendingFunctors_,
                   callerPc, ran, queueVars>>

\* All active channels have been handled.
Handled ==
    /\ pc = "handle" /\ ~wakeupActive
    /\ pc' = "swap"
    /\ callingPendingFunctors_' = TRUE
    /\ UNCHANGED <<looping_, quit_, eventfd, wakeupActive, functors, callerPc, ran, queueVars>>

\* Faulty variant: the batch is copied and the queue not emptied.
SwapCopies ==
    /\ pc = "swap"
    /\ functors' = pendingFunctors_
    /\ pc' = "run"
    /\ UNCHANGED <<looping_, quit_, eventfd, wakeupActive, callingPendingFunctors_, callerPc,
                   ran, queueVars>>

Swap ==
    /\ pc = "swap"
    /\ functors' = pendingFunctors_ /\ pendingFunctors_' = <<>>
    /\ pc' = "run"
    /\ UNCHANGED <<looping_, quit_, eventfd, wakeupActive, callingPendingFunctors_, callerPc,
                   ran, queued>>

\* A functor may call queueInLoop or quit itself.
Runs ==
    /\ pc = "run" /\ functors # <<>>
    /\ functors' = Tail(functors)
    /\ ran' = Append(ran, Head(functors))
    /\ \/ UNCHANGED <<quit_, eventfd, queueVars>>
       \/ /\ push_back
          /\ IF callingPendingFunctors_ THEN wakeup ELSE UNCHANGED eventfd
          /\ UNCHANGED quit_
       \/ quit_' = TRUE /\ UNCHANGED <<eventfd, queueVars>>
    /\ UNCHANGED <<pc, looping_, wakeupActive, callingPendingFunctors_, callerPc>>

RunsEnd ==
    /\ pc = "run" /\ functors = <<>>
    /\ callingPendingFunctors_' = FALSE
    /\ pc' = "test"
    /\ UNCHANGED <<looping_, quit_, eventfd, wakeupActive, functors, callerPc, ran, queueVars>>

-----------------------------------------------------------------------------
LoopStep ==
    \/ loop \/ ClearsQuit \/ Tests \/ PollWakes \/ handleRead
    \/ Handled \/ Swap \/ Runs \/ RunsEnd

CallerStep(c) == CallerPushes(c) \/ CallerQuits(c) \/ CallerWakes(c)

Next == LoopStep \/ PollReturns \/ HandlerQueues \/ \E c \in Caller : CallerStep(c)

Spec == Init /\ [][Next]_vars

\* The loop's thread runs, and a thread inside queueInLoop or quit finishes.
\* Nothing is assumed of the poll timeout or of other channels.
FairSpec ==
    /\ Spec
    /\ WF_vars(LoopStep)
    /\ \A c \in Caller : WF_vars(CallerWakes(c))

-----------------------------------------------------------------------------
(* Properties *)

\* Every variable has its type, and the flags agree with where loop() is.
TypeOK ==
    /\ pc \in {"start", "clear", "test", "poll", "handle", "swap", "run", "exited"}
    /\ looping_ \in BOOLEAN /\ quit_ \in BOOLEAN
    /\ looping_ <=> pc \notin {"start", "exited"}
    /\ eventfd \in Nat
    /\ wakeupActive \in BOOLEAN
    /\ queued \in 0 .. MaxFunctors
    /\ pendingFunctors_ \in Seq(1 .. MaxFunctors)
    /\ functors \in Seq(1 .. MaxFunctors)
    /\ callingPendingFunctors_ \in BOOLEAN
    /\ callingPendingFunctors_ <=> pc \in {"swap", "run"}
    /\ callerPc \in [Caller -> {"idle", "wakeup"}]
    /\ ran \in Seq(1 .. MaxFunctors)

\* The loop never sleeps over work: while it polls, a waiting functor or an
\* asked-for exit has the wakeup descriptor readable, or a thread that is about
\* to make it so.
NoLostWakeup ==
    pc = "poll" /\ (pendingFunctors_ # <<>> \/ quit_) =>
        eventfd > 0 \/ \E c \in Caller : callerPc[c] = "wakeup"

\* Every functor is run once, in the order of queueInLoop's push_back, and
\* none is lost by the swap or by threads that push while the batch runs.
RunsInOrder ==
    ran \o functors \o pendingFunctors_ = [i \in 1 .. queued |-> i]

\* Without help from the poll timeout every queued functor is run, unless the
\* loop is told to quit; and quit() ends the loop, if it is called after loop()
\* has cleared quit_ (an earlier one is forgotten, as loop's FIXME says).
QueuedIsRun ==
    /\ \A i \in 1 .. MaxFunctors : queued >= i ~> Len(ran) >= i \/ pc = "exited"
    /\ (quit_ /\ pc \notin {"start", "clear"}) ~> pc = "exited"
==============================================================================
