--------------------------- MODULE EventLoopProofs --------------------------
(***************************************************************************)
(* EventLoop never sleeps over work and runs every functor once and in     *)
(* order, for any number of threads and of functors.                       *)
(***************************************************************************)
EXTENDS EventLoop, SequenceTheorems, TLAPS

\* Someone has woken the loop up or is about to.
Woken == eventfd > 0 \/ \E c \in Caller : callerPc[c] = "wakeup"

\* Outside the steps that lead to the swap, a waiting functor has a wakeup; so
\* has an exit asked for while the loop polls.
Awake ==
    /\ pc \in {"start", "clear", "run", "test", "poll"} /\ pendingFunctors_ # <<>> => Woken
    /\ pc = "poll" /\ quit_ => Woken

\* Element by element: the functors run, the batch and the queue are
\* consecutive stretches of 1 .. queued.
Ordered ==
    /\ queued = Len(ran) + Len(functors) + Len(pendingFunctors_)
    /\ \A i \in 1 .. Len(ran) : ran[i] = i
    /\ \A i \in 1 .. Len(functors) : functors[i] = Len(ran) + i
    /\ \A i \in 1 .. Len(pendingFunctors_) :
           pendingFunctors_[i] = Len(ran) + Len(functors) + i
    /\ pc # "run" => functors = <<>>

Inv == TypeOK /\ Awake /\ Ordered

-----------------------------------------------------------------------------
\* Init establishes the invariant.
LEMMA InitInv == Init => Inv
<1> SUFFICES ASSUME Init PROVE Inv
  OBVIOUS
<1>1. <<>> \in Seq(1 .. MaxFunctors) /\ Len(<<>>) = 0
  BY EmptySeq
<1>2. TypeOK
  <2>1. queued \in 0 .. MaxFunctors
    BY LoopAssumption DEF Init
  <2>2. callerPc \in [Caller -> {"idle", "wakeup"}]
    BY DEF Init
  <2> QED
    BY <1>1, <2>1, <2>2 DEF Init, TypeOK
<1>3. Awake
  BY DEF Init, Awake
<1>4. Ordered
  BY <1>1 DEF Init, Ordered
<1> QED
  BY <1>2, <1>3, <1>4 DEF Inv

\* push_back extends the queue by the next number.
LEMMA PushBack ==
    ASSUME TypeOK, Ordered, push_back
    PROVE  /\ queued' \in 0 .. MaxFunctors
           /\ pendingFunctors_' \in Seq(1 .. MaxFunctors)
           /\ Len(pendingFunctors_') = Len(pendingFunctors_) + 1
           /\ queued' = Len(ran) + Len(functors) + Len(pendingFunctors_')
           /\ \A i \in 1 .. Len(pendingFunctors_') :
                  pendingFunctors_'[i] = Len(ran) + Len(functors) + i
<1>1. /\ pendingFunctors_ \in Seq(1 .. MaxFunctors) /\ queued + 1 \in 1 .. MaxFunctors
      /\ pendingFunctors_' = Append(pendingFunctors_, queued + 1)
      /\ queued' = queued + 1 /\ queued' \in 0 .. MaxFunctors
  BY LoopAssumption DEF TypeOK, push_back
<1>2. /\ pendingFunctors_' \in Seq(1 .. MaxFunctors)
      /\ Len(pendingFunctors_') = Len(pendingFunctors_) + 1
      /\ \A i \in 1 .. Len(pendingFunctors_) : pendingFunctors_'[i] = pendingFunctors_[i]
      /\ pendingFunctors_'[Len(pendingFunctors_) + 1] = queued + 1
  BY <1>1, AppendProperties
<1>3. Len(pendingFunctors_) \in Nat /\ Len(ran) \in Nat /\ Len(functors) \in Nat
  BY LenProperties DEF TypeOK
<1>4. queued' = Len(ran) + Len(functors) + Len(pendingFunctors_')
  BY <1>1, <1>2, <1>3 DEF Ordered
<1>5. ASSUME NEW i \in 1 .. Len(pendingFunctors_')
      PROVE  pendingFunctors_'[i] = Len(ran) + Len(functors) + i
  <2>1. CASE i \in 1 .. Len(pendingFunctors_)
    BY <1>2, <2>1 DEF Ordered
  <2>2. CASE i = Len(pendingFunctors_) + 1
    BY <1>1, <1>2, <1>3, <1>4, <2>2
  <2> QED
    BY <1>2, <1>3, <2>1, <2>2
<1> QED
  BY <1>1, <1>2, <1>4, <1>5

\* Taking the head of the batch.
LEMMA TakeHead ==
    ASSUME TypeOK, Ordered, functors # <<>>,
           functors' = Tail(functors), ran' = Append(ran, Head(functors))
    PROVE  /\ functors' \in Seq(1 .. MaxFunctors)
           /\ ran' \in Seq(1 .. MaxFunctors)
           /\ Len(ran') = Len(ran) + 1
           /\ Len(functors') = Len(functors) - 1
           /\ \A i \in 1 .. Len(ran') : ran'[i] = i
           /\ \A i \in 1 .. Len(functors') : functors'[i] = Len(ran') + i
<1>1. functors \in Seq(1 .. MaxFunctors) /\ ran \in Seq(1 .. MaxFunctors)
  BY DEF TypeOK
<1>2. /\ Head(functors) \in 1 .. MaxFunctors /\ Tail(functors) \in Seq(1 .. MaxFunctors)
      /\ Len(Tail(functors)) = Len(functors) - 1
      /\ \A i \in 1 .. Len(Tail(functors)) : Tail(functors)[i] = functors[i + 1]
  BY <1>1, HeadTailProperties
<1>3. /\ ran' \in Seq(1 .. MaxFunctors)
      /\ Len(ran') = Len(ran) + 1
      /\ \A i \in 1 .. Len(ran) : ran'[i] = ran[i]
      /\ ran'[Len(ran) + 1] = Head(functors)
  BY <1>1, <1>2, AppendProperties
<1>4. Len(ran) \in Nat /\ Len(functors) \in Nat
  BY <1>1, LenProperties
<1>5. Head(functors) = Len(ran) + 1
  <2>1. Head(functors) = functors[1]
    BY <1>1
  <2>2. 1 \in 1 .. Len(functors)
    BY <1>1, EmptySeq
  <2> QED
    BY <2>1, <2>2 DEF Ordered
<1>6. \A i \in 1 .. Len(ran') : ran'[i] = i
  BY <1>3, <1>4, <1>5 DEF Ordered
<1>7. \A i \in 1 .. Len(functors') : functors'[i] = Len(ran') + i
  BY <1>2, <1>3, <1>4 DEF Ordered
<1> QED
  BY <1>2, <1>3, <1>6, <1>7

-----------------------------------------------------------------------------
\* A thread that has published its functor or its quit is about to wake.
LEMMA CallerInv ==
    ASSUME Inv, NEW c \in Caller, CallerStep(c)
    PROVE  Inv'
<1> USE DEF Inv
<1>1. CASE CallerPushes(c)
  <2>1. callerPc'[c] = "wakeup" /\ callerPc' \in [Caller -> {"idle", "wakeup"}]
    BY <1>1 DEF CallerPushes, TypeOK
  <2>2. push_back /\ ran' = ran /\ functors' = functors
    BY <1>1 DEF CallerPushes
  <2>3. TypeOK'
    BY <1>1, <2>1, <2>2, PushBack DEF CallerPushes, TypeOK
  <2>4. Awake'
    BY <1>1, <2>1 DEF CallerPushes, Awake, Woken
  <2>5. Ordered'
    BY <1>1, <2>2, PushBack DEF CallerPushes, Ordered
  <2> QED
    BY <2>3, <2>4, <2>5
<1>2. CASE CallerQuits(c)
  <2>1. callerPc'[c] = "wakeup" /\ callerPc' \in [Caller -> {"idle", "wakeup"}]
    BY <1>2 DEF CallerQuits, TypeOK
  <2>2. TypeOK' /\ Ordered'
    BY <1>2, <2>1 DEF CallerQuits, TypeOK, Ordered, queueVars
  <2>3. Awake'
    BY <1>2, <2>1 DEF CallerQuits, Awake, Woken, queueVars
  <2> QED
    BY <2>2, <2>3
<1>3. CASE CallerWakes(c)
  <2>1. eventfd' > 0 /\ eventfd' \in Nat
    BY <1>3 DEF CallerWakes, wakeup, TypeOK
  <2>2. TypeOK' /\ Ordered'
    BY <1>3, <2>1 DEF CallerWakes, TypeOK, Ordered, queueVars
  <2>3. Awake'
    BY <1>3, <2>1 DEF CallerWakes, Awake, Woken, queueVars
  <2> QED
    BY <2>2, <2>3
<1> QED
  BY <1>1, <1>2, <1>3 DEF CallerStep

\* A functor that queues another one wakes its own loop.
LEMMA RunsInv ==
    ASSUME Inv, Runs
    PROVE  Inv'
<1> USE DEF Inv
<1>1. /\ functors # <<>> /\ functors' = Tail(functors) /\ ran' = Append(ran, Head(functors))
      /\ pc = "run" /\ pc' = "run" /\ callingPendingFunctors_ /\ callingPendingFunctors_'
  BY DEF Runs, TypeOK
<1>2. /\ functors' \in Seq(1 .. MaxFunctors) /\ ran' \in Seq(1 .. MaxFunctors)
      /\ Len(ran') = Len(ran) + 1 /\ Len(functors') = Len(functors) - 1
      /\ \A i \in 1 .. Len(ran') : ran'[i] = i
      /\ \A i \in 1 .. Len(functors') : functors'[i] = Len(ran') + i
  BY <1>1, TakeHead
<1>3. Len(ran) \in Nat /\ Len(functors) \in Nat /\ Len(ran') + Len(functors') = Len(ran) + Len(functors)
  BY <1>2, LenProperties DEF TypeOK
<1>4. CASE UNCHANGED queueVars
  <2>0. ~push_back
    BY <1>4, LoopAssumption DEF push_back, queueVars, TypeOK
  <2>1. eventfd' = eventfd /\ callerPc' = callerPc /\ quit_' \in BOOLEAN
    BY <2>0 DEF Runs, TypeOK
  <2>2. TypeOK'
    BY <1>1, <1>2, <1>4, <2>1 DEF Runs, TypeOK, queueVars
  <2>3. Awake'
    BY <1>1, <1>4, <2>1 DEF Awake, Woken, queueVars
  <2>4. Ordered'
    BY <1>1, <1>2, <1>3, <1>4 DEF Ordered, queueVars
  <2> QED
    BY <2>2, <2>3, <2>4
<1>5. CASE push_back /\ wakeup /\ UNCHANGED quit_
  <2>1. eventfd' > 0 /\ eventfd' \in Nat
    BY <1>5 DEF wakeup, TypeOK
  <2>2. /\ queued' \in 0 .. MaxFunctors
        /\ pendingFunctors_' \in Seq(1 .. MaxFunctors)
        /\ Len(pendingFunctors_') = Len(pendingFunctors_) + 1
        /\ \A i \in 1 .. Len(pendingFunctors_') :
               pendingFunctors_'[i] = Len(ran) + Len(functors) + i
        /\ queued' = Len(ran) + Len(functors) + Len(pendingFunctors_')
    BY <1>5, PushBack
  <2>3. TypeOK'
    BY <1>1, <1>2, <1>5, <2>1, <2>2 DEF Runs, TypeOK
  <2>4. Awake'
    BY <1>1, <2>1 DEF Awake, Woken
  <2>5. Ordered'
    BY <1>1, <1>2, <1>3, <2>2 DEF Ordered
  <2> QED
    BY <2>3, <2>4, <2>5
<1> QED
  BY <1>1, <1>4, <1>5 DEF Runs, queueVars

\* The other steps of the loop's thread.
LEMMA LoopInv ==
    ASSUME Inv,
           \/ loop \/ ClearsQuit \/ Tests \/ PollWakes \/ PollReturns \/ handleRead
           \/ HandlerQueues \/ Handled \/ Swap \/ RunsEnd
    PROVE  Inv'
<1> USE DEF Inv
<1>1. CASE loop \/ ClearsQuit \/ Tests
  <2>0. TypeOK'
    <3>1. CASE loop
      BY <3>1 DEF loop, TypeOK, queueVars
    <3>3. CASE ClearsQuit
      BY <3>3 DEF ClearsQuit, TypeOK, queueVars
    <3>2. CASE Tests
      <4>1. CASE quit_
        BY <3>2, <4>1 DEF Tests, TypeOK, queueVars
      <4>2. CASE ~quit_
        BY <3>2, <4>2 DEF Tests, TypeOK, queueVars
      <4> QED
        BY <4>1, <4>2
    <3> QED
      BY <1>1, <3>1, <3>2, <3>3
  <2>1. Ordered'
    BY <1>1 DEF loop, ClearsQuit, Tests, Ordered, queueVars
  <2>2. Awake'
    BY <1>1 DEF loop, ClearsQuit, Tests, Awake, Woken, queueVars
  <2> QED
    BY <2>0, <2>1, <2>2
<1>2. CASE PollWakes \/ PollReturns \/ handleRead \/ Handled
  <2>0. TypeOK'
    <3>0. CASE PollWakes
      BY <3>0 DEF PollWakes, TypeOK, queueVars
    <3>1. CASE PollReturns
      BY <3>1 DEF PollReturns, TypeOK, queueVars
    <3>2. CASE handleRead
      BY <3>2 DEF handleRead, TypeOK, queueVars
    <3>3. CASE Handled
      BY <3>3 DEF Handled, TypeOK, queueVars
    <3> QED
      BY <1>2, <3>0, <3>1, <3>2, <3>3
  <2>1. Ordered'
    BY <1>2 DEF PollWakes, PollReturns, handleRead, Handled, Ordered, queueVars
  <2>2. Awake'
    BY <1>2 DEF PollWakes, PollReturns, handleRead, Handled, Awake, Woken, queueVars
  <2> QED
    BY <2>0, <2>1, <2>2
<1>3. CASE HandlerQueues
  <2>1. push_back /\ ran' = ran /\ functors' = functors
    BY <1>3 DEF HandlerQueues
  <2>2. TypeOK' /\ Ordered'
    BY <1>3, <2>1, PushBack DEF HandlerQueues, TypeOK, Ordered
  <2>3. Awake'
    BY <1>3 DEF HandlerQueues, Awake, Woken
  <2> QED
    BY <2>2, <2>3
<1>4. CASE Swap
  <2>1. TypeOK'
    BY <1>4, EmptySeq DEF Swap, TypeOK
  <2>2. Ordered'
    <3>1. functors = <<>> /\ Len(functors) = 0
      BY <1>4, EmptySeq DEF Swap, Ordered
    <3>2. pendingFunctors_' = <<>> /\ Len(pendingFunctors_') = 0
      BY <1>4, EmptySeq DEF Swap
    <3>3. Len(ran) \in Nat /\ Len(pendingFunctors_) \in Nat
      BY LenProperties DEF TypeOK
    <3> QED
      BY <1>4, <3>1, <3>2, <3>3 DEF Swap, Ordered
  <2>3. Awake'
    BY <1>4 DEF Swap, Awake, Woken
  <2> QED
    BY <2>1, <2>2, <2>3
<1>5. CASE RunsEnd
  <2>1. TypeOK' /\ Ordered'
    BY <1>5 DEF RunsEnd, TypeOK, Ordered, queueVars
  <2>2. Awake'
    BY <1>5 DEF RunsEnd, Awake, Woken, queueVars
  <2> QED
    BY <2>1, <2>2
<1> QED
  BY <1>1, <1>2, <1>3, <1>4, <1>5

-----------------------------------------------------------------------------
\* The invariant is inductive.
LEMMA InvHolds == Spec => []Inv
<1>1. ASSUME Inv, [Next]_vars
      PROVE  Inv'
  <2> USE <1>1
  <2>1. CASE UNCHANGED vars
    BY <2>1 DEF vars, queueVars, Inv, TypeOK, Awake, Ordered, Woken
  <2>2. CASE Next
    BY <2>2, CallerInv, RunsInv, LoopInv DEF Next, LoopStep
  <2> QED
    BY <2>1, <2>2
<1> QED
  BY InitInv, <1>1, PTL DEF Spec

\* TypeOK holds of EventLoop whatever the threads and the number of functors.
THEOREM LoopTypeCorrect == Spec => []TypeOK
  BY InvHolds, PTL DEF Inv

\* epoll_wait is never entered or slept in while a functor or an exit waits
\* and nobody has written, or is about to write, the wakeup descriptor.
THEOREM LoopNeverSleepsOverWork == Spec => []NoLostWakeup
<1>1. Inv => NoLostWakeup
  BY DEF Inv, Awake, Woken, NoLostWakeup
<1> QED
  BY InvHolds, <1>1, PTL

\* queueInLoop and doPendingFunctors run every functor once and in order.
THEOREM FunctorsRunInOrder == Spec => []RunsInOrder
<1>1. Inv => RunsInOrder
  <2> SUFFICES ASSUME Inv PROVE RunsInOrder
    OBVIOUS
  <2> DEFINE S == 1 .. MaxFunctors
             rf == ran \o functors
             all == rf \o pendingFunctors_
  <2>1. ran \in Seq(S) /\ functors \in Seq(S) /\ pendingFunctors_ \in Seq(S)
    BY DEF Inv, TypeOK
  <2>2. Len(ran) \in Nat /\ Len(functors) \in Nat /\ Len(pendingFunctors_) \in Nat
    BY <2>1, LenProperties
  <2>3. /\ rf \in Seq(S) /\ Len(rf) = Len(ran) + Len(functors)
        /\ \A i \in 1 .. Len(ran) + Len(functors) : rf[i] = IF i <= Len(ran) THEN ran[i] ELSE functors[i - Len(ran)]
    BY <2>1, ConcatProperties
  <2>4. \A i \in 1 .. Len(rf) : rf[i] = i
    BY <2>2, <2>3 DEF Inv, Ordered
  <2>4a. rf \in Seq(S)
    BY <2>3
  <2> HIDE DEF rf, S
  <2>5. /\ all \in Seq(S) /\ Len(all) = Len(rf) + Len(pendingFunctors_)
        /\ \A i \in 1 .. Len(rf) + Len(pendingFunctors_) :
               all[i] = IF i <= Len(rf) THEN rf[i] ELSE pendingFunctors_[i - Len(rf)]
    BY <2>1, <2>4a, ConcatProperties
  <2>6. Len(all) = queued /\ \A i \in 1 .. Len(all) : all[i] = i
    BY <2>2, <2>3, <2>4, <2>5 DEF Inv, Ordered
  <2> HIDE DEF all
  <2>7. all = [i \in 1 .. Len(all) |-> all[i]]
    BY <2>5, LenProperties
  <2>8. all = [i \in 1 .. queued |-> i]
    BY <2>6, <2>7
  <2> QED
    BY <2>8 DEF RunsInOrder, all, rf
<1> QED
  BY InvHolds, <1>1, PTL
==============================================================================
