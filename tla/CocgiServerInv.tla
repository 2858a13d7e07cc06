--------------------------- MODULE CocgiServerInv ---------------------------
(***************************************************************************)
(* The inductive invariant of one cocgi worker process, that it holds at the *)
(* start, and that the scheduler and the acceptor preserve it.             *)
(***************************************************************************)
EXTENDS CocgiServer, FiniteSetTheorems, SequenceTheorems, TLAPS

USE DEF NoFd, Main, Acceptor, NoCo

-----------------------------------------------------------------------------
(* Lists and call stacks *)

Elems(s) == {s[i] : i \in 1 .. Len(s)}

NoDuplicates(s) == \A i, j \in 1 .. Len(s) : s[i] = s[j] => i = j

\* std::list::push_front adds its argument to the elements of the list, and to
\* a list without duplicates that lacks it adds no duplicate.
LEMMA PushFront ==
    ASSUME NEW S, NEW s \in Seq(S), NEW x \in S
    PROVE  /\ <<x>> \o s \in Seq(S)
           /\ Elems(<<x>> \o s) = Elems(s) \union {x}
           /\ NoDuplicates(s) /\ x \notin Elems(s) => NoDuplicates(<<x>> \o s)
<1> DEFINE r == <<x>> \o s
<1>1. /\ r \in Seq(S)
      /\ Len(r) = Len(s) + 1
      /\ r[1] = x
      /\ \A i \in 2 .. Len(r) : r[i] = s[i - 1]
  OBVIOUS
<1>2. \A i \in 1 .. Len(s) : i + 1 \in 2 .. Len(r) /\ r[i + 1] = s[i]
  BY <1>1
<1> HIDE DEF r
<1>3. Elems(r) = Elems(s) \union {x}
  <2>1. ASSUME NEW y \in Elems(r) PROVE y \in Elems(s) \union {x}
    <3>1. PICK i \in 1 .. Len(r) : y = r[i]
      BY DEF Elems
    <3>2. CASE i = 1
      BY <3>1, <3>2, <1>1
    <3>3. CASE i # 1
      <4>1. i - 1 \in 1 .. Len(s) /\ r[i] = s[i - 1]
        BY <3>3, <1>1
      <4> QED BY <4>1, <3>1 DEF Elems
    <3> QED BY <3>2, <3>3
  <2>2. ASSUME NEW y \in Elems(s) PROVE y \in Elems(r)
    <3>1. PICK i \in 1 .. Len(s) : y = s[i]
      BY DEF Elems
    <3>2. i + 1 \in 1 .. Len(r) /\ y = r[i + 1]
      BY <3>1, <1>2
    <3> QED BY <3>2 DEF Elems
  <2>3. x \in Elems(r)
    <3>1. 1 \in 1 .. Len(r) /\ x = r[1]
      BY <1>1
    <3> QED BY <3>1 DEF Elems
  <2> QED BY <2>1, <2>2, <2>3
<1>4. ASSUME NoDuplicates(s), x \notin Elems(s) PROVE NoDuplicates(r)
  <2> SUFFICES ASSUME NEW i \in 1 .. Len(r), NEW j \in 1 .. Len(r), r[i] = r[j], i # j
               PROVE  FALSE
    BY DEF NoDuplicates
  <2>1. \A k \in 2 .. Len(r) : k - 1 \in 1 .. Len(s) /\ r[k] = s[k - 1] /\ r[k] # x
    BY <1>1, <1>4 DEF Elems
  <2>2. CASE i = 1 \/ j = 1
    BY <2>1, <2>2, <1>1
  <2>3. CASE i # 1 /\ j # 1
    <3>1. i \in 2 .. Len(r) /\ j \in 2 .. Len(r)
      BY <2>3, <1>1
    <3>2. i - 1 \in 1 .. Len(s) /\ j - 1 \in 1 .. Len(s) /\ s[i - 1] = s[j - 1]
      BY <3>1, <2>1
    <3>3. i - 1 = j - 1
      BY <3>2, <1>4 DEF NoDuplicates
    <3> QED BY <3>3
  <2> QED BY <2>2, <2>3
<1> QED BY <1>1, <1>3, <1>4 DEF r

\* std::list::pop_front removes the front element and, from a list without
\* duplicates, nothing else.
LEMMA PopFront ==
    ASSUME NEW S, NEW s \in Seq(S), s # <<>>, NoDuplicates(s)
    PROVE  /\ Tail(s) \in Seq(S)
           /\ Head(s) \in Elems(s)
           /\ Elems(Tail(s)) = Elems(s) \ {Head(s)}
           /\ NoDuplicates(Tail(s))
<1>1. /\ Tail(s) \in Seq(S)
      /\ Len(s) \in Nat \ {0}
      /\ Len(Tail(s)) = Len(s) - 1
      /\ Head(s) = s[1]
      /\ \A i \in 1 .. Len(Tail(s)) : Tail(s)[i] = s[i + 1]
  OBVIOUS
<1> DEFINE r == Tail(s)
           h == Head(s)
<1> HIDE DEF r, h
<1>2. \A i \in 1 .. Len(r) : i + 1 \in 1 .. Len(s) /\ r[i] = s[i + 1]
  BY <1>1 DEF r
<1>3. h \in Elems(s)
  <2>1. 1 \in 1 .. Len(s)
    BY <1>1
  <2> QED BY <2>1, <1>1 DEF Elems, h
<1>4. Elems(r) = Elems(s) \ {h}
  <2>1. ASSUME NEW y \in Elems(r) PROVE y \in Elems(s) /\ y # h
    <3>1. PICK i \in 1 .. Len(r) : y = r[i]
      BY DEF Elems
    <3>2. i + 1 \in 1 .. Len(s) /\ y = s[i + 1] /\ i + 1 # 1 /\ 1 \in 1 .. Len(s)
      BY <3>1, <1>2, <1>1
    <3> QED BY <3>2, <1>1 DEF Elems, NoDuplicates, h
  <2>2. ASSUME NEW y \in Elems(s), y # h PROVE y \in Elems(r)
    <3>1. PICK i \in 1 .. Len(s) : y = s[i]
      BY DEF Elems
    <3>2. i - 1 \in 1 .. Len(r) /\ r[i - 1] = y
      BY <3>1, <2>2, <1>1 DEF r, h
    <3> QED BY <3>2 DEF Elems
  <2> QED BY <2>1, <2>2
<1>5. NoDuplicates(r)
  <2> SUFFICES ASSUME NEW i \in 1 .. Len(r), NEW j \in 1 .. Len(r), r[i] = r[j]
               PROVE  i = j
    BY DEF NoDuplicates
  <2>1. i + 1 = j + 1
    BY <1>2 DEF NoDuplicates
  <2> QED BY <2>1
<1> QED BY <1>1, <1>3, <1>4, <1>5 DEF r, h

\* co_resume pushes on pCallStack.
LEMMA StackPush ==
    ASSUME NEW S, NEW s \in Seq(S), NEW c \in S
    PROVE  /\ Append(s, c) \in Seq(S)
           /\ Len(Append(s, c)) = Len(s) + 1
           /\ \A i \in 1 .. Len(s) : Append(s, c)[i] = s[i]
           /\ Append(s, c)[Len(s) + 1] = c
OBVIOUS

\* co_yield_env pops it.
LEMMA StackPop ==
    ASSUME NEW S, NEW s \in Seq(S), s # <<>>
    PROVE  /\ Len(s) \in Nat \ {0}
           /\ SubSeq(s, 1, Len(s) - 1) \in Seq(S)
           /\ Len(SubSeq(s, 1, Len(s) - 1)) = Len(s) - 1
           /\ \A i \in 1 .. Len(s) - 1 : SubSeq(s, 1, Len(s) - 1)[i] = s[i]
<1>1. Len(s) \in Nat \ {0}
  BY EmptySeq
<1>2. \A i \in 1 .. Len(s) - 1 : s[i] \in S
  BY <1>1, ElementOfSeq
<1> DEFINE n == Len(s) - 1
           q == SubSeq(s, 1, n)
<1>3. n \in Nat /\ \A i \in 1 .. n : s[i] \in S
  BY <1>1, <1>2
<1> HIDE DEF n
<1>4. /\ q \in Seq(S)
      /\ Len(q) = IF 1 <= n THEN n - 1 + 1 ELSE 0
      /\ \A i \in 1 .. n - 1 + 1 : q[i] = s[1 + i - 1]
  BY <1>3, SubSeqProperties
<1> HIDE DEF q
<1>5. q \in Seq(S) /\ Len(q) = n /\ \A i \in 1 .. n : q[i] = s[i]
  BY <1>3, <1>4
<1> QED BY <1>1, <1>5 DEF n, q

-----------------------------------------------------------------------------
(* The inductive invariant *)

\* The event loop, the accept coroutine if it is not polling, and at most one
\* task; after a crash, nothing.
StackShape ==
    \/ Len(callStack) = 0
    \/ /\ Len(callStack) = 1
       /\ callStack[1] = Main
       /\ acceptPc = "poll"
    \/ /\ Len(callStack) = 2
       /\ callStack[1] = Main
       /\ \/ callStack[2] = Acceptor /\ acceptPc = "loop"
          \/ callStack[2] \in CoId /\ acceptPc = "poll"
    \/ /\ Len(callStack) = 3
       /\ callStack[1] = Main
       /\ callStack[2] = Acceptor
       /\ callStack[3] \in CoId
       /\ acceptPc = "loop"

\* What a task holds, which container it is in and whether it may have the
\* thread, by where its coroutine is.
TaskShape ==
    \A t \in CoId :
        /\ pc[t] \in {"new", "idle"} <=> t \in IdleTasks
        /\ pc[t] \in {"top", "read", "poll"} <=> t \in m_usRunTask
        /\ pc[t] = "ended" <=> t \in released
        /\ pc[t] \in {"read", "poll"} <=> conn[t] # NoFd
        /\ iFd[t] # NoFd => pc[t] = "top"
        /\ conn[t] # NoFd => recycle[t] <= MAX_RECYCLE_COUNT
        /\ pc[t] \in {"top", "read"} /\ callStack # <<>> => Current = t
        /\ pc[t] \in {"new", "idle", "poll"} => Current # t

\* Tasks and open connections correspond one to one.
FdShape ==
    /\ \A t \in CoId : Owned(t) # NoFd => sock[Owned(t)] # "free"
    /\ \A f \in Fd : sock[f] # "free" => \E t \in CoId : Owned(t) = f
    /\ \A t, u \in CoId : Owned(t) = Owned(u) /\ Owned(t) # NoFd => t = u

Inv == /\ TypeOK
       /\ PoolPartition
       /\ StackShape
       /\ TaskShape
       /\ callStack # <<>> => FdShape


\* Which coroutine has the thread, by the shape of the call stack.
LEMMA WhoRuns ==
    ASSUME TypeOK, StackShape
    PROVE  /\ Len(callStack) = 0 <=> callStack = <<>>
           /\ Current = NoCo <=> callStack = <<>>
           /\ Current = Main <=> Len(callStack) = 1
           /\ Current = Acceptor <=> Len(callStack) = 2 /\ callStack[2] = Acceptor
           /\ Current \in CoId <=> \/ Len(callStack) = 2 /\ callStack[2] \in CoId
                                  \/ Len(callStack) = 3
           /\ Current \in CoId \union {NoCo, Main, Acceptor}
<1>1. Len(callStack) \in Nat /\ (Len(callStack) = 0 <=> callStack = <<>>)
  BY EmptySeq, LenProperties DEF TypeOK
<1>2. CoId \subseteq Nat
  BY DEF CoId, TypeOK
<1> QED BY <1>1, <1>2, SMTT(30) DEF StackShape, Current

\* A coroutine that yields gives the thread back to the event loop or to the
\* accept coroutine.
LEMMA TaskYields ==
    ASSUME TypeOK, StackShape, Current \in CoId, co_yield_env,
           acceptPc' = acceptPc, m_uCoIndex' = m_uCoIndex
    PROVE  /\ StackShape'
           /\ callStack' \in Seq(CoId' \union {Main, Acceptor})
           /\ callStack' # <<>>
           /\ Current' \in {Main, Acceptor}
<1>1. CoId' = CoId /\ CoId \subseteq Nat
  BY DEF CoId, TypeOK
<1>2. callStack # <<>> /\ Len(callStack) \in {2, 3}
  BY WhoRuns, <1>1
<1>3. /\ callStack' \in Seq(CoId \union {Main, Acceptor})
      /\ Len(callStack') = Len(callStack) - 1
      /\ \A i \in 1 .. Len(callStack) - 1 : callStack'[i] = callStack[i]
  BY <1>2, StackPop DEF TypeOK, co_yield_env
<1>4. StackShape'
  BY <1>1, <1>2, <1>3, WhoRuns DEF StackShape
<1>5. Len(callStack') # 0 /\ callStack' # <<>>
  BY <1>2, <1>3, EmptySeq
<1> QED BY <1>1, <1>2, <1>3, <1>4, <1>5, WhoRuns, SMTT(30) DEF StackShape, Current

\* The event loop and the accept coroutine resume a task on top of themselves.
LEMMA TaskResumed ==
    ASSUME TypeOK, StackShape, Current \in {Main, Acceptor}, NEW t \in CoId,
           co_resume(t), acceptPc' = acceptPc, m_uCoIndex' = m_uCoIndex
    PROVE  /\ StackShape'
           /\ callStack' \in Seq(CoId' \union {Main, Acceptor})
           /\ callStack' # <<>>
           /\ Current' = t
<1>1. CoId' = CoId /\ CoId \subseteq Nat
  BY DEF CoId, TypeOK
<1>2. \/ Len(callStack) = 1
      \/ Len(callStack) = 2 /\ callStack[2] = Acceptor
  BY WhoRuns, <1>1
<1>3. /\ callStack' \in Seq(CoId \union {Main, Acceptor})
      /\ Len(callStack') = Len(callStack) + 1
      /\ \A i \in 1 .. Len(callStack) : callStack'[i] = callStack[i]
      /\ callStack'[Len(callStack) + 1] = t
  BY <1>2, StackPush DEF TypeOK, co_resume
<1>4. StackShape'
  <2>1. CASE Len(callStack) = 1
    BY <2>1, <1>1, <1>3 DEF StackShape
  <2>2. CASE Len(callStack) = 2 /\ callStack[2] = Acceptor
    BY <2>2, <1>1, <1>3 DEF StackShape
  <2> QED BY <1>2, <2>1, <2>2
<1>5. Len(callStack') # 0 /\ callStack' # <<>>
  BY <1>2, <1>3, EmptySeq
<1> QED BY <1>1, <1>2, <1>3, <1>4, <1>5 DEF Current

-----------------------------------------------------------------------------
(* The initial state *)

LEMMA InitInv == Init => Inv
<1> SUFFICES ASSUME Init PROVE Inv
  OBVIOUS
<1> USE CocgiAssumption
<1>1. CoId = 0 .. m_usCoroutineCount - 1
  BY DEF Init, CoId
<1>2. m_lIdleTask \in Seq(CoId) /\ Len(m_lIdleTask) = m_usCoroutineCount
  BY <1>1, IsASeq DEF Init
<1>3. callStack \in Seq(CoId \union {Main, Acceptor}) /\ Len(callStack) = 2
  BY DEF Init
<1>4. TypeOK
  BY <1>1, <1>2, <1>3 DEF Init, TypeOK, TaskPc, SockState, Errno
<1>5. \A i \in 1 .. Len(m_lIdleTask) : m_lIdleTask[i] = m_usCoroutineCount - i
  BY <1>2 DEF Init
<1>6. IdleTasks = CoId
  <2>1. ASSUME NEW t \in CoId PROVE t \in IdleTasks
    <3>1. /\ m_usCoroutineCount - t \in 1 .. Len(m_lIdleTask)
          /\ m_lIdleTask[m_usCoroutineCount - t] = t
      BY <1>1, <1>2, <1>5
    <3> QED BY <3>1 DEF IdleTasks
  <2>2. ASSUME NEW t \in IdleTasks PROVE t \in CoId
    BY <1>1, <1>2, <1>5 DEF IdleTasks
  <2> QED BY <2>1, <2>2
<1>7. PoolPartition
  BY <1>2, <1>5, <1>6 DEF PoolPartition, Init
<1>8. StackShape /\ Current = Acceptor
  BY <1>3 DEF Init, StackShape, Current
<1>9. TaskShape
  BY <1>1, <1>6, <1>8 DEF Init, TaskShape
<1>10. FdShape
  BY <1>1 DEF Init, FdShape, Owned
<1> QED BY <1>4, <1>7, <1>8, <1>9, <1>10 DEF Inv

-----------------------------------------------------------------------------
(* The steps *)

\* What a step that leaves the pool's containers alone does not disturb.
LEMMA PoolUnchanged ==
    ASSUME UNCHANGED poolVars
    PROVE  /\ CoId' = CoId
           /\ IdleTasks' = IdleTasks
           /\ PoolPartition => PoolPartition'
BY DEF poolVars, CoId, IdleTasks, PoolPartition

LEMMA AcceptCreatesInv ==
    ASSUME Inv, AcceptCreates PROVE Inv'
<1> USE DEF Inv
<1> DEFINE n == m_uCoIndex
<1>1. /\ n \in Nat
      /\ CoId = 0 .. n - 1
      /\ CoId' = 0 .. n
      /\ CoId' = CoId \union {n}
      /\ n \notin CoId
  BY DEF TypeOK, CoId, AcceptCreates, CreateCocgiTask
<1>2. /\ iFd' = [t \in CoId' |-> IF t = n THEN NoFd ELSE iFd[t]]
      /\ conn' = [t \in CoId' |-> IF t = n THEN NoFd ELSE conn[t]]
      /\ recycle' = [t \in CoId' |-> IF t = n THEN 0 ELSE recycle[t]]
      /\ pc' = [t \in CoId' |-> IF t = n THEN "new" ELSE pc[t]]
  BY <1>1 DEF AcceptCreates, CreateCocgiTask, Extend
<1>3. /\ m_lIdleTask = <<>>
      /\ m_lIdleTask' = <<n>> \o m_lIdleTask
      /\ m_umTask' = m_umTask \union {n}
      /\ UNCHANGED <<m_usRunTask, acceptPc, callStack, released, errno, sock, backlog>>
      /\ m_uCoIndex' = n + 1
      /\ Current = Acceptor
  BY DEF AcceptCreates, CreateCocgiTask, coVars, envVars
<1> HIDE DEF n
<1>4. m_lIdleTask \in Seq(CoId') /\ n \in CoId'
  BY <1>1, SeqMonotonic DEF TypeOK
<1>5. IdleTasks = Elems(m_lIdleTask) /\ IdleTasks' = Elems(m_lIdleTask')
  BY DEF IdleTasks, Elems
<1>6. /\ m_lIdleTask' \in Seq(CoId')
      /\ IdleTasks' = IdleTasks \union {n}
      /\ NoDuplicates(m_lIdleTask) /\ n \notin IdleTasks => NoDuplicates(m_lIdleTask')
  <2>1. /\ <<n>> \o m_lIdleTask \in Seq(CoId')
        /\ Elems(<<n>> \o m_lIdleTask) = Elems(m_lIdleTask) \union {n}
        /\ NoDuplicates(m_lIdleTask) /\ n \notin Elems(m_lIdleTask)
             => NoDuplicates(<<n>> \o m_lIdleTask)
    BY <1>4, PushFront
  <2> QED BY <1>3, <1>5, <2>1, Zenon
<1>7. TypeOK'
  <2>1. callStack' \in Seq(CoId' \union {Main, Acceptor})
    BY <1>1, <1>3, SeqMonotonic DEF TypeOK
  <2>2. /\ iFd' \in [CoId' -> Fd \union {NoFd}]
        /\ conn' \in [CoId' -> Fd \union {NoFd}]
        /\ recycle' \in [CoId' -> 0 .. MAX_RECYCLE_COUNT + 1]
        /\ pc' \in [CoId' -> TaskPc]
    BY <1>1, <1>2, CocgiAssumption, SMTT(30) DEF TypeOK, TaskPc
  <2> QED BY <1>1, <1>3, <1>6, <2>1, <2>2 DEF TypeOK
<1>8. n \notin IdleTasks /\ n \notin m_usRunTask /\ n \notin released
  BY <1>1 DEF TypeOK, PoolPartition
<1>9. PoolPartition'
  BY <1>3, <1>6, <1>8 DEF PoolPartition, NoDuplicates
<1>10. StackShape' /\ Current' = Current
  BY <1>1, <1>3 DEF StackShape, Current
<1>11. TaskShape'
  BY <1>1, <1>2, <1>3, <1>6, <1>8, <1>10 DEF TaskShape
<1>12. callStack' # <<>> => FdShape'
  BY <1>1, <1>2, <1>3, Zenon DEF FdShape, Owned
<1> QED BY <1>7, <1>9, <1>10, <1>11, <1>12

LEMMA AcceptTakesInv ==
    ASSUME Inv, NEW f \in Fd, AcceptTakes(f) PROVE Inv'
<1> USE DEF Inv
<1>0. PICK t : t = Head(m_lIdleTask)
  OBVIOUS
<1>1. /\ Current = Acceptor
      /\ m_lIdleTask # <<>>
      /\ backlog > 0
      /\ sock[f] = "free"
      /\ sock' = [sock EXCEPT ![f] = "quiet"]
      /\ backlog' = backlog - 1
      /\ iFd' = [iFd EXCEPT ![t] = f]
      /\ m_lIdleTask' = Tail(m_lIdleTask)
      /\ m_usRunTask' = m_usRunTask \union {t}
      /\ pc' = [pc EXCEPT ![t] = "top"]
      /\ co_resume(t)
      /\ UNCHANGED <<m_umTask, m_uCoIndex, conn, recycle, acceptPc, released, errno>>
  BY <1>0 DEF AcceptTakes
<1>2. CoId' = CoId /\ CoId \subseteq Nat /\ f # NoFd
  BY <1>1, CocgiAssumption DEF CoId, TypeOK
<1>3. IdleTasks = Elems(m_lIdleTask) /\ IdleTasks' = Elems(m_lIdleTask')
  BY DEF IdleTasks, Elems
<1>4. NoDuplicates(m_lIdleTask) /\ m_lIdleTask \in Seq(CoId)
  BY DEF PoolPartition, NoDuplicates, TypeOK
<1>5. /\ m_lIdleTask' \in Seq(CoId)
      /\ t \in IdleTasks
      /\ IdleTasks' = IdleTasks \ {t}
      /\ NoDuplicates(m_lIdleTask')
  BY <1>0, <1>1, <1>3, <1>4, PopFront
<1>6. t \in CoId /\ pc[t] \in {"new", "idle"} /\ t \notin m_usRunTask /\ t \notin released
  BY <1>5 DEF PoolPartition, TypeOK, TaskShape
<1>7. iFd[t] = NoFd /\ conn[t] = NoFd
  BY <1>6 DEF TaskShape
<1>8. /\ StackShape'
      /\ callStack' \in Seq(CoId' \union {Main, Acceptor})
      /\ callStack' # <<>>
      /\ Current' = t
  BY <1>1, <1>6, TaskResumed
<1>9. callStack # <<>>
  BY <1>1, WhoRuns
<1>10. TypeOK'
  <2>1. backlog' \in 0 .. usListenNum
    BY <1>1, CocgiAssumption DEF TypeOK
  <2>2. /\ iFd' \in [CoId -> Fd \union {NoFd}]
        /\ pc' \in [CoId -> TaskPc]
        /\ sock' \in [Fd -> SockState]
    BY <1>1, <1>6 DEF TypeOK, TaskPc, SockState
  <2> QED BY <1>1, <1>2, <1>5, <1>6, <1>8, <2>1, <2>2, Zenon DEF TypeOK
<1>11. PoolPartition'
  BY <1>1, <1>5, <1>6 DEF PoolPartition, NoDuplicates
<1>12. TaskShape'
  BY <1>1, <1>2, <1>5, <1>6, <1>7, <1>8, <1>9, SMTT(30) DEF TaskShape, TypeOK, TaskPc
<1>13. FdShape'
  <2>1. Owned(t)' = f /\ \A u \in CoId \ {t} : Owned(u)' = Owned(u)
    BY <1>1, <1>2, <1>6 DEF Owned, TypeOK
  <2>2. Owned(t) = NoFd /\ \A u \in CoId : Owned(u) # f
    BY <1>1, <1>2, <1>7, <1>9 DEF Owned, FdShape
  <2>3. \A g \in Fd \ {f} : sock'[g] = sock[g]
    BY <1>1 DEF TypeOK
  <2>4. sock'[f] = "quiet"
    BY <1>1 DEF TypeOK
  <2>5. \A u \in CoId : Owned(u) \in Fd \union {NoFd}
    BY DEF Owned, TypeOK
  <2>6. ASSUME NEW u \in CoId', (Owned(u) # NoFd)' PROVE (sock[Owned(u)] # "free")'
    <3>1. CASE u = t
      BY <3>1, <2>1, <2>4
    <3>2. CASE u # t
      BY <3>2, <1>2, <1>9, <2>1, <2>2, <2>3, <2>5, <2>6, SMTT(30) DEF FdShape
    <3> QED BY <3>1, <3>2
  <2>7. ASSUME NEW g \in Fd, (sock[g] # "free")' PROVE \E u \in CoId' : (Owned(u) = g)'
    <3>1. CASE g = f
      BY <3>1, <1>2, <1>6, <2>1
    <3>2. CASE g # f
      <4>1. PICK u \in CoId : Owned(u) = g
        BY <3>2, <1>9, <2>3, <2>7 DEF FdShape
      <4>2. u # t
        BY <4>1, <2>2, CocgiAssumption
      <4> QED BY <4>1, <4>2, <1>2, <2>1
    <3> QED BY <3>1, <3>2
  <2>8. ASSUME NEW u \in CoId', NEW v \in CoId', (Owned(u) = Owned(v) /\ Owned(u) # NoFd)'
        PROVE  u = v
    BY <1>2, <1>9, <2>1, <2>2, <2>8 DEF FdShape
  <2> QED BY <2>6, <2>7, <2>8 DEF FdShape
<1> QED BY <1>8, <1>10, <1>11, <1>12, <1>13

LEMMA AcceptFailsInv ==
    ASSUME Inv, AcceptFails PROVE Inv'
<1> USE DEF Inv
<1>1. /\ Current = Acceptor
      /\ errno' \in Errno
      /\ AcceptPolls
      /\ UNCHANGED <<m_umTask, m_lIdleTask, m_usRunTask, m_uCoIndex, iFd, conn, recycle,
                     pc, released, sock, backlog>>
  BY DEF AcceptFails, poolVars, taskVars, envVars, Errno
<1>2. CoId' = CoId /\ IdleTasks' = IdleTasks /\ PoolPartition'
  BY <1>1, PoolUnchanged DEF poolVars
<1>3. CoId \subseteq Nat
  BY DEF CoId, TypeOK
<1>4. CASE acceptPc' = "poll" /\ co_yield_env
  <2>1. Len(callStack) = 2 /\ callStack[1] = Main /\ callStack # <<>>
    BY <1>1, WhoRuns DEF StackShape
  <2>2. /\ callStack' \in Seq(CoId' \union {Main, Acceptor})
        /\ Len(callStack') = 1
        /\ callStack'[1] = Main
    BY <1>2, <1>4, <2>1, StackPop DEF TypeOK, co_yield_env
  <2>3. StackShape' /\ callStack' # <<>> /\ Current' = Main
    BY <1>4, <2>2, EmptySeq, SMTT(30) DEF StackShape, Current
  <2>4. TypeOK'
    BY <1>1, <1>2, <1>4, <2>2 DEF TypeOK
  <2>5. TaskShape'
    BY <1>1, <1>2, <1>3, <2>1, <2>3, SMTT(30) DEF TaskShape
  <2>6. FdShape'
    BY <1>1, <1>2, <2>1 DEF FdShape, Owned
  <2> QED BY <1>2, <2>3, <2>4, <2>5, <2>6
<1>5. CASE UNCHANGED <<acceptPc, callStack>>
  <2>1. TypeOK' /\ StackShape' /\ Current' = Current
    BY <1>1, <1>2, <1>5, SMTT(30) DEF TypeOK, StackShape, Current
  <2>2. TaskShape' /\ (callStack' # <<>> => FdShape')
    BY <1>1, <1>2, <1>5, <2>1 DEF TaskShape, FdShape, Owned
  <2> QED BY <1>2, <2>1, <2>2
<1> QED BY <1>1, <1>4, <1>5 DEF AcceptPolls

LEMMA ResumeAcceptorInv ==
    ASSUME Inv, ResumeAcceptor PROVE Inv'
<1> USE DEF Inv
<1>1. /\ Current = Main
      /\ acceptPc' = "loop"
      /\ co_resume(Acceptor)
      /\ UNCHANGED <<m_umTask, m_lIdleTask, m_usRunTask, m_uCoIndex, iFd, conn, recycle,
                     pc, released, errno, sock, backlog>>
  BY DEF ResumeAcceptor, poolVars, taskVars, envVars
<1>2. CoId' = CoId /\ IdleTasks' = IdleTasks /\ PoolPartition'
  BY <1>1, PoolUnchanged DEF poolVars
<1>3. CoId \subseteq Nat
  BY DEF CoId, TypeOK
<1>4. Len(callStack) = 1 /\ callStack[1] = Main /\ callStack # <<>>
  BY <1>1, WhoRuns DEF StackShape
<1>5. /\ callStack' \in Seq(CoId' \union {Main, Acceptor})
      /\ Len(callStack') = 2
      /\ callStack'[1] = Main
      /\ callStack'[2] = Acceptor
  <2>1. Acceptor \in CoId \union {Main, Acceptor}
    OBVIOUS
  <2>2. /\ Append(callStack, Acceptor) \in Seq(CoId \union {Main, Acceptor})
        /\ Len(Append(callStack, Acceptor)) = Len(callStack) + 1
        /\ \A i \in 1 .. Len(callStack) : Append(callStack, Acceptor)[i] = callStack[i]
        /\ Append(callStack, Acceptor)[Len(callStack) + 1] = Acceptor
    BY <2>1, StackPush DEF TypeOK
  <2> QED BY <1>1, <1>2, <1>4, <2>2 DEF co_resume
<1>6. StackShape' /\ callStack' # <<>> /\ Current' = Acceptor
  BY <1>1, <1>5, EmptySeq DEF StackShape, Current
<1>7. TypeOK'
  BY <1>1, <1>2, <1>5 DEF TypeOK
<1>8. TaskShape'
  BY <1>1, <1>2, <1>3, <1>4, <1>6, SMTT(30) DEF TaskShape
<1>9. FdShape'
  BY <1>1, <1>2, <1>4 DEF FdShape, Owned
<1> QED BY <1>2, <1>6, <1>7, <1>8, <1>9

LEMMA ResumeTaskInv ==
    ASSUME Inv, NEW t \in CoId, ResumeTask(t) PROVE Inv'
<1> USE DEF Inv
<1>1. /\ Current = Main
      /\ pc[t] = "poll"
      /\ pc' = [pc EXCEPT ![t] = "read"]
      /\ co_resume(t)
      /\ UNCHANGED <<m_umTask, m_lIdleTask, m_usRunTask, m_uCoIndex, iFd, conn, recycle,
                     acceptPc, released, errno, sock, backlog>>
  BY DEF ResumeTask, poolVars, envVars
<1>2. CoId' = CoId /\ IdleTasks' = IdleTasks /\ PoolPartition'
  BY <1>1, PoolUnchanged DEF poolVars
<1>3. CoId \subseteq Nat
  BY DEF CoId, TypeOK
<1>4. /\ StackShape'
      /\ callStack' \in Seq(CoId' \union {Main, Acceptor})
      /\ callStack' # <<>>
      /\ Current' = t
  BY <1>1, TaskResumed
<1>5. callStack # <<>>
  BY <1>1, WhoRuns
<1>6. TypeOK'
  BY <1>1, <1>2, <1>4 DEF TypeOK, TaskPc
<1>7. TaskShape'
  BY <1>1, <1>2, <1>3, <1>4, <1>5, SMTT(30) DEF TaskShape, TypeOK
<1>8. FdShape'
  BY <1>1, <1>2, <1>5 DEF FdShape, Owned
<1> QED BY <1>2, <1>4, <1>6, <1>7, <1>8

\* A step that moves no descriptor between tasks and opens or closes none
\* keeps tasks and connections in correspondence.
LEMMA FdsUnchanged ==
    ASSUME FdShape, CoId' = CoId,
           \A u \in CoId : Owned(u)' = Owned(u),
           \A u \in CoId : Owned(u) \in Fd \union {NoFd},
           \A g \in Fd : sock'[g] = "free" <=> sock[g] = "free"
    PROVE  FdShape'
<1>1. ASSUME NEW u \in CoId', (Owned(u) # NoFd)' PROVE (sock[Owned(u)] # "free")'
  BY <1>1 DEF FdShape
<1>2. ASSUME NEW g \in Fd, (sock[g] # "free")' PROVE \E u \in CoId' : (Owned(u) = g)'
  BY <1>2 DEF FdShape
<1>3. ASSUME NEW u \in CoId', NEW v \in CoId', (Owned(u) = Owned(v) /\ Owned(u) # NoFd)'
      PROVE  u = v
  BY <1>3 DEF FdShape
<1> QED BY <1>1, <1>2, <1>3 DEF FdShape

\* A task's co_poll suspends it, or returns at once and leaves it running.
LEMMA TaskPollsEffect ==
    ASSUME TypeOK, StackShape, NEW t \in CoId, Current = t, TaskPolls(t),
           acceptPc' = acceptPc, m_uCoIndex' = m_uCoIndex
    PROVE  /\ StackShape'
           /\ callStack' \in Seq(CoId' \union {Main, Acceptor})
           /\ callStack' # <<>>
           /\ \/ pc' = [pc EXCEPT ![t] = "poll"] /\ Current' \in {Main, Acceptor}
              \/ pc' = [pc EXCEPT ![t] = "read"] /\ Current' = t
<1>1. CASE pc' = [pc EXCEPT ![t] = "poll"] /\ co_yield_env
  BY <1>1, TaskYields
<1>2. CASE pc' = [pc EXCEPT ![t] = "read"] /\ UNCHANGED callStack
  <2>1. CoId' = CoId /\ CoId \subseteq Nat
    BY DEF CoId, TypeOK
  <2>2. callStack # <<>>
    BY <2>1, WhoRuns
  <2>3. StackShape' /\ Current' = Current
    BY <1>2, <2>1 DEF StackShape, Current
  <2>4. callStack' \in Seq(CoId' \union {Main, Acceptor})
    BY <1>2, <2>1 DEF TypeOK
  <2> QED BY <1>2, <2>2, <2>3, <2>4
<1> QED BY <1>1, <1>2 DEF TaskPolls
==============================================================================
