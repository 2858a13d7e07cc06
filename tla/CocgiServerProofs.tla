-------------------------- MODULE CocgiServerProofs --------------------------
(***************************************************************************)
(* Safety of one cocgi worker process, for pools of every size: the task   *)
(* coroutines preserve the invariant of CocgiServerInv too, and the properties *)
(* the runs check follow from it.                                          *)
(***************************************************************************)
EXTENDS CocgiServerInv

USE DEF NoFd, Main, Acceptor, NoCo

-----------------------------------------------------------------------------
(* The steps of a task coroutine, of the environment, and the end of the process *)

LEMMA TaskStartsInv ==
    ASSUME Inv, NEW t \in CoId, TaskStarts(t) PROVE Inv'
<1> USE DEF Inv
<1>1. /\ Current = t
      /\ pc[t] = "top"
      /\ iFd[t] # NoFd
      /\ conn' = [conn EXCEPT ![t] = iFd[t]]
      /\ iFd' = [iFd EXCEPT ![t] = NoFd]
      /\ recycle' = [recycle EXCEPT ![t] = 0]
      /\ TaskPolls(t)
      /\ UNCHANGED <<m_umTask, m_lIdleTask, m_usRunTask, m_uCoIndex, acceptPc, released,
                     errno, sock, backlog>>
  BY DEF TaskStarts, poolVars, envVars
<1>2. CoId' = CoId /\ IdleTasks' = IdleTasks /\ PoolPartition'
  BY <1>1, PoolUnchanged DEF poolVars
<1>3. CoId \subseteq Nat
  BY DEF CoId, TypeOK
<1>4. /\ StackShape'
      /\ callStack' \in Seq(CoId' \union {Main, Acceptor})
      /\ callStack' # <<>>
      /\ \/ pc' = [pc EXCEPT ![t] = "poll"] /\ Current' \in {Main, Acceptor}
         \/ pc' = [pc EXCEPT ![t] = "read"] /\ Current' = t
  BY <1>1, TaskPollsEffect
<1>5. callStack # <<>>
  BY <1>1, <1>3, WhoRuns
<1>6. TypeOK'
  <2>1. recycle' \in [CoId -> 0 .. MAX_RECYCLE_COUNT + 1]
    BY <1>1, CocgiAssumption DEF TypeOK
  <2> QED BY <1>1, <1>2, <1>4, <2>1, Zenon DEF TypeOK, TaskPc
<1>7. TaskShape'
  BY <1>1, <1>2, <1>3, <1>4, <1>5, CocgiAssumption DEF TaskShape, TypeOK
<1>8. FdShape'
  <2>1. \A u \in CoId : Owned(u)' = Owned(u) /\ Owned(u) \in Fd \union {NoFd}
    BY <1>1 DEF TaskShape, TypeOK, Owned
  <2> QED BY <1>1, <1>2, <1>5, <2>1, FdsUnchanged
<1> QED BY <1>2, <1>4, <1>6, <1>7, <1>8

LEMMA TaskReadsInv ==
    ASSUME Inv, NEW t \in CoId, TaskReads(t) PROVE Inv'
<1> USE DEF Inv
<1>1. /\ Current = t
      /\ pc[t] = "read"
      /\ sock' = [sock EXCEPT ![conn[t]] = Drained(@)]
      /\ TaskPolls(t)
      /\ UNCHANGED <<m_umTask, m_lIdleTask, m_usRunTask, m_uCoIndex, iFd, conn, acceptPc,
                     released, backlog>>
  BY Zenon DEF TaskReads, poolVars
<1>2. /\ errno' \in Errno
      /\ \/ recycle' = [recycle EXCEPT ![t] = 0]
         \/ recycle[t] < MAX_RECYCLE_COUNT /\ recycle' = [recycle EXCEPT ![t] = @ + 1]
  BY DEF TaskReads, readData, TypeOK, Errno
<1>3. CoId' = CoId /\ IdleTasks' = IdleTasks /\ PoolPartition'
  BY <1>1, PoolUnchanged DEF poolVars
<1>4. CoId \subseteq Nat
  BY DEF CoId, TypeOK
<1>5. /\ StackShape'
      /\ callStack' \in Seq(CoId' \union {Main, Acceptor})
      /\ callStack' # <<>>
      /\ \/ pc' = [pc EXCEPT ![t] = "poll"] /\ Current' \in {Main, Acceptor}
         \/ pc' = [pc EXCEPT ![t] = "read"] /\ Current' = t
  BY <1>1, TaskPollsEffect
<1>6. callStack # <<>>
  BY <1>1, <1>4, WhoRuns
<1>7. /\ sock' \in [Fd -> SockState]
      /\ \A g \in Fd : sock'[g] = "free" <=> sock[g] = "free"
  BY <1>1, Zenon DEF TypeOK, Drained, SockState
<1>8. /\ recycle' \in [CoId -> 0 .. MAX_RECYCLE_COUNT + 1]
      /\ recycle'[t] <= MAX_RECYCLE_COUNT
      /\ \A u \in CoId \ {t} : recycle'[u] = recycle[u]
  <2>1. recycle[t] \in Nat
    BY CocgiAssumption DEF TypeOK
  <2>2. CASE recycle' = [recycle EXCEPT ![t] = 0]
    BY <2>2, CocgiAssumption DEF TypeOK
  <2>3. CASE recycle[t] < MAX_RECYCLE_COUNT /\ recycle' = [recycle EXCEPT ![t] = @ + 1]
    BY <2>1, <2>3, CocgiAssumption DEF TypeOK
  <2> QED BY <1>2, <2>2, <2>3
<1>9. TypeOK'
  BY <1>1, <1>2, <1>3, <1>5, <1>7, <1>8, Zenon DEF TypeOK, TaskPc
<1>10. TaskShape'
  BY <1>1, <1>3, <1>4, <1>5, <1>6, <1>8 DEF TaskShape, TypeOK
<1>11. FdShape'
  <2>1. \A u \in CoId : Owned(u)' = Owned(u) /\ Owned(u) \in Fd \union {NoFd}
    BY <1>1 DEF TypeOK, Owned
  <2> QED BY <1>3, <1>6, <1>7, <2>1, FdsUnchanged
<1> QED BY <1>3, <1>5, <1>9, <1>10, <1>11

LEMMA TaskClosesInv ==
    ASSUME Inv, NEW t \in CoId, TaskCloses(t) PROVE Inv'
<1> USE DEF Inv
<1>1. /\ Current = t
      /\ pc[t] = "read"
      /\ sock' = [sock EXCEPT ![conn[t]] = "free"]
      /\ conn' = [conn EXCEPT ![t] = NoFd]
      /\ pc' = [pc EXCEPT ![t] = "top"]
      /\ UNCHANGED <<m_umTask, m_lIdleTask, m_usRunTask, m_uCoIndex, iFd, acceptPc,
                     callStack, released, backlog>>
  BY DEF TaskCloses, poolVars
<1>2. /\ errno' \in Errno
      /\ recycle' \in [CoId -> 0 .. MAX_RECYCLE_COUNT + 1]
      /\ \A u \in CoId \ {t} : recycle'[u] = recycle[u]
  <2>1. recycle' = recycle \/ recycle' = [recycle EXCEPT ![t] = @ + 1]
    BY DEF TaskCloses
  <2>2. recycle[t] \in 0 .. MAX_RECYCLE_COUNT
    BY <1>1, CocgiAssumption DEF TaskShape, TypeOK
  <2>3. errno' \in Errno
    BY DEF TaskCloses, readData, TypeOK, Errno
  <2>4. CASE recycle' = recycle
    BY <2>3, <2>4 DEF TypeOK
  <2>5. CASE recycle' = [recycle EXCEPT ![t] = @ + 1]
    <3>1. recycle[t] + 1 \in 0 .. MAX_RECYCLE_COUNT + 1
      BY <2>2, CocgiAssumption
    <3> QED BY <2>3, <2>5, <3>1 DEF TypeOK
  <2> QED BY <2>1, <2>4, <2>5
<1>3. CoId' = CoId /\ IdleTasks' = IdleTasks /\ PoolPartition'
  BY <1>1, PoolUnchanged DEF poolVars
<1>4. CoId \subseteq Nat
  BY DEF CoId, TypeOK
<1>5. callStack # <<>>
  BY <1>1, <1>4, WhoRuns
<1>6. StackShape' /\ Current' = Current
  BY <1>1, <1>3 DEF StackShape, Current
<1>7. TypeOK'
  BY <1>1, <1>2, <1>3, Zenon DEF TypeOK, TaskPc, SockState
<1>8. TaskShape'
  BY <1>1, <1>2, <1>3, <1>4, <1>5, <1>6 DEF TaskShape, TypeOK
<1>9. FdShape'
  <2>1. conn[t] # NoFd /\ iFd[t] = NoFd /\ conn[t] \in Fd
    BY <1>1 DEF TaskShape, TypeOK
  <2>2. Owned(t) = conn[t] /\ Owned(t)' = NoFd
    BY <1>1, <2>1 DEF Owned, TypeOK
  <2>3. \A u \in CoId \ {t} : Owned(u)' = Owned(u)
    BY <1>1 DEF Owned, TypeOK
  <2>4. /\ \A g \in Fd \ {conn[t]} : sock'[g] = sock[g]
        /\ sock'[conn[t]] = "free"
    BY <1>1, <2>1 DEF TypeOK
  <2>5. \A u \in CoId : Owned(u) \in Fd \union {NoFd}
    BY DEF Owned, TypeOK
  <2>6. ASSUME NEW u \in CoId', (Owned(u) # NoFd)' PROVE (sock[Owned(u)] # "free")'
    <3>1. u \in CoId /\ u # t
      BY <1>3, <2>2, <2>6
    <3>2. Owned(u) # NoFd /\ Owned(u) # conn[t] /\ Owned(u) \in Fd
      BY <1>5, <2>1, <2>2, <2>3, <2>5, <2>6, <3>1, SMTT(30) DEF FdShape
    <3> QED BY <1>5, <2>3, <2>4, <3>1, <3>2 DEF FdShape
  <2>7. ASSUME NEW g \in Fd, (sock[g] # "free")' PROVE \E u \in CoId' : (Owned(u) = g)'
    <3>1. g # conn[t] /\ sock[g] # "free"
      BY <2>4, <2>7
    <3>2. PICK u \in CoId : Owned(u) = g
      BY <1>5, <3>1 DEF FdShape
    <3>3. u # t
      BY <2>2, <3>1, <3>2
    <3> QED BY <1>3, <2>3, <3>2, <3>3
  <2>8. ASSUME NEW u \in CoId', NEW v \in CoId', (Owned(u) = Owned(v) /\ Owned(u) # NoFd)'
        PROVE  u = v
    BY <1>3, <1>5, <2>2, <2>3, <2>8 DEF FdShape
  <2> QED BY <2>6, <2>7, <2>8 DEF FdShape
<1> QED BY <1>3, <1>6, <1>7, <1>8, <1>9

LEMMA TaskIdlesInv ==
    ASSUME Inv, NEW t \in CoId, TaskIdles(t) PROVE Inv'
<1> USE DEF Inv
<1>1. /\ Current = t
      /\ pc[t] = "top"
      /\ iFd[t] = NoFd
      /\ m_lIdleTask' = <<t>> \o m_lIdleTask
      /\ m_usRunTask' = m_usRunTask \ {t}
      /\ pc' = [pc EXCEPT ![t] = "idle"]
      /\ co_yield_env
      /\ UNCHANGED <<m_umTask, m_uCoIndex, iFd, conn, recycle, acceptPc, released, errno,
                     sock, backlog>>
  BY DEF TaskIdles, envVars
<1>2. CoId' = CoId /\ CoId \subseteq Nat
  BY <1>1 DEF CoId, TypeOK
<1>3. IdleTasks = Elems(m_lIdleTask) /\ IdleTasks' = Elems(m_lIdleTask')
  BY DEF IdleTasks, Elems
<1>4. t \in m_usRunTask /\ t \notin IdleTasks /\ conn[t] = NoFd /\ t \notin released
  BY <1>1 DEF TaskShape
<1>5. /\ m_lIdleTask' \in Seq(CoId)
      /\ IdleTasks' = IdleTasks \union {t}
      /\ NoDuplicates(m_lIdleTask')
  <2>1. m_lIdleTask \in Seq(CoId) /\ NoDuplicates(m_lIdleTask)
    BY DEF TypeOK, PoolPartition, NoDuplicates
  <2>2. /\ <<t>> \o m_lIdleTask \in Seq(CoId)
        /\ Elems(<<t>> \o m_lIdleTask) = Elems(m_lIdleTask) \union {t}
        /\ NoDuplicates(<<t>> \o m_lIdleTask)
    BY <1>3, <1>4, <2>1, PushFront
  <2> QED BY <1>1, <1>3, <2>2, Zenon
<1>6. /\ StackShape'
      /\ callStack' \in Seq(CoId' \union {Main, Acceptor})
      /\ callStack' # <<>>
      /\ Current' \in {Main, Acceptor}
  BY <1>1, TaskYields
<1>7. callStack # <<>>
  BY <1>1, <1>2, WhoRuns
<1>8. TypeOK'
  BY <1>1, <1>2, <1>5, <1>6, Zenon DEF TypeOK, TaskPc
<1>9. PoolPartition'
  BY <1>1, <1>4, <1>5 DEF PoolPartition, NoDuplicates
<1>10. TaskShape'
  BY <1>1, <1>2, <1>4, <1>5, <1>6, <1>7, SMTT(30) DEF TaskShape, TypeOK
<1>11. FdShape'
  BY <1>1, <1>2, <1>7 DEF FdShape, Owned
<1> QED BY <1>6, <1>8, <1>9, <1>10, <1>11

LEMMA TaskRetiresInv ==
    ASSUME Inv, NEW t \in CoId, TaskRetires(t) PROVE Inv'
<1> USE DEF Inv
<1>1. /\ Current = t
      /\ pc[t] = "top"
      /\ iFd[t] = NoFd
      /\ m_usRunTask' = m_usRunTask \ {t}
      /\ m_umTask' = m_umTask \ {t}
      /\ pc' = [pc EXCEPT ![t] = "ended"]
      /\ released' = released \union {t}
      /\ UNCHANGED <<m_lIdleTask, m_uCoIndex, iFd, conn, recycle, acceptPc, callStack, errno,
                     sock, backlog>>
  BY DEF TaskRetires, envVars
<1>2. CoId' = CoId /\ CoId \subseteq Nat /\ IdleTasks' = IdleTasks
  BY <1>1, SMTT(30) DEF CoId, TypeOK, IdleTasks
<1>3. t \in m_usRunTask /\ t \notin IdleTasks /\ conn[t] = NoFd
  BY <1>1 DEF TaskShape
<1>4. callStack # <<>>
  BY <1>1, <1>2, WhoRuns
<1>5. StackShape' /\ Current' = Current
  BY <1>1, <1>2 DEF StackShape, Current
<1>6. TypeOK'
  BY <1>1, <1>2, SMTT(30) DEF TypeOK, TaskPc
<1>7. PoolPartition'
  BY <1>1, <1>2, <1>3 DEF PoolPartition
<1>8. TaskShape'
  BY <1>1, <1>2, <1>3, <1>4, <1>5, SMTT(30) DEF TaskShape, TypeOK
<1>9. FdShape'
  BY <1>1, <1>2, <1>4 DEF FdShape, Owned
<1> QED BY <1>5, <1>6, <1>7, <1>8, <1>9

LEMMA CoRoutineFuncEndsInv ==
    ASSUME Inv, NEW t \in CoId, CoRoutineFuncEnds(t) PROVE Inv'
<1> USE DEF Inv
<1>1. /\ Current = t
      /\ pc[t] = "ended"
      /\ co_yield_env
      /\ UNCHANGED <<m_umTask, m_lIdleTask, m_usRunTask, m_uCoIndex, iFd, conn, recycle, pc,
                     acceptPc, released, errno, sock, backlog>>
  BY DEF CoRoutineFuncEnds, poolVars, taskVars, envVars
<1>2. CoId' = CoId /\ IdleTasks' = IdleTasks /\ PoolPartition'
  BY <1>1, PoolUnchanged DEF poolVars
<1>3. CoId \subseteq Nat
  BY DEF CoId, TypeOK
<1>4. callStack # <<>>
  BY <1>1, <1>3, WhoRuns
<1>5. /\ StackShape'
      /\ callStack' \in Seq(CoId' \union {Main, Acceptor})
      /\ callStack' # <<>>
      /\ Current' \in {Main, Acceptor}
  BY <1>1, TaskYields
<1>6. TypeOK'
  BY <1>1, <1>2, <1>5 DEF TypeOK
<1>7. TaskShape'
  BY <1>1, <1>2, <1>3, <1>4, <1>5, SMTT(30) DEF TaskShape
<1>8. FdShape'
  BY <1>1, <1>2, <1>4 DEF FdShape, Owned
<1> QED BY <1>2, <1>5, <1>6, <1>7, <1>8

LEMMA ProcessDiesInv ==
    ASSUME Inv, NEW t \in CoId, ProcessDies(t) PROVE Inv'
<1> USE DEF Inv
<1>1. /\ callStack' = <<>>
      /\ sock' = [f \in Fd |-> "free"]
      /\ UNCHANGED <<m_umTask, m_lIdleTask, m_usRunTask, m_uCoIndex, iFd, conn, recycle, pc,
                     acceptPc, released, errno, backlog>>
  BY DEF ProcessDies, poolVars, taskVars
<1>2. CoId' = CoId /\ IdleTasks' = IdleTasks /\ PoolPartition'
  BY <1>1, PoolUnchanged DEF poolVars
<1>3. CoId \subseteq Nat
  BY DEF CoId, TypeOK
<1>4. StackShape' /\ callStack' \in Seq(CoId' \union {Main, Acceptor}) /\ Current' = NoCo
  BY <1>1, EmptySeq DEF StackShape, Current
<1>5. TypeOK'
  BY <1>1, <1>2, <1>4 DEF TypeOK, SockState
<1>6. TaskShape'
  BY <1>1, <1>2, <1>3, <1>4 DEF TaskShape
<1> QED BY <1>1, <1>2, <1>4, <1>5, <1>6

LEMMA PeerNextInv ==
    ASSUME Inv, PeerNext PROVE Inv'
<1> USE DEF Inv
<1>1. UNCHANGED <<poolVars, taskVars, coVars, errno>>
  BY DEF PeerNext, PeerConnects, OtherProcessAccepts, PeerSends, PeerShuts, PeerResets,
         PeerStep
<1>2. UNCHANGED <<m_umTask, m_lIdleTask, m_usRunTask, m_uCoIndex, iFd, conn, recycle, pc,
                  acceptPc, callStack, released, errno>>
  BY <1>1 DEF poolVars, taskVars, coVars
<1>3. CoId' = CoId /\ IdleTasks' = IdleTasks /\ PoolPartition'
  BY <1>1, PoolUnchanged
<1>4. /\ sock' \in [Fd -> SockState]
      /\ \A g \in Fd : sock'[g] = "free" <=> sock[g] = "free"
      /\ backlog' \in 0 .. usListenNum
  <2>1. CASE PeerConnects \/ OtherProcessAccepts
    BY <2>1, CocgiAssumption DEF PeerConnects, OtherProcessAccepts, TypeOK
  <2>2. ASSUME NEW f \in Fd, NEW from, NEW to \in SockState \ {"free"},
               "free" \notin from, PeerStep(f, from, to)
        PROVE  <1>4
    BY <2>2 DEF PeerStep, TypeOK
  <2>3. ASSUME NEW f \in Fd, PeerSends(f) \/ PeerShuts(f) \/ PeerResets(f)
        PROVE  <1>4
    BY <2>2, <2>3 DEF PeerSends, PeerShuts, PeerResets, SockState
  <2> QED BY <2>1, <2>3 DEF PeerNext
<1>5. StackShape' /\ Current' = Current /\ (callStack' = <<>> <=> callStack = <<>>)
  BY <1>2, <1>3 DEF StackShape, Current
<1>6. TypeOK'
  BY <1>2, <1>3, <1>4 DEF TypeOK
<1>7. TaskShape'
  BY <1>2, <1>3, <1>5 DEF TaskShape
<1>8. callStack # <<>> => FdShape'
  <2>1. \A u \in CoId : Owned(u)' = Owned(u) /\ Owned(u) \in Fd \union {NoFd}
    BY <1>2, SMTT(30) DEF TypeOK, Owned
  <2> QED BY <1>3, <1>4, <2>1, FdsUnchanged
<1> QED BY <1>3, <1>5, <1>6, <1>7, <1>8

LEMMA StutterInv ==
    ASSUME Inv, UNCHANGED vars PROVE Inv'
<1>1. UNCHANGED <<m_umTask, m_lIdleTask, m_usRunTask, m_uCoIndex, iFd, conn, recycle, pc,
                  acceptPc, callStack, released, errno, sock, backlog>>
  BY DEF vars, poolVars, taskVars, coVars, envVars
<1>2. CoId' = CoId /\ IdleTasks' = IdleTasks /\ Current' = Current
  BY <1>1 DEF CoId, IdleTasks, Current
<1> QED BY <1>1, <1>2 DEF Inv, TypeOK, PoolPartition, StackShape, TaskShape, FdShape, Owned

LEMMA NextInv == Inv /\ [Next]_vars => Inv'
<1> SUFFICES ASSUME Inv, [Next]_vars PROVE Inv'
  OBVIOUS
<1>1. CASE AcceptStep
  <2>1. CASE AcceptCreates
    BY <2>1, AcceptCreatesInv
  <2>2. CASE AcceptSpins
    BY <2>2, StutterInv DEF AcceptSpins
  <2>3. ASSUME NEW f \in Fd, AcceptTakes(f) PROVE Inv'
    BY <2>3, AcceptTakesInv
  <2>4. CASE AcceptFails
    BY <2>4, AcceptFailsInv
  <2> QED BY <1>1, <2>1, <2>2, <2>3, <2>4 DEF AcceptStep
<1>2. CASE ResumeAcceptor
  BY <1>2, ResumeAcceptorInv
<1>3. ASSUME NEW t \in CoId, ResumeTask(t) PROVE Inv'
  BY <1>3, ResumeTaskInv
<1>4. ASSUME NEW t \in CoId, TaskStep(t) PROVE Inv'
  BY <1>4, TaskStartsInv, TaskReadsInv, TaskClosesInv, TaskIdlesInv, TaskRetiresInv,
     CoRoutineFuncEndsInv, ProcessDiesInv, SMTT(30) DEF TaskStep
<1>5. CASE PeerNext
  BY <1>5, PeerNextInv
<1>6. CASE UNCHANGED vars
  BY <1>6, StutterInv
<1> QED BY <1>1, <1>2, <1>3, <1>4, <1>5, <1>6 DEF Next

LEMMA InvHolds == Spec => []Inv
BY InitInv, NextInv, PTL DEF Spec

-----------------------------------------------------------------------------
(* The theorems *)

\* Every reachable state of the process is well typed: in particular recycle
\* never exceeds MAX_RECYCLE_COUNT + 1 and every id in a container is a task's.
THEOREM TypeCorrect == Spec => []TypeOK
<1>1. Inv => TypeOK
  BY DEF Inv
<1> QED BY InvHolds, <1>1, PTL

\* The idle list, the running set and the task map agree in every state, for
\* pools of any configured size.
THEOREM PoolIsPartitioned == Spec => []PoolPartition
<1>1. Inv => PoolPartition
  BY DEF Inv
<1> QED BY InvHolds, <1>1, PTL

\* A task on a call stack is at the top of it.
LEMMA OnStack ==
    ASSUME TypeOK, StackShape, NEW t \in CoId, NEW i \in 1 .. Len(callStack),
           callStack[i] = t
    PROVE  i = Len(callStack) /\ Current = t
<1>1. CoId \subseteq Nat /\ Len(callStack) \in Nat /\ callStack # <<>>
  BY LenProperties, EmptySeq DEF TypeOK, CoId
<1> QED BY <1>1 DEF StackShape, Current

\* AcceptRoutine may take the front idle task in every state.
THEOREM IdleTasksAreReady == Spec => []IdleTaskIsReady
<1>1. Inv => IdleTaskIsReady
  <2> SUFFICES ASSUME Inv, NEW t \in IdleTasks
               PROVE  /\ Owned(t) = NoFd
                      /\ pc[t] \in {"new", "idle"}
                      /\ \A i \in 1 .. Len(callStack) : callStack[i] # t
    BY DEF IdleTaskIsReady
  <2>1. t \in CoId
    BY DEF Inv, PoolPartition, TypeOK
  <2>2. /\ pc[t] \in {"new", "idle"}
        /\ iFd[t] = NoFd
        /\ conn[t] = NoFd
        /\ Current # t
    BY <2>1 DEF Inv, TaskShape
  <2>3. \A i \in 1 .. Len(callStack) : callStack[i] # t
    BY <2>1, <2>2, OnStack, SMTT(30) DEF Inv
  <2> QED BY <2>2, <2>3 DEF Owned
<1> QED BY InvHolds, <1>1, PTL

\* No connection is leaked, shared by two tasks, or held by a task after its
\* descriptor was closed.
THEOREM ConnectionsHaveOneOwner == Spec => []OneOwnerPerConnection
<1>1. Inv => OneOwnerPerConnection
  <2> SUFFICES ASSUME Inv, callStack # <<>> PROVE OneOwnerPerConnection
    BY DEF OneOwnerPerConnection
  <2>1. \A t \in CoId : Owned(t) # NoFd => t \in m_usRunTask
    BY DEF Inv, TaskShape, Owned
  <2> QED BY <2>1 DEF Inv, FdShape, OneOwnerPerConnection
<1> QED BY InvHolds, <1>1, PTL

\* The call stack never holds more than three coroutines, and none twice, so
\* pCallStack[128] needs no bounds check here.
THEOREM CallStackIsDisciplined == Spec => []CallStackDiscipline
<1>1. Inv => CallStackDiscipline
  <2> SUFFICES ASSUME Inv, callStack # <<>> PROVE CallStackDiscipline
    BY DEF CallStackDiscipline
  <2> USE DEF Inv
  <2>1. Len(callStack) \in 1 .. 3 /\ callStack[1] = Main
    BY WhoRuns DEF StackShape
  <2>2. CoId \subseteq Nat
    BY DEF CoId, TypeOK
  <2>3. \A i, j \in 1 .. Len(callStack) : callStack[i] = callStack[j] => i = j
    BY <2>1, <2>2 DEF StackShape
  <2>4. (\E i \in 1 .. Len(callStack) : callStack[i] = Acceptor) <=> acceptPc = "loop"
    BY <2>1, <2>2 DEF StackShape
  <2>5. \A t \in CoId : pc[t] \in {"top", "read"} => Current = t /\ t \in m_usRunTask
    BY DEF TaskShape
  <2> QED BY <2>1, <2>3, <2>4, <2>5 DEF CallStackDiscipline
<1> QED BY InvHolds, <1>1, PTL

-----------------------------------------------------------------------------
(* The size of the pool *)

\* No task is retired unless the pool started above its maximum, and then no
\* task is ever added.
SizeInv ==
    /\ IsFiniteSet(m_umTask)
    /\ PoolWithinBounds
    /\ m_usCoroutineCount <= m_uCoIndex
    /\ \/ m_umTask = CoId
       \/ m_uCoIndex = m_usCoroutineCount /\ m_usMaxCoroutineCount <= Cardinality(m_umTask)
    /\ m_usCoroutineCount <= m_usMaxCoroutineCount => released = {}

LEMMA InitSize == Init => SizeInv
<1> SUFFICES ASSUME Init PROVE SizeInv
  OBVIOUS
<1>1. CoId = 0 .. m_usCoroutineCount - 1
  BY DEF Init, CoId
<1>2. IsFiniteSet(CoId) /\ Cardinality(CoId) = m_usCoroutineCount
  BY <1>1, FS_Interval, CocgiAssumption
<1> QED BY <1>2, CocgiAssumption DEF Init, SizeInv, PoolWithinBounds

LEMMA NextSize == Inv /\ SizeInv /\ [Next]_vars => SizeInv'
<1> SUFFICES ASSUME Inv, SizeInv, [Next]_vars PROVE SizeInv'
  OBVIOUS
<1> DEFINE n == Cardinality(m_umTask)
<1>1. m_uCoIndex \in Nat /\ n \in Nat /\ m_umTask \subseteq CoId
  BY FS_CardinalityType DEF Inv, TypeOK, SizeInv
<1>2. CASE UNCHANGED <<m_umTask, m_uCoIndex, released>>
  BY <1>2 DEF SizeInv, PoolWithinBounds, CoId
<1>3. CASE AcceptCreates
  <2>1. /\ n < m_usMaxCoroutineCount
        /\ m_uCoIndex' = m_uCoIndex + 1
        /\ m_umTask' = m_umTask \union {m_uCoIndex}
        /\ released' = released
    BY <1>3 DEF AcceptCreates, CreateCocgiTask, coVars
  <2>2. m_umTask = CoId /\ m_usCoroutineCount <= n
    BY <1>1, <2>1, CocgiAssumption DEF SizeInv, PoolWithinBounds
  <2>3. CoId' = CoId \union {m_uCoIndex} /\ m_uCoIndex \notin CoId
    BY <1>1, <2>1 DEF CoId
  <2>4. IsFiniteSet(m_umTask') /\ Cardinality(m_umTask') = n + 1
    BY <2>1, <2>2, <2>3, FS_AddElement DEF SizeInv
  <2> QED BY <1>1, <2>1, <2>2, <2>3, <2>4, CocgiAssumption, SMTT(30) DEF SizeInv, PoolWithinBounds
<1>4. ASSUME NEW t \in CoId, TaskRetires(t) PROVE SizeInv'
  <2>1. /\ n > m_usMaxCoroutineCount
        /\ m_umTask' = m_umTask \ {t}
        /\ m_uCoIndex' = m_uCoIndex
        /\ t \in m_umTask
    BY <1>4 DEF TaskRetires, Inv, TaskShape, PoolPartition
  <2>2. IsFiniteSet(m_umTask') /\ Cardinality(m_umTask') = n - 1
    BY <2>1, FS_RemoveElement DEF SizeInv
  <2>3. n <= m_usCoroutineCount /\ m_usMaxCoroutineCount < m_usCoroutineCount
    BY <1>1, <2>1, CocgiAssumption DEF SizeInv, PoolWithinBounds
  <2>4. m_umTask = CoId => n = m_uCoIndex
    BY <1>1, FS_Interval DEF CoId
  <2>5. m_uCoIndex = m_usCoroutineCount
    BY <1>1, <2>3, <2>4, CocgiAssumption DEF SizeInv
  <2> QED BY <1>1, <2>1, <2>2, <2>3, <2>5, CocgiAssumption, SMTT(30) DEF SizeInv, PoolWithinBounds
<1>5. CASE AcceptStep /\ ~AcceptCreates
  BY <1>2, <1>5 DEF AcceptStep, AcceptSpins, AcceptTakes, AcceptFails, vars, poolVars, coVars
<1>6. CASE ResumeAcceptor \/ \E t \in CoId : ResumeTask(t)
  BY <1>2, <1>6, SMTT(30) DEF ResumeAcceptor, ResumeTask, poolVars
<1>7. ASSUME NEW t \in CoId, TaskStep(t), ~TaskRetires(t) PROVE SizeInv'
  BY <1>2, <1>7 DEF TaskStep, TaskStarts, TaskReads, TaskCloses, TaskIdles, CoRoutineFuncEnds,
                    ProcessDies, poolVars
<1>8. CASE PeerNext
  BY <1>2, <1>8 DEF PeerNext, PeerConnects, OtherProcessAccepts, PeerSends, PeerShuts,
                    PeerResets, PeerStep, poolVars, coVars
<1>9. CASE UNCHANGED vars
  BY <1>2, <1>9 DEF vars, poolVars, coVars
<1> QED BY <1>3, <1>4, <1>5, <1>6, <1>7, <1>8, <1>9 DEF Next

LEMMA SizeHolds == Spec => []SizeInv
BY InvHolds, InitSize, NextSize, PTL DEF Spec

\* The pool grows to its maximum and no further; one that starts above its
\* maximum shrinks to it and no further.
THEOREM PoolSizeIsBounded == Spec => []PoolWithinBounds
<1>1. SizeInv => PoolWithinBounds
  BY DEF SizeInv
<1> QED BY SizeHolds, <1>1, PTL

\* With a configured count within the maximum no coroutine is ever released,
\* so none is released while it can still be returned to.  (With a larger
\* count one is: run cocgi_retire.)
THEOREM CoroutinesStayAlive ==
    ASSUME m_usCoroutineCount <= m_usMaxCoroutineCount
    PROVE  Spec => []RunningCoroutineIsAlive
<1>1. SizeInv => RunningCoroutineIsAlive
  BY DEF SizeInv, RunningCoroutineIsAlive
<1> QED BY SizeHolds, <1>1, PTL
==============================================================================
