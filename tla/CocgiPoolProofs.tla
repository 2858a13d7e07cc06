--------------------------- MODULE CocgiPoolProofs ---------------------------
(***************************************************************************)
(* A cocgi worker process implements ConnectionPool, for pools of every size. *)
(***************************************************************************)
EXTENDS CocgiServerProofs

USE DEF NoFd, Main, Acceptor, NoCo

-----------------------------------------------------------------------------
(* The refinement of ConnectionPool *)

ServingTasks == {u \in CoId : callStack # <<>> /\ Owned(u) # NoFd}

LEMMA ServingDef ==
    /\ Serving = [t \in ServingTasks |-> Owned(t)]
    /\ DOMAIN Serving = ServingTasks
    /\ Serving' = [t \in ServingTasks' |-> Owned(t)']
BY DEF Serving, ServingTasks

\* A step that neither hands a descriptor over nor closes one is invisible.
LEMMA ServingUnchanged ==
    ASSUME CoId' = CoId, \A u \in CoId : Owned(u)' = Owned(u),
           callStack' = <<>> <=> callStack = <<>>
    PROVE  Serving' = Serving
<1>1. ServingTasks' = ServingTasks
  BY DEF ServingTasks
<1>2. \A u \in ServingTasks : Owned(u)' = Owned(u)
  BY DEF ServingTasks
<1> QED BY <1>1, <1>2, ServingDef, Zenon

LEMMA PoolInit == Init => Pool!Init
<1> SUFFICES ASSUME Init PROVE Pool!Init
  OBVIOUS
<1>1. m_umTask \subseteq TaskId
  BY CocgiAssumption DEF Init, CoId, TaskId
<1>2. ServingTasks = {}
  BY DEF Init, ServingTasks, Owned
<1>3. Serving = [w \in {} |-> 0]
  BY <1>2, ServingDef
<1> QED BY <1>1, <1>3 DEF Pool!Init

LEMMA AcceptCreatesHires ==
    ASSUME Inv, SizeInv, AcceptCreates PROVE \E w \in TaskId : Pool!Hire(w)
<1> USE DEF Inv
<1> DEFINE n == m_uCoIndex
<1>1. /\ n \in Nat
      /\ CoId = 0 .. n - 1
      /\ CoId' = CoId \union {n}
      /\ n \notin CoId
      /\ callStack' = callStack
      /\ m_umTask' = m_umTask \union {n}
      /\ Cardinality(m_umTask) < m_usMaxCoroutineCount
  BY DEF TypeOK, CoId, AcceptCreates, CreateCocgiTask, coVars
<1>2. /\ iFd' = [t \in CoId' |-> IF t = n THEN NoFd ELSE iFd[t]]
      /\ conn' = [t \in CoId' |-> IF t = n THEN NoFd ELSE conn[t]]
  BY <1>1 DEF AcceptCreates, CreateCocgiTask, Extend, CoId, TypeOK
<1>3. PICK k : k = n
  OBVIOUS
<1> HIDE DEF n
<1>4. (\A u \in CoId : Owned(u)' = Owned(u)) /\ Owned(k)' = NoFd
  BY <1>1, <1>2, <1>3 DEF Owned
<1>5. ServingTasks' = ServingTasks
  BY <1>1, <1>3, <1>4 DEF ServingTasks
<1>6. Serving' = Serving
  <2>1. \A u \in ServingTasks : Owned(u)' = Owned(u)
    BY <1>4 DEF ServingTasks
  <2> QED BY <1>5, <2>1, ServingDef, Zenon
<1>7. k \in TaskId /\ k \notin m_umTask
  <2>1. m_umTask = CoId
    BY <1>1, FS_CardinalityType, CocgiAssumption DEF SizeInv, PoolWithinBounds
  <2>2. Cardinality(CoId) = n
    BY <1>1, FS_Interval
  <2> QED BY <1>1, <1>3, <2>1, <2>2, CocgiAssumption DEF TaskId
<1> QED BY <1>1, <1>3, <1>6, <1>7 DEF Pool!Hire

LEMMA TasksAreWorkers ==
    ASSUME Inv, SizeInv PROVE CoId \subseteq TaskId
<1>1. m_uCoIndex \in Nat
  BY DEF Inv, TypeOK
<1>2. CASE m_umTask = CoId
  <2>1. Cardinality(m_umTask) = m_uCoIndex
    BY <1>1, <1>2, FS_Interval DEF CoId
  <2>2. m_uCoIndex <= m_usCoroutineCount + m_usMaxCoroutineCount
    BY <1>1, <2>1, CocgiAssumption DEF SizeInv, PoolWithinBounds
  <2> QED BY <1>1, <2>2, CocgiAssumption DEF CoId, TaskId
<1>3. CASE m_uCoIndex = m_usCoroutineCount
  BY <1>1, <1>3, CocgiAssumption DEF CoId, TaskId
<1> QED BY <1>2, <1>3 DEF SizeInv

LEMMA AcceptTakesServes ==
    ASSUME Inv, SizeInv, NEW f \in Fd, AcceptTakes(f)
    PROVE  \E w \in TaskId : Pool!Serve(w, f)
<1> USE DEF Inv
<1>1. PICK t : t = Head(m_lIdleTask)
  OBVIOUS
<1>2. /\ Current = Acceptor
      /\ m_lIdleTask # <<>>
      /\ sock[f] = "free"
      /\ iFd' = [iFd EXCEPT ![t] = f]
      /\ co_resume(t)
      /\ UNCHANGED <<m_umTask, m_uCoIndex, conn, acceptPc>>
  BY <1>1 DEF AcceptTakes
<1>3. t \in IdleTasks /\ t \in m_umTask /\ t \in CoId
  <2>1. t \in Elems(m_lIdleTask)
    BY <1>1, <1>2, PopFront DEF PoolPartition, NoDuplicates, TypeOK
  <2> QED BY <2>1 DEF Elems, IdleTasks, PoolPartition, TypeOK
<1>4. CoId' = CoId /\ f # NoFd /\ callStack # <<>> /\ callStack' # <<>>
  BY <1>2, <1>3, TaskResumed, WhoRuns, CocgiAssumption DEF CoId
<1>5. iFd[t] = NoFd /\ conn[t] = NoFd
  BY <1>3 DEF TaskShape
<1>6. Owned(t)' = f /\ Owned(t) = NoFd /\ \A u \in CoId \ {t} : Owned(u)' = Owned(u)
  BY <1>2, <1>3, <1>4, <1>5 DEF Owned, TypeOK
<1>7. ServingTasks' = ServingTasks \union {t} /\ t \notin ServingTasks
  BY <1>3, <1>4, <1>6 DEF ServingTasks
<1>8. Serving' = [v \in ServingTasks \union {t} |-> IF v = t THEN f ELSE Serving[v]]
  <2>1. \A v \in ServingTasks : v # t /\ Owned(v)' = Serving[v]
    BY <1>6, <1>7, ServingDef DEF ServingTasks
  <2>2. \A v \in ServingTasks' : Owned(v)' = IF v = t THEN f ELSE Serving[v]
    BY <1>6, <1>7, <2>1
  <2> QED BY <1>7, <2>2, ServingDef, SMTT(30)
<1>9. \A v \in DOMAIN Serving : Serving[v] # f
  BY <1>2, <1>4, ServingDef DEF FdShape, ServingTasks
<1> QED BY <1>2, <1>3, <1>7, <1>8, <1>9, ServingDef, TasksAreWorkers, SMTT(30)
        DEF Pool!Serve, Pool!Free

LEMMA TaskClosesFinishes ==
    ASSUME Inv, SizeInv, NEW t \in CoId, TaskCloses(t)
    PROVE  \E w \in TaskId : Pool!Finish(w)
<1> USE DEF Inv
<1>1. /\ Current = t
      /\ pc[t] = "read"
      /\ conn' = [conn EXCEPT ![t] = NoFd]
      /\ UNCHANGED <<m_umTask, m_uCoIndex, iFd, callStack>>
  BY DEF TaskCloses, poolVars
<1>2. CoId' = CoId /\ callStack # <<>>
  <2>1. CoId' = CoId /\ CoId \subseteq Nat
    BY <1>1 DEF CoId, TypeOK
  <2> QED BY <1>1, <2>1, WhoRuns
<1>3. conn[t] # NoFd /\ iFd[t] = NoFd
  BY <1>1 DEF TaskShape
<1>4. Owned(t) # NoFd /\ Owned(t)' = NoFd /\ \A u \in CoId \ {t} : Owned(u)' = Owned(u)
  BY <1>1, <1>3 DEF Owned, TypeOK
<1>5. ServingTasks' = ServingTasks \ {t} /\ t \in ServingTasks
  BY <1>1, <1>2, <1>4 DEF ServingTasks
<1>6. Serving' = [v \in ServingTasks \ {t} |-> Serving[v]]
  <2>1. \A v \in ServingTasks' : Owned(v)' = Serving[v]
    BY <1>4, <1>5, ServingDef DEF ServingTasks
  <2> QED BY <1>5, <2>1, ServingDef
<1> QED BY <1>1, <1>5, <1>6, ServingDef, TasksAreWorkers DEF Pool!Finish

LEMMA TaskRetiresDismisses ==
    ASSUME Inv, SizeInv, NEW t \in CoId, TaskRetires(t)
    PROVE  \E w \in TaskId : Pool!Dismiss(w)
<1> USE DEF Inv
<1>1. /\ pc[t] = "top"
      /\ iFd[t] = NoFd
      /\ m_umTask' = m_umTask \ {t}
      /\ UNCHANGED <<m_uCoIndex, iFd, conn, callStack>>
  BY DEF TaskRetires
<1>2. Serving' = Serving
  BY <1>1, ServingUnchanged DEF CoId, Owned
<1>3. t \in m_umTask /\ t \notin ServingTasks
  BY <1>1 DEF TaskShape, PoolPartition, ServingTasks, Owned
<1> QED BY <1>1, <1>2, <1>3, ServingDef, TasksAreWorkers DEF Pool!Dismiss, Pool!Free

LEMMA ProcessDiesHalts ==
    ASSUME Inv, NEW t \in CoId, ProcessDies(t) PROVE Pool!Halt
<1>1. callStack' = <<>> /\ m_umTask' = m_umTask
  BY DEF ProcessDies, poolVars
<1>2. ServingTasks' = {}
  BY <1>1 DEF ServingTasks
<1>3. Serving' = [w \in {} |-> 0]
  BY <1>2, ServingDef
<1> QED BY <1>1, <1>3 DEF Pool!Halt

LEMMA StartsInvisible ==
    ASSUME Inv, NEW t \in CoId, TaskStarts(t) PROVE UNCHANGED Pool!pool
<1> USE DEF Inv
<1>1. /\ Current = t
      /\ pc[t] = "top"
      /\ iFd[t] # NoFd
      /\ conn' = [conn EXCEPT ![t] = iFd[t]]
      /\ iFd' = [iFd EXCEPT ![t] = NoFd]
      /\ TaskPolls(t)
      /\ UNCHANGED <<m_umTask, m_uCoIndex, acceptPc>>
  BY DEF TaskStarts, poolVars
<1>2. CoId' = CoId /\ CoId \subseteq Nat
  BY <1>1 DEF CoId, TypeOK
<1>3. callStack # <<>> /\ callStack' # <<>>
  BY <1>1, <1>2, TaskPollsEffect, WhoRuns
<1>4. \A u \in CoId : Owned(u)' = Owned(u)
  BY <1>1 DEF TaskShape, TypeOK, Owned
<1> QED BY <1>1, <1>2, <1>3, <1>4, ServingUnchanged DEF Pool!pool

\* The steps of a live process that touch neither the pool nor a descriptor.
LEMMA OthersInvisible ==
    ASSUME Inv, UNCHANGED <<m_umTask, m_uCoIndex, iFd, conn>>,
           callStack' = <<>> <=> callStack = <<>>
    PROVE  UNCHANGED Pool!pool
BY ServingUnchanged DEF CoId, Owned, Pool!pool

LEMMA PoolNext == Inv /\ SizeInv /\ [Next]_vars => [Pool!Next]_(Pool!pool)
<1> SUFFICES ASSUME Inv, SizeInv, [Next]_vars PROVE Pool!Next \/ UNCHANGED Pool!pool
  OBVIOUS
<1>0. CoId \subseteq Nat /\ TypeOK /\ StackShape
  BY SMTT(30) DEF Inv, CoId, TypeOK
<1>1. CASE AcceptCreates
  BY <1>1, AcceptCreatesHires DEF Pool!Next
<1>2. ASSUME NEW f \in Fd, AcceptTakes(f) PROVE Pool!Next
  BY <1>2, AcceptTakesServes DEF Pool!Next
<1>3. CASE AcceptSpins \/ UNCHANGED vars
  BY <1>3, OthersInvisible DEF AcceptSpins, vars, poolVars, taskVars, coVars
<1>4. CASE AcceptFails
  <2>1. UNCHANGED <<m_umTask, m_uCoIndex, iFd, conn>> /\ Current = Acceptor /\ AcceptPolls
    BY <1>4 DEF AcceptFails, poolVars, taskVars
  <2>2. Len(callStack) = 2 /\ callStack # <<>>
    BY <1>0, <2>1, WhoRuns
  <2>3. callStack' # <<>>
    <3>1. CASE co_yield_env
      <4>1. callStack' \in Seq(CoId \union {Main, Acceptor}) /\ Len(callStack') = 1
        BY <1>0, <2>2, <3>1, StackPop DEF co_yield_env, TypeOK
      <4> QED BY <4>1
    <3>2. CASE UNCHANGED callStack
      BY <3>2, <2>2
    <3> QED BY <2>1, <3>1, <3>2 DEF AcceptPolls
  <2> QED BY <2>1, <2>2, <2>3, OthersInvisible
<1>5. CASE ResumeAcceptor
  <2>1. UNCHANGED <<m_umTask, m_uCoIndex, iFd, conn>> /\ callStack' = Append(callStack, Acceptor)
    BY <1>5 DEF ResumeAcceptor, poolVars, taskVars, co_resume
  <2>2. callStack # <<>>
    BY <1>0, <1>5, WhoRuns DEF ResumeAcceptor
  <2>3. Acceptor \in CoId \union {Main, Acceptor}
    OBVIOUS
  <2>4. callStack' # <<>>
    <3>1. callStack \in Seq(CoId \union {Main, Acceptor})
      BY <1>0 DEF TypeOK
    <3>2. Append(callStack, Acceptor) # <<>>
      BY <2>3, <3>1, AppendProperties
    <3> QED BY <2>1, <3>2
  <2> QED BY <2>1, <2>2, <2>4, OthersInvisible
<1>6. ASSUME NEW t \in CoId, ResumeTask(t) PROVE UNCHANGED Pool!pool
  <2>1. UNCHANGED <<m_umTask, m_uCoIndex, iFd, conn, acceptPc>> /\ Current = Main /\ co_resume(t)
    BY <1>6 DEF ResumeTask, poolVars
  <2>2. callStack # <<>> /\ callStack' # <<>>
    BY <1>0, <2>1, WhoRuns, TaskResumed
  <2> QED BY <2>1, <2>2, OthersInvisible
<1>7. ASSUME NEW t \in CoId, TaskReads(t) PROVE UNCHANGED Pool!pool
  <2>1. UNCHANGED <<m_umTask, m_uCoIndex, iFd, conn, acceptPc>> /\ Current = t /\ TaskPolls(t)
    BY <1>7 DEF TaskReads, poolVars
  <2>2. callStack # <<>> /\ callStack' # <<>>
    BY <1>0, <2>1, WhoRuns, TaskPollsEffect
  <2> QED BY <2>1, <2>2, OthersInvisible
<1>8. ASSUME NEW t \in CoId, TaskIdles(t) \/ CoRoutineFuncEnds(t) PROVE UNCHANGED Pool!pool
  <2>1. UNCHANGED <<m_umTask, m_uCoIndex, iFd, conn, acceptPc>> /\ Current = t /\ co_yield_env
    BY <1>8 DEF TaskIdles, CoRoutineFuncEnds, poolVars, taskVars
  <2>2. callStack # <<>> /\ callStack' # <<>>
    BY <1>0, <2>1, WhoRuns, TaskYields
  <2> QED BY <2>1, <2>2, OthersInvisible
<1>9. CASE PeerNext
  <2>1. UNCHANGED <<m_umTask, m_uCoIndex, iFd, conn, callStack>>
    BY <1>9 DEF PeerNext, PeerConnects, OtherProcessAccepts, PeerSends, PeerShuts, PeerResets,
                PeerStep, poolVars, taskVars, coVars
  <2> QED BY <2>1, OthersInvisible
<1>10. CASE AcceptStep
  BY <1>1, <1>2, <1>3, <1>4, <1>10 DEF AcceptStep
<1>11. ASSUME NEW t \in CoId, TaskStep(t) PROVE Pool!Next \/ UNCHANGED Pool!pool
  <2>1. CASE TaskCloses(t)
    BY <2>1, TaskClosesFinishes DEF Pool!Next
  <2>2. CASE TaskRetires(t)
    BY <2>2, TaskRetiresDismisses DEF Pool!Next
  <2>3. CASE ProcessDies(t)
    BY <2>3, ProcessDiesHalts DEF Pool!Next
  <2>4. CASE TaskStarts(t)
    BY <2>4, StartsInvisible
  <2> QED BY <1>7, <1>8, <1>11, <2>1, <2>2, <2>3, <2>4, SMTT(30) DEF TaskStep
<1> QED BY <1>3, <1>5, <1>6, <1>9, <1>10, <1>11 DEF Next

\* A cocgi process implements the abstract pool: one connection per worker, one
\* worker per connection, and only a worker without a connection leaves.
THEOREM PoolRefinement == Spec => ImplementsPool
BY InvHolds, SizeHolds, PoolInit, PoolNext, PTL DEF Spec, ImplementsPool, Pool!Spec
==============================================================================
