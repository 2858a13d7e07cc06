----------------------------- MODULE CocgiServer -----------------------------
(***************************************************************************)
(* One worker process of the coroutine server (cocgi): CCocgiServer's pool *)
(* of tasks, its accept coroutine and its read/write coroutines, run by    *)
(* libco on one thread.  A coroutine keeps the thread until it polls,      *)
(* yields or ends, so every action below is the code from one suspension   *)
(* point or system call to the next.  The peers and the kernel interleave  *)
(* freely.  What a request is, and how it is answered, is FastCgiCodec's   *)
(* business: here readData only has a result.                              *)
(***************************************************************************)
EXTENDS Integers, Sequences, FiniteSets

CONSTANTS
    m_usCoroutineCount,     \* tasks created before the first accept
    m_usMaxCoroutineCount,  \* the pool grows up to this many tasks
    MAX_RECYCLE_COUNT,      \* silent one-second polls a connection may have
    usListenNum,            \* bound: length of the kernel's accept queue
    Fd,                     \* descriptors the kernel may give to accept
    ClockMayStepBack        \* the wall clock behind co_poll may go backwards

ASSUME CocgiAssumption ==
    /\ m_usCoroutineCount \in Nat \ {0}
    /\ m_usMaxCoroutineCount \in Nat \ {0}
    /\ MAX_RECYCLE_COUNT \in Nat
    /\ usListenNum \in Nat
    /\ Fd \subseteq Nat
    /\ ClockMayStepBack \in BOOLEAN

VARIABLES
    m_umTask,     \* ids of all tasks
    m_lIdleTask,  \* list of the ids of idle tasks, front first
    m_usRunTask,  \* ids of the tasks serving a connection
    m_uCoIndex,   \* next task id
    iFd,          \* CocgiTask::iFd, the descriptor handed over by accept
    conn,         \* the descriptor in the routine's local variable iFd
    recycle,      \* the routine's local variable recycle
    pc,           \* where each task's coroutine is
    acceptPc,     \* where the accept coroutine is
    callStack,    \* stCoRoutineEnv_t::pCallStack
    released,     \* ids of the tasks whose coroutine co_release has freed
    errno,        \* the thread's errno, shared by all its coroutines
    sock,         \* the kernel's and the peer's side of every descriptor
    backlog       \* connections waiting in the accept queue

poolVars == <<m_umTask, m_lIdleTask, m_usRunTask, m_uCoIndex>>
taskVars == <<iFd, conn, recycle, pc>>
coVars   == <<acceptPc, callStack, released>>
envVars  == <<sock, backlog>>
vars     == <<poolVars, taskVars, coVars, errno, envVars>>

-----------------------------------------------------------------------------
NoFd     == -1
Main     == -1      \* the thread's own context, which runs co_eventloop
Acceptor == -2      \* the accept coroutine
NoCo     == -3

CoId   == 0 .. m_uCoIndex - 1
\* new: not started; top: at the head of the outer loop; read: co_poll has
\* returned; poll, idle: suspended; ended: returned to CoRoutineFunc.
TaskPc == {"new", "top", "read", "poll", "idle", "ended"}

\* free: not open; quiet, data: open, without and with bytes to read; last:
\* bytes to read and then the end of the stream; eof, reset: the peer is gone.
SockState == {"free", "quiet", "data", "last", "eof", "reset"}

\* EAGAIN is the only value the code tells apart.
Errno == {"EAGAIN", "OTHER"}

\* The coroutine that has the thread; no process, no coroutine.
Current == IF callStack = <<>> THEN NoCo ELSE callStack[Len(callStack)]

IdleTasks == {m_lIdleTask[i] : i \in 1 .. Len(m_lIdleTask)}

\* The descriptor task t answers for, if any.
Owned(t) == IF iFd[t] # NoFd THEN iFd[t] ELSE conn[t]

-----------------------------------------------------------------------------
(* libco *)

co_resume(c) == callStack' = Append(callStack, c)

co_yield_env == callStack' = SubSeq(callStack, 1, Len(callStack) - 1)

\* co_poll suspends its caller.  AddTimeout refuses when the clock is behind
\* the timeout wheel, and then co_poll returns at once without yielding.
TaskPolls(t) ==
    \/ pc' = [pc EXCEPT ![t] = "poll"] /\ co_yield_env
    \/ ClockMayStepBack /\ pc' = [pc EXCEPT ![t] = "read"] /\ UNCHANGED callStack

AcceptPolls ==
    \/ acceptPc' = "poll" /\ co_yield_env
    \/ ClockMayStepBack /\ UNCHANGED <<acceptPc, callStack>>

\* co_eventloop resumes a coroutine whose poll has an event or timed out; a
\* poll always times out in the end, so readiness is no condition.
ResumeTask(t) ==
    /\ Current = Main
    /\ pc[t] = "poll"
    /\ pc' = [pc EXCEPT ![t] = "read"]
    /\ co_resume(t)
    /\ UNCHANGED <<poolVars, iFd, conn, recycle, acceptPc, released, errno, envVars>>

ResumeAcceptor ==
    /\ Current = Main
    /\ acceptPc = "poll"
    /\ acceptPc' = "loop"
    /\ co_resume(Acceptor)
    /\ UNCHANGED <<poolVars, taskVars, released, errno, envVars>>

-----------------------------------------------------------------------------
(* CCocgiServer::AcceptRoutine *)

Extend(f, v) == [t \in 0 .. m_uCoIndex |-> IF t = m_uCoIndex THEN v ELSE f[t]]

\* A failed creation continues the loop with nothing changed.
CreateCocgiTask ==
    /\ m_uCoIndex'  = m_uCoIndex + 1
    /\ m_lIdleTask' = <<m_uCoIndex>> \o m_lIdleTask
    /\ m_umTask'    = m_umTask \union {m_uCoIndex}
    /\ iFd'         = Extend(iFd, NoFd)
    /\ conn'        = Extend(conn, NoFd)
    /\ recycle'     = Extend(recycle, 0)
    /\ pc'          = Extend(pc, "new")

AcceptCreates ==
    /\ Current = Acceptor
    /\ m_lIdleTask = <<>>
    /\ Cardinality(m_umTask) < m_usMaxCoroutineCount
    /\ CreateCocgiTask
    /\ UNCHANGED <<m_usRunTask, coVars, errno, envVars>>

\* No idle task and no room for another: the loop goes round without a poll,
\* a yield or a sleep.
AcceptSpins ==
    /\ Current = Acceptor
    /\ m_lIdleTask = <<>>
    /\ Cardinality(m_umTask) >= m_usMaxCoroutineCount
    /\ UNCHANGED vars

\* Faulty variant: the task taken stays in the idle list.
AcceptTakesNoPop(f) ==
    /\ Current = Acceptor
    /\ m_lIdleTask # <<>>
    /\ backlog > 0
    /\ sock[f] = "free"
    /\ sock' = [sock EXCEPT ![f] = "quiet"]
    /\ backlog' = backlog - 1
    /\ LET t == Head(m_lIdleTask) IN
         /\ iFd' = [iFd EXCEPT ![t] = f]
         /\ m_usRunTask' = m_usRunTask \union {t}
         /\ pc' = [pc EXCEPT ![t] = "top"]
         /\ co_resume(t)
    /\ UNCHANGED <<m_lIdleTask, m_umTask, m_uCoIndex, conn, recycle, acceptPc,
                   released, errno>>

\* co_accept returns a new descriptor and the front idle task takes it over.
AcceptTakes(f) ==
    /\ Current = Acceptor
    /\ m_lIdleTask # <<>>
    /\ backlog > 0
    /\ sock[f] = "free"
    /\ sock' = [sock EXCEPT ![f] = "quiet"]
    /\ backlog' = backlog - 1
    /\ LET t == Head(m_lIdleTask) IN
         /\ iFd' = [iFd EXCEPT ![t] = f]
         /\ m_lIdleTask' = Tail(m_lIdleTask)
         /\ m_usRunTask' = m_usRunTask \union {t}
         /\ pc' = [pc EXCEPT ![t] = "top"]
         /\ co_resume(t)
    /\ UNCHANGED <<m_umTask, m_uCoIndex, conn, recycle, acceptPc, released, errno>>

\* co_accept fails: nothing is waiting, or the descriptors are used up.
AcceptFails ==
    /\ Current = Acceptor
    /\ m_lIdleTask # <<>>
    /\ \/ backlog = 0 /\ errno' = "EAGAIN"
       \/ backlog > 0 /\ (\A f \in Fd : sock[f] # "free") /\ errno' = "OTHER"
    /\ AcceptPolls
    /\ UNCHANGED <<poolVars, taskVars, released, envVars>>

-----------------------------------------------------------------------------
(* CCocgiServer::RealReadwriteRoutine *)

\* The outer loop with a descriptor to serve, up to the first co_poll.
TaskStarts(t) ==
    /\ Current = t
    /\ pc[t] = "top"
    /\ iFd[t] # NoFd
    /\ conn' = [conn EXCEPT ![t] = iFd[t]]
    /\ iFd' = [iFd EXCEPT ![t] = NoFd]
    /\ recycle' = [recycle EXCEPT ![t] = 0]
    /\ TaskPolls(t)
    /\ UNCHANGED <<poolVars, acceptPc, released, errno, envVars>>

\* The outer loop with no descriptor: back to the idle list.
TaskIdles(t) ==
    /\ Current = t
    /\ pc[t] = "top"
    /\ iFd[t] = NoFd
    /\ Cardinality(m_umTask) <= m_usMaxCoroutineCount
    /\ m_lIdleTask' = <<t>> \o m_lIdleTask
    /\ m_usRunTask' = m_usRunTask \ {t}
    /\ pc' = [pc EXCEPT ![t] = "idle"]
    /\ co_yield_env
    /\ UNCHANGED <<m_umTask, m_uCoIndex, iFd, conn, recycle, acceptPc,
                   released, errno, envVars>>

\* Faulty variant: a full pool retires tasks too.
TaskRetiresAtMax(t) ==
    /\ Current = t
    /\ pc[t] = "top"
    /\ iFd[t] = NoFd
    /\ Cardinality(m_umTask) >= m_usMaxCoroutineCount
    /\ m_usRunTask' = m_usRunTask \ {t}
    /\ m_umTask' = m_umTask \ {t}
    /\ pc' = [pc EXCEPT ![t] = "ended"]
    /\ released' = released \union {t}
    /\ UNCHANGED <<m_lIdleTask, m_uCoIndex, iFd, conn, recycle, acceptPc,
                   callStack, errno, envVars>>

\* More tasks than the maximum: the routine erases its task and returns.  The
\* routine's own pointer was the last one, so the coroutine is released while
\* it runs; what CoRoutineFunc does next with the freed coroutine is undefined:
\* it yields from it, or (a separate action) the process dies.
TaskRetires(t) ==
    /\ Current = t
    /\ pc[t] = "top"
    /\ iFd[t] = NoFd
    /\ Cardinality(m_umTask) > m_usMaxCoroutineCount
    /\ m_usRunTask' = m_usRunTask \ {t}
    /\ m_umTask' = m_umTask \ {t}
    /\ pc' = [pc EXCEPT ![t] = "ended"]
    /\ released' = released \union {t}
    /\ UNCHANGED <<m_lIdleTask, m_uCoIndex, iFd, conn, recycle, acceptPc,
                   callStack, errno, envVars>>

CoRoutineFuncEnds(t) ==
    /\ Current = t
    /\ pc[t] = "ended"
    /\ co_yield_env
    /\ UNCHANGED <<poolVars, taskVars, acceptPc, released, errno, envVars>>

\* The process is killed when CoRoutineFunc uses the freed coroutine, or by
\* SIGPIPE, which it does not ignore: a response written to a peer that has
\* closed is answered with a reset, and the next write raises the signal.
ProcessDies(t) ==
    /\ Current = t
    /\ t \in released \/ (pc[t] = "read" /\ sock[conn[t]] = "last")
    /\ callStack' = <<>>
    /\ sock' = [f \in Fd |-> "free"]
    /\ UNCHANGED <<poolVars, taskVars, acceptPc, released, errno, backlog>>

\* FastCgiCodec::readData: its result and errno.  On end of stream readFd
\* leaves errno alone, so the value tested is whatever the thread's last
\* failing call left there.
readData(t, ret) ==
    LET s == sock[conn[t]] IN
    \/ /\ s \in {"data", "last"}
       /\ ret \in {"ERR_OK", "ERR_SOCKET_FINISH"}
       /\ errno' \in Errno       \* the backend and the write may set it
    \/ /\ s = "quiet"
       /\ ret = "ERR_SOCKET_EAGAIN"
       /\ errno' = "EAGAIN"
    \/ /\ s = "eof"
       /\ ret = (IF errno = "EAGAIN" THEN "ERR_SOCKET_EAGAIN" ELSE "ERR_SOCKET_READ")
       /\ UNCHANGED errno
    \/ /\ s = "reset"
       /\ ret = "ERR_SOCKET_READ"
       /\ errno' = "OTHER"

\* One read takes all the bytes that have arrived.
Drained(s) == CASE s = "data" -> "quiet" [] s = "last" -> "eof" [] OTHER -> s

\* Faulty variant: silent rounds are not counted.
TaskReadsNoCount(t) ==
    /\ Current = t
    /\ pc[t] = "read"
    /\ readData(t, "ERR_OK") \/ readData(t, "ERR_SOCKET_EAGAIN")
    /\ sock' = [sock EXCEPT ![conn[t]] = Drained(@)]
    /\ TaskPolls(t)
    /\ UNCHANGED <<poolVars, iFd, conn, recycle, acceptPc, released, backlog>>

\* One round of the inner loop that goes back to co_poll.
TaskReads(t) ==
    /\ Current = t
    /\ pc[t] = "read"
    /\ \/ /\ readData(t, "ERR_OK")
          /\ recycle' = [recycle EXCEPT ![t] = 0]
       \/ /\ readData(t, "ERR_SOCKET_EAGAIN")
          /\ recycle[t] < MAX_RECYCLE_COUNT
          /\ recycle' = [recycle EXCEPT ![t] = @ + 1]
    /\ sock' = [sock EXCEPT ![conn[t]] = Drained(@)]
    /\ TaskPolls(t)
    /\ UNCHANGED <<poolVars, iFd, conn, acceptPc, released, backlog>>

\* Faulty variant: the loop is left without closing the descriptor.
TaskClosesLeaks(t) ==
    /\ Current = t
    /\ pc[t] = "read"
    /\ \/ /\ readData(t, "ERR_SOCKET_EAGAIN")
          /\ recycle[t] >= MAX_RECYCLE_COUNT
       \/ readData(t, "ERR_SOCKET_FINISH")
       \/ readData(t, "ERR_SOCKET_READ")
    /\ conn' = [conn EXCEPT ![t] = NoFd]
    /\ pc' = [pc EXCEPT ![t] = "top"]
    /\ UNCHANGED <<poolVars, iFd, recycle, acceptPc, callStack, released, envVars>>

\* One round of the inner loop that closes the connection and leaves it.
TaskCloses(t) ==
    /\ Current = t
    /\ pc[t] = "read"
    /\ \/ /\ readData(t, "ERR_SOCKET_EAGAIN")
          /\ recycle[t] >= MAX_RECYCLE_COUNT
          /\ recycle' = [recycle EXCEPT ![t] = @ + 1]
       \/ /\ readData(t, "ERR_SOCKET_FINISH") \/ readData(t, "ERR_SOCKET_READ")
          /\ UNCHANGED recycle
    /\ sock' = [sock EXCEPT ![conn[t]] = "free"]
    /\ conn' = [conn EXCEPT ![t] = NoFd]
    /\ pc' = [pc EXCEPT ![t] = "top"]
    /\ UNCHANGED <<poolVars, iFd, acceptPc, callStack, released, backlog>>

-----------------------------------------------------------------------------
(* The peers, and the other processes that accept on the same socket *)

PeerConnects ==
    /\ backlog < usListenNum
    /\ backlog' = backlog + 1
    /\ UNCHANGED <<poolVars, taskVars, coVars, errno, sock>>

OtherProcessAccepts ==
    /\ backlog > 0
    /\ backlog' = backlog - 1
    /\ UNCHANGED <<poolVars, taskVars, coVars, errno, sock>>

PeerStep(f, from, to) ==
    /\ sock[f] \in from
    /\ sock' = [sock EXCEPT ![f] = to]
    /\ UNCHANGED <<poolVars, taskVars, coVars, errno, backlog>>

PeerSends(f)  == PeerStep(f, {"quiet"}, "data")
PeerShuts(f)  == PeerStep(f, {"quiet"}, "eof") \/ PeerStep(f, {"data"}, "last")
PeerResets(f) == PeerStep(f, {"quiet", "data", "last", "eof"}, "reset")

-----------------------------------------------------------------------------
\* CCocgiServer::Run in a forked child, up to the first instruction of the
\* accept coroutine: m_usCoroutineCount tasks, the last one created in front.
Init ==
    /\ m_uCoIndex = m_usCoroutineCount
    /\ m_umTask = CoId
    /\ m_lIdleTask = [i \in 1 .. m_usCoroutineCount |-> m_usCoroutineCount - i]
    /\ m_usRunTask = {}
    /\ iFd = [t \in CoId |-> NoFd]
    /\ conn = [t \in CoId |-> NoFd]
    /\ recycle = [t \in CoId |-> 0]
    /\ pc = [t \in CoId |-> "new"]
    /\ acceptPc = "loop"
    /\ callStack = <<Main, Acceptor>>
    /\ released = {}
    /\ errno \in Errno
    /\ sock = [f \in Fd |-> "free"]
    /\ backlog = 0

TaskStep(t) ==
    \/ TaskStarts(t)
    \/ TaskReads(t)
    \/ TaskCloses(t)
    \/ TaskIdles(t)
    \/ TaskRetires(t)
    \/ CoRoutineFuncEnds(t)
    \/ ProcessDies(t)

AcceptStep ==
    \/ AcceptCreates
    \/ AcceptSpins
    \/ \E f \in Fd : AcceptTakes(f)
    \/ AcceptFails

PeerNext ==
    \/ PeerConnects
    \/ OtherProcessAccepts
    \/ \E f \in Fd : PeerSends(f) \/ PeerShuts(f) \/ PeerResets(f)

Next ==
    \/ AcceptStep
    \/ ResumeAcceptor
    \/ \E t \in CoId : ResumeTask(t) \/ TaskStep(t)
    \/ PeerNext

Spec == Init /\ [][Next]_vars

\* The thread runs whichever coroutine has it, and co_eventloop gets round to
\* every coroutine that polls: the active list is first in, first out, and the
\* timeout wheel bounds every wait.  Tasks are created only below the maximum
\* and retired only above it, so an id is below one of the two counts.  The
\* peers owe nothing, except that a peer which stays silent for good closes in
\* the end.
TaskId == 0 .. m_usCoroutineCount + m_usMaxCoroutineCount - 1

Fairness ==
    /\ WF_vars(AcceptStep)
    /\ SF_vars(ResumeAcceptor)
    /\ \A t \in {t \in TaskId : t < m_usCoroutineCount \/ t < m_usMaxCoroutineCount} :
         /\ WF_vars(t \in CoId /\ TaskStep(t))
         /\ SF_vars(t \in CoId /\ ResumeTask(t))

FairSpec == Spec /\ Fairness

PeersHangUp == \A f \in Fd : WF_vars(PeerShuts(f))

HangUpSpec == FairSpec /\ PeersHangUp

-----------------------------------------------------------------------------
(* Properties *)

\* Every variable has its type.
TypeOK ==
    /\ m_uCoIndex \in Nat
    /\ m_umTask \subseteq CoId
    /\ m_lIdleTask \in Seq(CoId)
    /\ m_usRunTask \subseteq CoId
    /\ iFd \in [CoId -> Fd \union {NoFd}]
    /\ conn \in [CoId -> Fd \union {NoFd}]
    /\ recycle \in [CoId -> 0 .. MAX_RECYCLE_COUNT + 1]
    /\ pc \in [CoId -> TaskPc]
    /\ acceptPc \in {"loop", "poll"}
    /\ callStack \in Seq(CoId \union {Main, Acceptor})
    /\ released \subseteq CoId
    /\ errno \in Errno
    /\ sock \in [Fd -> SockState]
    /\ backlog \in 0 .. usListenNum

\* The three containers agree: a task is idle or running, never both, it is
\* listed idle only once, and m_umTask holds exactly these tasks.  The pushes,
\* pops and erases of AcceptRoutine and RealReadwriteRoutine keep it so across
\* every hand-over between the two coroutines.
PoolPartition ==
    /\ IdleTasks \intersect m_usRunTask = {}
    /\ IdleTasks \union m_usRunTask = m_umTask
    /\ \A i, j \in 1 .. Len(m_lIdleTask) :
         m_lIdleTask[i] = m_lIdleTask[j] => i = j

\* Taking the front idle task is always safe: it owns no descriptor, so the
\* assignment to its iFd loses none, and its coroutine is suspended outside
\* co_poll and on no call stack, so AcceptRoutine's co_resume starts it where
\* it looks at iFd.
IdleTaskIsReady ==
    \A t \in IdleTasks :
        /\ Owned(t) = NoFd
        /\ pc[t] \in {"new", "idle"}
        /\ \A i \in 1 .. Len(callStack) : callStack[i] # t

\* While the process lives every open connection belongs to exactly one
\* running task and every descriptor a task holds is open: nothing is leaked,
\* read after it was closed and reused, or closed twice.
OneOwnerPerConnection ==
    callStack # <<>> =>
        /\ \A t \in CoId : Owned(t) # NoFd => t \in m_usRunTask /\ sock[Owned(t)] # "free"
        /\ \A f \in Fd : sock[f] # "free" => \E t \in CoId : Owned(t) = f
        /\ \A t, u \in CoId : Owned(t) = Owned(u) /\ Owned(t) # NoFd => t = u

\* co_resume and co_yield nest properly: the event loop is at the bottom, no
\* coroutine is on the stack twice, the stack is never deeper than event loop,
\* accept coroutine, task (pCallStack has 128 entries and no bounds check), and
\* a coroutine is off the stack exactly while it is suspended.
CallStackDiscipline ==
    callStack # <<>> =>
        /\ callStack[1] = Main
        /\ Len(callStack) <= 3
        /\ \A i, j \in 1 .. Len(callStack) : callStack[i] = callStack[j] => i = j
        /\ (\E i \in 1 .. Len(callStack) : callStack[i] = Acceptor) <=> acceptPc = "loop"
        /\ \A t \in CoId : pc[t] \in {"top", "read"} =>
             Current = t /\ t \in m_usRunTask

\* The size of the pool moves from the configured count towards the maximum
\* and never beyond either.
PoolWithinBounds ==
    LET n == Cardinality(m_umTask) IN
    \/ m_usCoroutineCount <= n /\ n <= m_usMaxCoroutineCount
    \/ m_usMaxCoroutineCount <= n /\ n <= m_usCoroutineCount

\* No coroutine that can still be returned to has been freed by co_release.
RunningCoroutineIsAlive ==
    \A i \in 1 .. Len(callStack) : callStack[i] \notin released

\* A connection whose peer has closed is closed here too, even though a stale
\* errno can make readData report end of stream as EAGAIN.
ClosedByPeerIsClosed ==
    \A f \in Fd : sock[f] = "eof" ~> sock[f] # "eof"

\* When every task is busy a new connection waits until one is recycled
\* (README.md): provided the peers hang up, the pool of a process that lives
\* does not stay exhausted.
ExhaustedPoolRecovers ==
    (m_lIdleTask = <<>> /\ Cardinality(m_umTask) >= m_usMaxCoroutineCount)
        ~> (m_lIdleTask # <<>> \/ callStack = <<>>)

\* The pool implements ConnectionPool: its tasks are the workers, and while the
\* process lives a task serves the descriptor it owns.
Serving == [t \in {u \in CoId : callStack # <<>> /\ Owned(u) # NoFd} |-> Owned(t)]

Pool == INSTANCE ConnectionPool
            WITH Worker <- TaskId, worker <- m_umTask, serving <- Serving

ImplementsPool == Pool!Spec
==============================================================================
