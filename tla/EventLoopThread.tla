--------------------------- MODULE EventLoopThread ---------------------------
(***************************************************************************)
(* EventLoopThreadPool::start in the base thread: it makes its I/O threads *)
(* one after the other, and startLoop waits on a condition variable until  *)
(* the new thread has published the EventLoop on its stack.                *)
(*                                                                         *)
(* ~EventLoopThread is left out: mucgi's pool lives as long as the process. *)
(***************************************************************************)
EXTENDS Naturals, Sequences

CONSTANTS numThreads_,
          NULL

ASSUME ThreadAssumption == numThreads_ \in Nat \ {0}

Thread == 1 .. numThreads_

VARIABLES
    starter,    \* where the base thread is in startLoop
    threads_,   \* number of EventLoopThreads made
    loops_,     \* what startLoop has returned: a thread's loop or NULL
    mutex_,     \* of each EventLoopThread: who holds it, NULL if nobody
    notified,   \* the base thread, asleep in cond_.wait, has been signalled
    func,       \* where each thread is in threadFunc
    loop_       \* the loop each EventLoopThread has published

threadVars == <<starter, threads_, loops_, mutex_, notified, func, loop_>>

ThreadInit ==
    /\ starter = "start" /\ threads_ = 0 /\ loops_ = <<>>
    /\ mutex_ = [t \in Thread |-> NULL] /\ notified = FALSE
    /\ func = [t \in Thread |-> "none"]
    /\ loop_ = [t \in Thread |-> NULL]

-----------------------------------------------------------------------------
(* The base thread; t is the thread it is making. *)

\* new EventLoopThread, and Thread::start.  A pthread_create that fails is only
\* logged.
Start ==
    /\ starter = "start" /\ threads_ < numThreads_
    /\ threads_' = threads_ + 1
    /\ \E created \in {"created", "failed"} : func' = [func EXCEPT ![threads_'] = created]
    /\ starter' = "lock"
    /\ UNCHANGED <<loops_, mutex_, notified, loop_>>

lock(t, holder) == mutex_[t] = NULL /\ mutex_' = [mutex_ EXCEPT ![t] = holder]
unlock(t)       == mutex_' = [mutex_ EXCEPT ![t] = NULL]

Locks ==
    /\ starter = "lock" /\ lock(threads_, "starter")
    /\ starter' = "test"
    /\ UNCHANGED <<threads_, loops_, notified, func, loop_>>

\* while (loop_ == NULL): is the loop over?
Published == starter \in {"test", "woken"} /\ loop_[threads_] # NULL

Misses ==
    /\ starter \in {"test", "woken"} /\ ~Published
    /\ starter' = "sleep"
    /\ UNCHANGED <<threads_, loops_, mutex_, notified, func, loop_>>

\* pthread_cond_wait gives the mutex up and sleeps, in one step.
Waits ==
    /\ starter = "sleep"
    /\ unlock(threads_)
    /\ starter' = "wait" /\ notified' = FALSE
    /\ UNCHANGED <<threads_, loops_, func, loop_>>

\* wait returns with the mutex locked, signalled or spuriously.
Wakes ==
    /\ starter = "wait" /\ lock(threads_, "starter")
    /\ starter' = "woken" /\ notified' = FALSE
    /\ UNCHANGED <<threads_, loops_, func, loop_>>

Unlocks ==
    /\ Published
    /\ unlock(threads_)
    /\ starter' = "return"
    /\ UNCHANGED <<threads_, loops_, notified, func, loop_>>

\* return loop_, which is read after the mutex was given up.
Returns ==
    /\ starter = "return"
    /\ loops_' = Append(loops_, loop_[threads_])
    /\ starter' = IF threads_ < numThreads_ THEN "start" ELSE "started"
    /\ UNCHANGED <<threads_, mutex_, notified, func, loop_>>

-----------------------------------------------------------------------------
(* threadFunc *)

\* The EventLoop is constructed and the init callback is called.
runInThread(t) ==
    /\ func[t] = "created"
    /\ func' = [func EXCEPT ![t] = "constructed"]
    /\ UNCHANGED <<starter, threads_, loops_, mutex_, notified, loop_>>

\* Faulty variant: the loop is published without the mutex.
LocksNothing(t) ==
    /\ func[t] = "constructed"
    /\ func' = [func EXCEPT ![t] = "locked"]
    /\ UNCHANGED <<starter, threads_, loops_, mutex_, notified, loop_>>

ThreadLocks(t) ==
    /\ func[t] = "constructed" /\ lock(t, "thread")
    /\ func' = [func EXCEPT ![t] = "locked"]
    /\ UNCHANGED <<starter, threads_, loops_, notified, loop_>>

Publishes(t) ==
    /\ func[t] = "locked"
    /\ loop_' = [loop_ EXCEPT ![t] = t]
    /\ func' = [func EXCEPT ![t] = "published"]
    /\ UNCHANGED <<starter, threads_, loops_, mutex_, notified>>

\* notify, and the end of the guard.  A signal nobody waits for is lost.
Notifies(t) ==
    /\ func[t] = "published"
    /\ notified' = (notified \/ (starter = "wait" /\ threads_ = t))
    /\ unlock(t)
    /\ func' = [func EXCEPT ![t] = "loop"]
    /\ UNCHANGED <<starter, threads_, loops_, loop_>>

\* loop.loop() has returned: the EventLoop goes, without the mutex.
Withdraws(t) ==
    /\ func[t] = "loop"
    /\ loop_' = [loop_ EXCEPT ![t] = NULL]
    /\ func' = [func EXCEPT ![t] = "finished"]
    /\ UNCHANGED <<starter, threads_, loops_, mutex_, notified>>

\* threadFunc up to loop.loop().
ThreadFunc(t) == runInThread(t) \/ ThreadLocks(t) \/ Publishes(t) \/ Notifies(t)

StarterStep == Start \/ Locks \/ Misses \/ Waits \/ Unlocks \/ Returns

ThreadNext == StarterStep \/ Wakes \/ \E t \in Thread : ThreadFunc(t)

\* Threads are scheduled; of a sleeper only that a signal wakes it.
ThreadFairness ==
    /\ WF_threadVars(StarterStep)
    /\ WF_threadVars(notified /\ Wakes)
    /\ SF_threadVars(Locks) /\ SF_threadVars(notified /\ Wakes)
    /\ \A t \in Thread : WF_threadVars(ThreadFunc(t)) /\ SF_threadVars(ThreadLocks(t))

-----------------------------------------------------------------------------
(* Properties *)

\* If every pthread_create succeeds, start returns, however the threads are
\* scheduled and without a spurious wakeup to help it, and the pool then has the
\* loop of every thread, in the order they were made.  If one fails, start never
\* returns: startLoop waits for a thread that does not exist.
PoolStarts ==
    \/ <>[](starter = "started" /\ loops_ = [t \in Thread |-> t])
    \/ <>[](starter \in {"sleep", "wait", "woken"} /\ func[threads_] = "failed")
==============================================================================
