---------------------------- MODULE MCEventLoop ----------------------------
(***************************************************************************)
(* A pool of two I/O threads is started; EventLoop is the loop of the      *)
(* first.  Two other threads get hold of it once startLoop has returned    *)
(* it, which may be before the thread has entered loop(); channels, whose  *)
(* handlers queue functors, are made for it from then on too.              *)
(***************************************************************************)
EXTENDS EventLoop, EventLoopThread, TLC

CONSTANTS c1, c2

MCCaller == {c1, c2}

First == 1

StartedInit == Init /\ ThreadInit

StartedNext ==
    \/ ThreadNext /\ UNCHANGED vars
    \/ /\ func[First] = "loop"
       /\ LoopStep \/ PollReturns \/ (loops_ # <<>> /\ HandlerQueues)
       /\ UNCHANGED threadVars
    \/ pc = "exited" /\ Withdraws(First) /\ UNCHANGED vars
    \/ /\ loops_ # <<>>
       /\ \E c \in Caller : CallerStep(c)
       /\ UNCHANGED threadVars

StartedSpec ==
    /\ StartedInit /\ [][StartedNext]_<<vars, threadVars>>
    /\ ThreadFairness
    /\ WF_vars(func[First] = "loop" /\ LoopStep)
    /\ WF_threadVars(pc = "exited" /\ Withdraws(First))
    /\ \A c \in Caller : WF_vars(CallerWakes(c))
==============================================================================
