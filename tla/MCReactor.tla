----------------------------- MODULE MCReactor -----------------------------
(***************************************************************************)
(* Components that share no state, one in each behaviour: the timers, the  *)
(* pollers and the acceptor of a muduo loop, and the processes.            *)
(***************************************************************************)
EXTENDS TimerQueue, Pollers, Acceptor, MCProcesses

VARIABLE part

MCAddr      == 1 .. 2
MCDelays    == {0, 2}
MCIntervals == {1}

\* Two of the channels have the same descriptor, one after the other; the
\* smallest descriptor is 0, which is ignored as -1.  One channel never writes,
\* like an acceptor's or that of the timers.
MCChannel   == {"a", "b", "c", "d"}
MCFdOf(c)   == CASE c = "a" -> 0 [] c = "b" -> 1 [] c = "c" -> 2 [] c = "d" -> 0
MCNoFd      == -1
NeverWrites == "c"

ReactorInit ==
    /\ part \in {"timers", "pollers", "acceptor", "processes"}
    /\ TimerInit /\ PollerInit /\ AcceptInit
    /\ part # "acceptor" => threads = 0 /\ ~taken
    /\ IF part = "processes" THEN Init ELSE Resting

ReactorNext ==
    /\ UNCHANGED part
    /\ \/ part = "timers" /\ TimerNext /\ UNCHANGED <<pollerVars, acceptVars, vars, preforkVars>>
       \/ /\ part = "pollers" /\ PollerNext /\ events_'[NeverWrites] \subseteq kReadEvent
          /\ UNCHANGED <<timerVars, acceptVars, vars, preforkVars>>
       \/ /\ part = "acceptor" /\ AcceptNext
          /\ UNCHANGED <<timerVars, pollerVars, vars, preforkVars>>
       \/ part = "processes" /\ Next /\ UNCHANGED <<timerVars, pollerVars, acceptVars>>

ReactorSpec ==
    /\ ReactorInit
    /\ [][ReactorNext]_<<part, timerVars, pollerVars, acceptVars, vars, preforkVars>>
    /\ \A p \in Proc : WF_preforkVars(part = "processes" /\ ProcStep(p))
==============================================================================
