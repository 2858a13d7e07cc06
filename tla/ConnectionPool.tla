---------------------------- MODULE ConnectionPool ----------------------------
(***************************************************************************)
(* What the pool of tasks of a cocgi process promises: a connection is     *)
(* served by one worker, a worker serves one connection at a time          *)
(* ("one Tcp Connection per Coroutine", fastcgi.h), and a worker leaves    *)
(* the pool only when it serves nothing.                                   *)
(***************************************************************************)
EXTENDS Integers

CONSTANTS Worker,   \* possible workers
          Fd        \* possible connections

VARIABLES worker,   \* the workers of the pool
          serving   \* the connection of every worker that has one

pool == <<worker, serving>>

Free == worker \ DOMAIN serving

Init == /\ worker \in SUBSET Worker
        /\ serving = [w \in {} |-> 0]

Hire(w) == /\ w \notin worker
           /\ worker' = worker \union {w}
           /\ UNCHANGED serving

Dismiss(w) == /\ w \in Free
              /\ worker' = worker \ {w}
              /\ UNCHANGED serving

Serve(w, f) == /\ w \in Free
               /\ \A v \in DOMAIN serving : serving[v] # f
               /\ serving' = [v \in DOMAIN serving \union {w} |->
                                IF v = w THEN f ELSE serving[v]]
               /\ UNCHANGED worker

Finish(w) == /\ w \in DOMAIN serving
             /\ serving' = [v \in DOMAIN serving \ {w} |-> serving[v]]
             /\ UNCHANGED worker

\* The process ends: the kernel closes every connection.
Halt == /\ serving' = [w \in {} |-> 0]
        /\ UNCHANGED worker

Next == \/ \E w \in Worker : Hire(w) \/ Dismiss(w) \/ Finish(w)
        \/ \E w \in Worker, f \in Fd : Serve(w, f)
        \/ Halt

Spec == Init /\ [][Next]_pool
==============================================================================
