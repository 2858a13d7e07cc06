----------------------------- MODULE MCTcpServer -----------------------------
(* Three connections on two descriptors, so that one is reused; no pool, or *)
(* one of two threads.                                                      *)
EXTENDS TcpServer

CONSTANTS io1, io2, c2, c3, f1

MCPools == {<<>>, <<io1, io2>>}

\* Connections c2 and c3 behave alike, and so do the descriptors: c2 is accepted
\* first, and the first connection of all gets f1.
InTurn ==
    /\ c3 \in made' => c2 \in made'
    /\ made = {} => \A c \in made' : fd'[c] = f1

MCNext == (Accepts /\ InTurn) \/ \E l \in Loop : LoopStep(l)

MCSpec == Init /\ [][MCNext]_vars /\ Fairness
==============================================================================
