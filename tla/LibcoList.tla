------------------------------ MODULE LibcoList ------------------------------
(***************************************************************************)
(* The linked lists of libco (cocgi_lib/libco/co_routine.cpp), on which    *)
(* the timeout wheel, the active list and the condition variables are      *)
(* built: what the four operations do to the pointers.  The other modules  *)
(* take such a list for a sequence.                                        *)
(*                                                                         *)
(* A heap has the nodes' pNext, pPrev and pLink and the lists' head and    *)
(* tail, each a function to nodes or lists and NULL.                       *)
(***************************************************************************)
EXTENDS Naturals, Sequences

CONSTANTS NULL

EmptyHeap(nodes, lists) ==
    [pNext |-> [n \in nodes |-> NULL], pPrev |-> [n \in nodes |-> NULL], pLink |-> [n \in nodes |-> NULL],
     head  |-> [l \in lists |-> NULL], tail  |-> [l \in lists |-> NULL]]

Unlinked(h, ap) == [h EXCEPT !.pNext[ap] = NULL, !.pPrev[ap] = NULL, !.pLink[ap] = NULL]

RemoveFromLink(h, ap) ==
    LET lst   == h.pLink[ap]
        next  == h.pNext[ap]
        prev  == h.pPrev[ap]
        front == IF ap = h.head[lst]
                 THEN LET g == [h EXCEPT !.head[lst] = next]
                      IN  IF next # NULL THEN [g EXCEPT !.pPrev[next] = NULL] ELSE g
                 ELSE IF prev # NULL THEN [h EXCEPT !.pNext[prev] = next] ELSE h
        back  == IF ap = h.tail[lst]
                 THEN LET g == [front EXCEPT !.tail[lst] = prev]
                      IN  IF prev # NULL THEN [g EXCEPT !.pNext[prev] = NULL] ELSE g
                 ELSE [front EXCEPT !.pPrev[next] = prev]
    IN  IF lst = NULL THEN h ELSE Unlinked(back, ap)

AddTail(h, apLink, ap) ==
    LET last == h.tail[apLink]
        g    == [h EXCEPT !.tail[apLink] = ap, !.pNext[ap] = NULL, !.pPrev[ap] = last, !.pLink[ap] = apLink]
    IN  IF h.pLink[ap] # NULL THEN h
        ELSE IF last # NULL THEN [g EXCEPT !.pNext[last] = ap]
        ELSE [g EXCEPT !.head[apLink] = ap]

PopHead(h, apLink) ==
    LET lp   == h.head[apLink]
        next == h.pNext[lp]
        g    == Unlinked(IF lp = h.tail[apLink]
                         THEN [h EXCEPT !.head[apLink] = NULL, !.tail[apLink] = NULL]
                         ELSE [h EXCEPT !.head[apLink] = next], lp)
    IN  IF lp = NULL THEN h
        ELSE IF g.head[apLink] # NULL THEN [g EXCEPT !.pPrev[g.head[apLink]] = NULL]
        ELSE g

\* Faulty variant: the moved nodes keep their old pLink.
JoinNoLink(h, apLink, apOther) ==
    LET first == h.head[apOther]
        last  == h.tail[apLink]
        g     == [h EXCEPT !.tail[apLink] = h.tail[apOther], !.head[apOther] = NULL, !.tail[apOther] = NULL]
    IN  IF first = NULL THEN h
        ELSE IF last # NULL THEN [g EXCEPT !.pNext[last] = first, !.pPrev[first] = last]
        ELSE [g EXCEPT !.head[apLink] = first]

\* Every node that follows the head of apOther gets the new pLink.
RECURSIVE Following(_, _)
Following(h, n) == IF n = NULL THEN {} ELSE {n} \cup Following(h, h.pNext[n])

Join(h, apLink, apOther) ==
    LET first == h.head[apOther]
        last  == h.tail[apLink]
        moved == Following(h, first)
        g     == [h EXCEPT !.pLink = [n \in DOMAIN @ |-> IF n \in moved THEN apLink ELSE @[n]],
                           !.tail[apLink] = h.tail[apOther], !.head[apOther] = NULL, !.tail[apOther] = NULL]
    IN  IF first = NULL THEN h
        ELSE IF last # NULL THEN [g EXCEPT !.pNext[last] = first, !.pPrev[first] = last]
        ELSE [g EXCEPT !.head[apLink] = first]
==============================================================================
