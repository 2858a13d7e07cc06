------------------------------ MODULE ByteQueue ------------------------------
(***************************************************************************)
(* What a muduo Buffer promises its users: a queue of bytes that is        *)
(* written at the back, read at the front, and can be prepended to.        *)
(***************************************************************************)
EXTENDS Integers, Sequences

CONSTANT Chunk   \* what may be written at once: sequences of bytes

VARIABLES queue,
          call    \* the last operation and its argument, as its user knows them

Call(op, data, n) == [op |-> op, data |-> data, n |-> n]

Init == queue = <<>> /\ call = Call("none", <<>>, 0)

Write(data)   == queue' = queue \o data /\ call' = Call("write", data, 0)
Prepend(data) == queue' = data \o queue /\ call' = Call("prepend", data, 0)

\* n bytes leave at the front, or at the back.
Retrieve(n) == queue' = SubSeq(queue, n + 1, Len(queue)) /\ call' = Call("retrieve", <<>>, n)
Unwrite(n)  == queue' = SubSeq(queue, 1, Len(queue) - n) /\ call' = Call("unwrite", <<>>, n)

\* Asking for room changes nothing.
Reserve == queue' = queue /\ call' = Call("none", <<>>, 0)

Next ==
    \/ \E data \in Chunk : Write(data) \/ Prepend(data)
    \/ \E n \in 0 .. Len(queue) : Retrieve(n) \/ Unwrite(n)
    \/ Reserve

Spec == Init /\ [][Next]_<<queue, call>>
==============================================================================
