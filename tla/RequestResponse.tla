-------------------------- MODULE RequestResponse --------------------------
(***************************************************************************)
(* What a FastCGI server promises on a connection that does not multiplex: *)
(* requests are answered one at a time, in order, and each answer is made  *)
(* from all of its own request and from nothing else.                      *)
(***************************************************************************)
EXTENDS Naturals, Sequences

CONSTANT Request

VARIABLES asked,     \* requests the web server has sent on the connection
          answered   \* requests handed to the backend on the connection

conversation == <<asked, answered>>

Init == asked = <<>> /\ answered = <<>>

Ask(r) ==
    /\ Len(answered) = Len(asked)
    /\ asked' = Append(asked, r)
    /\ UNCHANGED answered

Answer ==
    /\ Len(answered) < Len(asked)
    /\ answered' = Append(answered, asked[Len(answered) + 1])
    /\ UNCHANGED asked

\* The connection ends and the next one begins.
HangUp == asked' = <<>> /\ answered' = <<>>

Next == (\E r \in Request : Ask(r)) \/ Answer \/ HangUp

Spec == Init /\ [][Next]_conversation
==============================================================================
