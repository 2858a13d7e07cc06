------------------------------- MODULE MCLibco -------------------------------
(* Two coroutines on a shared stack, a socket and a file. *)
EXTENDS LibcoHooks
==============================================================================
