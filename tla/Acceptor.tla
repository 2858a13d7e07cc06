------------------------------- MODULE Acceptor -------------------------------
(***************************************************************************)
(* muduo's Acceptor: how mucgi comes to listen, and how it accepts when    *)
(* the process has run out of descriptors, while other threads open and    *)
(* close descriptors too.                                                  *)
(*                                                                         *)
(* The functions called ...OrDie log a fatal error and return: LOG_SYSFATAL *)
(* is a line of the log in this repository (comm/log.h).                   *)
(***************************************************************************)
EXTENDS Integers, FiniteSets

CONSTANTS Fd,           \* descriptors the process may have open
          NoFd,         \* -1
          MaxClients,   \* bound on the clients waiting
          ThreadCounts  \* numbers of I/O threads mucgi may be started with

VARIABLES
    step,           \* of the base thread
    threads,        \* I/O threads
    taken,          \* another socket listens on the port, without SO_REUSEPORT
    owner,          \* of each descriptor: free, listen, idle, conn or other
    acceptSocket_,
    idleFd_,
    port,           \* what the listening socket is bound to: none, own or other
    listenning_,
    clients,        \* in the kernel's queue
    saved           \* errno when accept has failed and the failure is logged

acceptVars == <<step, threads, taken, owner, acceptSocket_, idleFd_, port, listenning_, clients,
                saved>>

AcceptInit ==
    /\ step = "socket"
    /\ threads \in ThreadCounts /\ taken \in BOOLEAN
    /\ owner = [f \in Fd |-> "free"]
    /\ acceptSocket_ = NoFd /\ idleFd_ = NoFd
    /\ port = "none" /\ listenning_ = FALSE /\ clients = 0 /\ saved = "none"

Free == {f \in Fd : owner[f] = "free"}

\* A system call that returns a descriptor: a free one for who, or NoFd.
Opens(who, f) ==
    \/ f \in Free /\ owner' = [owner EXCEPT ![f] = who]
    \/ f = NoFd /\ Free = {} /\ UNCHANGED owner

\* close of a variable's descriptor; of -1 it does nothing.
Closes(f) == owner' = IF f = NoFd THEN owner ELSE [owner EXCEPT ![f] = "free"]

-----------------------------------------------------------------------------
(* Starting: the constructor and listen *)

\* socket may fail for other reasons than a full table.
createNonblockingOrDie ==
    /\ step = "socket"
    /\ \/ \E f \in Fd \cup {NoFd} : Opens("listen", f) /\ acceptSocket_' = f
       \/ UNCHANGED <<owner, acceptSocket_>>
    /\ step' = "idle"
    /\ UNCHANGED <<threads, taken, idleFd_, port, listenning_, clients, saved>>

\* open("/dev/null").  Without a descriptor for it the assertion fails.
OpensIdle ==
    /\ step = "idle"
    /\ \E f \in Fd : Opens("idle", f) /\ idleFd_' = f
    /\ step' = "bind"
    /\ UNCHANGED <<threads, taken, acceptSocket_, port, listenning_, clients, saved>>

\* An address in use is logged, and the server goes on.
bindOrDie ==
    /\ step = "bind"
    /\ port' = IF acceptSocket_ = NoFd \/ taken THEN "none" ELSE "own"
    /\ step' = "listen"
    /\ UNCHANGED <<threads, taken, owner, acceptSocket_, idleFd_, listenning_, clients, saved>>

\* listen binds a socket that is not bound to a port the kernel chooses.  That it
\* fails without a socket is only logged.
listenOrDie ==
    /\ step = "listen"
    /\ listenning_' = TRUE
    /\ port' = IF acceptSocket_ # NoFd /\ port = "none" THEN "other" ELSE port
    /\ step' = "poll"
    /\ UNCHANGED <<threads, taken, owner, acceptSocket_, idleFd_, clients, saved>>

-----------------------------------------------------------------------------
(* Acceptor::handleRead, when the listening socket is readable *)

ClientComes ==
    /\ listenning_ /\ acceptSocket_ # NoFd
    /\ clients < MaxClients /\ clients' = clients + 1
    /\ UNCHANGED <<step, threads, taken, owner, acceptSocket_, idleFd_, port, listenning_, saved>>

\* A client that waits gives up.
ClientGoes ==
    /\ clients > 0 /\ clients' = clients - 1
    /\ UNCHANGED <<step, threads, taken, owner, acceptSocket_, idleFd_, port, listenning_, saved>>

\* sockets::accept: newConnection, or an error.  The client may have gone.  The
\* error is logged before errno is looked at, which logging may change.
AcceptorHandleRead ==
    /\ step = "poll" /\ clients > 0
    /\ \/ \E f \in Free :
             /\ Opens("conn", f)
             /\ clients' = clients - 1
             /\ UNCHANGED <<step, saved>>
       \/ /\ Free = {}
          /\ saved' \in {"EMFILE", "other"} /\ step' = "emfile"
          /\ UNCHANGED <<owner, clients>>
       \/ /\ clients' = clients - 1         \* ECONNABORTED
          /\ UNCHANGED <<step, owner, saved>>
    /\ UNCHANGED <<threads, taken, acceptSocket_, idleFd_, port, listenning_>>

\* errno was lost: the client stays in the queue, and the socket readable.
ForgetsError ==
    /\ step = "emfile" /\ saved # "EMFILE"
    /\ step' = "poll" /\ saved' = "none"
    /\ UNCHANGED <<threads, taken, owner, acceptSocket_, idleFd_, port, listenning_, clients>>

\* The spare descriptor is given up ...
ClosesIdle ==
    /\ step = "emfile" /\ saved = "EMFILE"
    /\ Closes(idleFd_)
    /\ step' = "accept"
    /\ UNCHANGED <<threads, taken, acceptSocket_, idleFd_, port, listenning_, clients, saved>>

\* ... to accept the client, if it is still there and no other thread was
\* faster ...
AcceptsOnIdle ==
    /\ step = "accept"
    /\ \/ \E f \in Free :
             /\ clients > 0 /\ clients' = clients - 1
             /\ Opens("idle", f) /\ idleFd_' = f
       \/ /\ clients = 0 \/ Free = {}
          /\ idleFd_' = NoFd /\ UNCHANGED <<owner, clients>>
    /\ step' = "hangup"
    /\ UNCHANGED <<threads, taken, acceptSocket_, port, listenning_, saved>>

\* Faulty variant: the client is not hung up on.
KeepsClient ==
    /\ step = "hangup"
    /\ step' = "reopen"
    /\ UNCHANGED <<threads, taken, owner, acceptSocket_, idleFd_, port, listenning_, clients, saved>>

\* ... and hang up on it.
HangsUp ==
    /\ step = "hangup"
    /\ Closes(idleFd_)
    /\ step' = "reopen"
    /\ UNCHANGED <<threads, taken, acceptSocket_, idleFd_, port, listenning_, clients, saved>>

Reopens ==
    /\ step = "reopen"
    /\ \E f \in Fd \cup {NoFd} : Opens("idle", f) /\ idleFd_' = f
    /\ step' = "poll" /\ saved' = "none"
    /\ UNCHANGED <<threads, taken, acceptSocket_, port, listenning_, clients>>

-----------------------------------------------------------------------------
\* Connections are closed and files opened and closed by the thread that serves
\* them: an I/O thread at any time, the base thread between its polls.
OtherUses ==
    /\ step = "poll" \/ threads > 0
    /\ \/ \E f \in Fd : Opens("other", f)
       \/ \E f \in Fd : owner[f] \in {"conn", "other"} /\ Closes(f)
    /\ UNCHANGED <<step, threads, taken, acceptSocket_, idleFd_, port, listenning_, clients, saved>>

AcceptNext ==
    \/ createNonblockingOrDie \/ OpensIdle \/ bindOrDie \/ listenOrDie
    \/ ClientComes \/ ClientGoes
    \/ AcceptorHandleRead \/ ForgetsError \/ ClosesIdle \/ AcceptsOnIdle \/ HangsUp \/ Reopens
    \/ OtherUses

-----------------------------------------------------------------------------
(* Properties *)

\* Whenever the base thread polls, every descriptor the acceptor has opened is
\* one it still knows: nothing leaks when clients are turned away for want of
\* descriptors, and nothing of another thread was closed in its place.  A
\* server without I/O threads always gets its spare descriptor back.
SpareIsKept ==
    step = "poll" =>
        /\ {f \in Fd : owner[f] = "idle"} = {idleFd_} \ {NoFd}
        /\ {f \in Fd : owner[f] = "listen"} = {acceptSocket_} \ {NoFd}
        /\ threads = 0 => idleFd_ # NoFd
==============================================================================
