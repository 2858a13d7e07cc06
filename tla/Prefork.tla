------------------------------ MODULE Prefork -------------------------------
(***************************************************************************)
(* The processes of the two forking servers: CFastCgiServer::Run           *)
(* (fastcgi/fastcgi_server.cpp) with the accept loop of libfcgi            *)
(* (fastcgi_lib/os_unix.cpp), and CCocgiServer::Run                        *)
(* (cocgi/cocgi_lib/cocgi.cpp), whose workers CocgiServer models.          *)
(* SIGUSR1 asks a process to stop accepting.                               *)
(***************************************************************************)
EXTENDS Naturals, FiniteSets, FiniteSetsExt

CONSTANTS m_usProcessCount,
          Servers,      \* the servers that may be run
          MaxLate       \* bound on the history variable late

ASSUME PreforkAssumption == 
    /\ m_usProcessCount \in Nat \ {0}
    /\ MaxLate \in Nat
    /\ Servers \subseteq [kind : {"fastcgi", "cocgi"}, family : {"inet", "unix"},
                          bDaemonize : BOOLEAN, addrs : BOOLEAN]

\* A child goes on with its parent's loop, so a fork may double the processes.
Proc == 1 .. 2 ^ m_usProcessCount

VARIABLES server,       \* what is running: [kind, family, bDaemonize, addrs]
          proc,         \* proc[p]: a process
          queue,        \* whether a client waits in the listen queue
          late          \* late[p]: connections p accepted after SIGUSR1

preforkVars == <<server, proc, queue, late>>

\* listen: descriptor 0 is the listening socket; m_iListenFd: that descriptor is
\* open; handler: OS_LibInit has run, in the first FCGI_Accept; isCGI: what that
\* call made of descriptor 0; pending: shutdownPending; socket: OS_Accept's local
\* variable, "none", "open" or "closed" (it keeps the number).
NoProc == [pc |-> "none", i |-> 0, listen |-> FALSE, m_iListenFd |-> FALSE, handler |-> FALSE,
           isCGI |-> FALSE, pending |-> FALSE, socket |-> "none", parent |-> 0]

Idle == [p \in Proc |-> NoProc]

PreforkInitAt(s, procs) ==
    /\ server = s
    /\ proc = procs
    /\ queue = FALSE
    /\ late = [p \in Proc |-> 0]

PreforkInit == \E s \in Servers : PreforkInitAt(s, [Idle EXCEPT ![1].pc = "init"])

PreforkIdle == PreforkInitAt(CHOOSE s \in Servers : TRUE, Idle)

Moves(p, new) == proc' = [proc EXCEPT ![p] = new]

-----------------------------------------------------------------------------
(* Init and the fork loop *)

\* CreateTcpSocket gives a bound socket or fails.
CreateTcpSocket == {"bound", "failed"}

CocgiCreateTcpSocket == {"bound", "failed"}

\* Init: socket, bind and listen.
Initialises(p) ==
    /\ proc[p].pc = "init" /\ server.kind = "fastcgi"
    /\ \E fd \in CreateTcpSocket :
          \/ fd = "bound" /\ Moves(p, [proc[p] EXCEPT !.pc = "fork", !.m_iListenFd = TRUE])
          \/ Moves(p, [proc[p] EXCEPT !.pc = "ended"])
    /\ UNCHANGED <<server, queue, late>>

CocgiInitialises(p) ==
    /\ proc[p].pc = "init" /\ server.kind = "cocgi"
    /\ \E fd \in CocgiCreateTcpSocket :
          \/ fd = "bound" /\ Moves(p, [proc[p] EXCEPT !.pc = "fork", !.m_iListenFd = TRUE])
          \/ Moves(p, [proc[p] EXCEPT !.pc = "ended"])
    /\ UNCHANGED <<server, queue, late>>

\* fork copies the process; the child is in the same round of the loop.
ForksWorker(p) ==
    /\ proc[p].pc = "fork" /\ proc[p].i < m_usProcessCount
    /\ \/ LET q == Min({r \in Proc : proc[r].pc = "none"})
          IN  proc' = [proc EXCEPT ![p].i = @ + 1,
                                   ![q] = [proc[p] EXCEPT !.pc = "child", !.parent = p]]
       \/ Moves(p, [proc[p] EXCEPT !.i = @ + 1])
    /\ UNCHANGED <<server, queue, late>>

\* The end of Run: not a daemon, the process waits for one of its children.
Children(p) == {q \in Proc : proc[q].pc # "none" /\ proc[q].parent = p}

Finishes(p) ==
    /\ proc[p].pc = "fork" /\ proc[p].i >= m_usProcessCount
    /\ Moves(p, [proc[p] EXCEPT !.pc = IF server.bDaemonize THEN "ended" ELSE "wait"])
    /\ UNCHANGED <<server, queue, late>>

WaitReturns(p) ==
    /\ proc[p].pc = "wait"
    /\ Children(p) = {} \/ \E q \in Children(p) : proc[q].pc = "ended"
    /\ Moves(p, [proc[p] EXCEPT !.pc = "ended"])
    /\ UNCHANGED <<server, queue, late>>

\* A cocgi worker: its coroutines run until exit, or cannot be made and Run
\* returns false.
CocgiWorks(p) ==
    /\ proc[p].pc = "child" /\ server.kind = "cocgi"
    /\ \E to \in {"loop", "ended"} : Moves(p, [proc[p] EXCEPT !.pc = to])
    /\ UNCHANGED <<server, queue, late>>

\* A fastcgi worker makes the listening socket its descriptor 0.  A child of a
\* worker has no m_iListenFd any more, and is left without one.
TakesSocket(p) ==
    /\ proc[p].pc = "child" /\ server.kind = "fastcgi"
    /\ Moves(p, [proc[p] EXCEPT !.pc = "accept", !.listen = proc[p].m_iListenFd, !.m_iListenFd = FALSE])
    /\ UNCHANGED <<server, queue, late>>

-----------------------------------------------------------------------------
(* FCGI_Accept and OS_Accept *)


\* OS_Accept returns -1, so does FCGI_Accept, and the process is back in the
\* loop of Run.
Returned(p) == [proc[p] EXCEPT !.pc = "fork", !.i = @ + 1]

\* getpeername fails with ENOTCONN on a listening socket only.
OS_IsFcgi(r) == r.listen

\* The handler of SIGUSR1, in place of the default; libfcgi's state is made once,
\* and a child of a worker has inherited both.
OS_InstallSignalHandlers(r) == [r EXCEPT !.handler = TRUE]

OS_LibInit(r) == OS_InstallSignalHandlers(r)

FCGX_Init(r) == IF r.handler THEN r ELSE OS_LibInit(r)

FCGX_IsCGI(r) == ~OS_IsFcgi(FCGX_Init(r))

FCGX_Accept(r) == [FCGX_Init(r) EXCEPT !.pc = "test", !.socket = "none"]

\* A process that is no FastCGI server has one request, from its standard input.
CallsAccept(p) ==
    /\ proc[p].pc = "accept"
    /\ LET r == proc[p]
           first == ~r.handler
           isCGI == IF first THEN FCGX_IsCGI(r) ELSE r.isCGI
       IN  Moves(p, IF ~isCGI THEN FCGX_Accept(r)
                    ELSE IF first THEN [FCGX_Init(r) EXCEPT !.isCGI = TRUE, !.pc = "serve"]
                    ELSE Returned(p))
    /\ UNCHANGED <<server, queue, late>>

SeenPending(p) == proc[p].pending

\* The test before accept.  socket still has the number of a client that was
\* refused, and then the loop goes round.
Looks(p) ==
    /\ proc[p].pc = "test"
    /\ \/ ~SeenPending(p) /\ Moves(p, [proc[p] EXCEPT !.pc = "window"])
       \/ SeenPending(p) /\ proc[p].socket = "none" /\ Moves(p, Returned(p))
       \/ SeenPending(p) /\ proc[p].socket = "closed" /\ UNCHANGED proc
    /\ UNCHANGED <<server, queue, late>>

Blocks(p) ==
    /\ proc[p].pc = "window"
    /\ Moves(p, [proc[p] EXCEPT !.pc = "blocked"])
    /\ UNCHANGED <<server, queue, late>>

\* is_reasonable_accept_errno: go on; any other error ends the loop.
AcceptErrors(p) ==
    /\ proc[p].pc = "blocked" /\ proc[p].listen
    /\ \/ Moves(p, [proc[p] EXCEPT !.pc = "test", !.socket = "none"])
       \/ Moves(p, Returned(p))
    /\ UNCHANGED <<server, queue, late>>

\* Descriptor 0 is closed, and accept fails at once.
HasNoSocket(p) ==
    /\ proc[p].pc = "blocked" /\ ~proc[p].listen
    /\ Moves(p, Returned(p))
    /\ UNCHANGED <<server, queue, late>>

\* ClientAddrOK for an internet client, is_af_unix_keeper for a local one.
Refusable == server.family = "unix" \/ server.addrs

AcceptsClient(p) ==
    /\ proc[p].pc = "blocked" /\ proc[p].listen /\ queue
    /\ queue' = FALSE
    /\ late' = [late EXCEPT ![p] = IF proc[p].pending /\ @ < MaxLate THEN @ + 1 ELSE @]
    /\ \/ Moves(p, [proc[p] EXCEPT !.pc = "serve", !.socket = "open"])
       \/ Refusable /\ Moves(p, [proc[p] EXCEPT !.pc = "test", !.socket = "closed"])
    /\ UNCHANGED server

\* The requests of the connection, until it is closed.
Serves(p) ==
    /\ proc[p].pc = "serve"
    /\ Moves(p, [proc[p] EXCEPT !.pc = "accept", !.socket = "none"])
    /\ UNCHANGED <<server, queue, late>>

-----------------------------------------------------------------------------
(* Signals and clients *)

\* OS_Sigusr1Handler sets the flag; accept and wait fail with EINTR, for it is
\* installed without SA_RESTART.  Without it the signal ends the process.
OS_Sigusr1Handler(p) ==
    /\ proc[p].pc \notin {"none", "init", "ended"}
    /\ ~proc[p].pending \/ proc[p].pc \in {"blocked", "wait"}
    /\ Moves(p, IF ~proc[p].handler \/ proc[p].pc = "wait"
                THEN [proc[p] EXCEPT !.pc = "ended", !.pending = TRUE]
                ELSE IF proc[p].pc = "blocked" THEN [Returned(p) EXCEPT !.pending = TRUE]
                ELSE [proc[p] EXCEPT !.pending = TRUE])
    /\ UNCHANGED <<server, queue, late>>

Connects ==
    /\ ~queue
    /\ \E p \in Proc : proc[p].pc # "ended" /\ (proc[p].listen \/ proc[p].m_iListenFd)
    /\ queue' = TRUE
    /\ UNCHANGED <<server, proc, late>>

ProcStep(p) ==
    \/ Initialises(p) \/ CocgiInitialises(p) \/ ForksWorker(p) \/ Finishes(p) \/ WaitReturns(p)
    \/ CocgiWorks(p) \/ TakesSocket(p) \/ CallsAccept(p) \/ Looks(p) \/ Blocks(p)
    \/ HasNoSocket(p) \/ AcceptsClient(p) \/ Serves(p)

PreforkNext ==
    \/ \E p \in Proc : ProcStep(p) \/ AcceptErrors(p) \/ OS_Sigusr1Handler(p)
    \/ Connects

\* Every process runs.  Nothing makes a client connect.
PreforkFairness == \A p \in Proc : WF_preforkVars(ProcStep(p))

-----------------------------------------------------------------------------
(* Properties *)

\* After SIGUSR1 a worker accepts at most the one connection for which it had
\* left the test of shutdownPending behind it (OS_Accept: "There's a window
\* here").  fcgiapp.h says "any new requests" of FCGX_ShutdownPending; one is
\* what the window lets through.
AtMostOneMore == \A p \in Proc : late[p] <= 1

Signalled(p) == proc[p].pc \in {"none", "ended"} \/ proc[p].pending

\* The loop of OS_Accept that a refused client leaves behind.
Stuck(p) == proc[p].pc = "test" /\ proc[p].socket = "closed" /\ proc[p].pending

\* The signal came in the window, and no client comes to end the accept.
Missed(p) == proc[p].pc = "blocked" /\ proc[p].pending /\ proc[p].listen /\ ~queue

\* wait() for children that have not ended.
Awaits(p) == proc[p].pc = "wait" /\ Children(p) # {}
             /\ \A q \in Children(p) : proc[q].pc # "ended"

==============================================================================
