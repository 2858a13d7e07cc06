----------------------------- MODULE SpawnFcgi ------------------------------
(***************************************************************************)
(* spawn-fcgi (spawn-fcgi/spawn-fcgi.c): programs that bind the socket of  *)
(* a backend, give up their privileges, fork the backend and report how    *)
(* it went.  Several spawners may run at the same time for one socket.     *)
(* A system call that can fail does so at will.                            *)
(***************************************************************************)
EXTENDS Integers, Sequences, FiniteSets, SequencesExt

CONSTANTS Spawner,      \* runs of the program
          Starts,       \* the command lines they may be given, together
          NoPid

\* A command line: app, port, path and tooLong (the socket), root (getuid() is
\* 0), setugid (the binary has a SUID or SGID bit), user, group, sockuser,
\* sockgroup, chroot, early (-S), nofork, forks, pid (-P: what is there,
\* "absent", "regular" or "other") and dir.  A user is a number, 0 for a name,
\* and its passwd entry; a group is a number and its gid.
VARIABLES opt,          \* opt[p]: the command line of p
          pc,           \* where p is; "exec" once it has become the backend
          rc,           \* what p returned
          account,          \* account[p]: what find_user_group said
          cred,         \* credentials and root directory of p
          fd,           \* whether p has its socket open
          sock,         \* sock[p]: "none", "bound" or "listening"
          file,         \* file[r]: whose socket the path is in root directory r
          pidfile,      \* pidfile[p]: what is written in the pid file of p
          pid_fd,       \* whether p has its pid file open
          left,         \* fork_count
          kids          \* the children of p, in the order of their forks

\* A pid file holds numbers of children, and these.
EndOfLine == 0
OldText   == -1

procs   == <<opt, pc, rc, account, cred, left, kids>>
sockets == <<fd, sock, file>>
files   == <<pidfile, pid_fd>>
vars    == <<procs, sockets, files>>

Root == [uid |-> 0, gid |-> 0, groups |-> "caller", dir |-> "root"]

SpawnInitAt(start, where) ==
    /\ opt = start
    /\ pc = [p \in Spawner |-> where]
    /\ rc = [p \in Spawner |-> NoPid]
    /\ account = [p \in Spawner |-> NoPid]
    /\ cred = [p \in Spawner |-> IF opt[p].root THEN Root ELSE [Root EXCEPT !.uid = 9, !.gid = 9]]
    /\ fd = [p \in Spawner |-> FALSE]
    /\ sock = [p \in Spawner |-> "none"]
    /\ file = [r \in {"root", "jail"} |-> NoPid]
    /\ pidfile = [p \in Spawner |-> IF opt[p].pid = "regular" THEN <<OldText>> ELSE <<>>]
    /\ pid_fd = [p \in Spawner |-> FALSE]
    /\ left = [p \in Spawner |-> opt[p].forks]
    /\ kids = [p \in Spawner |-> <<>>]

SpawnInit == \E start \in Starts : SpawnInitAt(start, "options")

SpawnIdle == SpawnInitAt(CHOOSE start \in Starts : TRUE, "done")

-----------------------------------------------------------------------------
(* main *)

Goes(p, to) == pc' = [pc EXCEPT ![p] = to]

\* main returns with an error; the process ends and its descriptors close.
Fails(p) ==
    /\ pc' = [pc EXCEPT ![p] = "done"]
    /\ rc' = [rc EXCEPT ![p] = -1]
    /\ fd' = [fd EXCEPT ![p] = FALSE]
    /\ pid_fd' = [pid_fd EXCEPT ![p] = FALSE]

Acceptable(o) ==
    /\ o.app
    /\ o.port # o.path
    /\ ~(o.path /\ o.tooLong)
    /\ o.root \/ ~o.setugid

getopt(p) ==
    /\ pc[p] = "options"
    /\ \/ /\ Acceptable(opt[p])
          /\ Goes(p, "pidfile")
          /\ UNCHANGED <<rc, fd, pid_fd>>
       \/ ~Acceptable(opt[p]) /\ Fails(p)
    /\ UNCHANGED <<opt, account, cred, sock, file, pidfile, left, kids>>

\* A pid file that exists is taken over if it is a regular file.
OpenPidFile(p) ==
    /\ pc[p] = "pidfile"
    /\ LET wanted == opt[p].pid # NoPid /\ ~opt[p].nofork
           next == IF opt[p].root THEN "accounts" ELSE "test"
       IN  \/ /\ ~wanted
              /\ Goes(p, next)
              /\ UNCHANGED <<rc, fd, pid_fd, pidfile>>
           \/ /\ wanted /\ opt[p].pid # "other"
              /\ Goes(p, next)
              /\ pid_fd' = [pid_fd EXCEPT ![p] = TRUE]
              /\ pidfile' = [pidfile EXCEPT ![p] = <<>>]
              /\ UNCHANGED <<rc, fd>>
           \/ wanted /\ Fails(p) /\ UNCHANGED pidfile
    /\ UNCHANGED <<opt, account, cred, sock, file, left, kids>>

\* A number is an id whether or not an account has it; a name must be known;
\* neither may lead to 0.  Without a group the user's own is taken.
find_user_group(user, group) ==
    LET uid == IF user = NoPid THEN 0 ELSE IF user.number > 0 THEN user.number ELSE user.pwd.uid
        gid == IF group # NoPid THEN IF group.number > 0 THEN group.number ELSE group.gid
               ELSE IF user # NoPid /\ user.pwd # NoPid THEN user.pwd.gid ELSE 0
        known == /\ user # NoPid /\ user.number = 0 => user.pwd # NoPid
                 /\ group # NoPid /\ group.number = 0 => group.gid # NoPid
    IN  IF ~known \/ (user # NoPid /\ uid = 0) \/ ((group # NoPid \/ (user # NoPid /\ user.pwd # NoPid)) /\ gid = 0)
        THEN NoPid
        ELSE [uid |-> uid, gid |-> gid, named |-> user # NoPid /\ user.pwd # NoPid]

Accounts(p) ==
    /\ pc[p] = "accounts"
    /\ LET app   == find_user_group(opt[p].user, opt[p].group)
           owner == find_user_group(opt[p].sockuser, opt[p].sockgroup)
       IN  IF app = NoPid \/ owner = NoPid
           THEN Fails(p) /\ UNCHANGED account
           ELSE /\ account' = [account EXCEPT ![p] =
                             [uid |-> app.uid, gid |-> app.gid, named |-> app.named,
                              owned |-> {app.uid, app.gid, owner.uid, owner.gid} # {0}]]
                /\ Goes(p, IF opt[p].early THEN "test" ELSE "group")
                /\ UNCHANGED <<rc, fd, pid_fd>>
    /\ UNCHANGED <<opt, cred, sock, file, pidfile, left, kids>>

-----------------------------------------------------------------------------
(* bind_socket, one step for each look at the file system *)

\* A socket is open while the spawner or a backend has it.
Backends(p) == {i \in DOMAIN kids[p] : kids[p][i].state = "running"}

IsOpen(p) == fd[p] \/ Backends(p) # {} \/ \E i \in DOMAIN kids[p] : kids[p][i].state = "forked"

Listens(p) == sock[p] = "listening" /\ IsOpen(p)

Dir(p) == cred[p].dir

\* connect can only succeed at the name of a socket that listens.  It may fail
\* there too, as when the caller may not write to the socket (EACCES).
connect(name) == IF name # NoPid /\ Listens(name) THEN {"connected", "failed"} ELSE {"failed"}

\* The connect test: a socket that answers is in use.  Whatever made connect
\* fail, the name is taken for one that nobody serves.
Tests(p) ==
    /\ pc[p] = "test"
    /\ \/ /\ opt[p].path
          /\ \/ "connected" \in connect(file[Dir(p)]) /\ Fails(p)
             \/ "failed" \in connect(file[Dir(p)]) /\ Goes(p, "unlink") /\ UNCHANGED <<rc, fd, pid_fd>>
       \/ ~opt[p].path /\ Goes(p, "bind") /\ UNCHANGED <<rc, fd, pid_fd>>
       \/ Fails(p)                          \* no socket, or no such address
    /\ UNCHANGED <<opt, account, cred, sock, file, pidfile, left, kids>>

Unlinks(p) ==
    /\ pc[p] = "unlink"
    /\ \/ /\ file' = [file EXCEPT ![Dir(p)] = NoPid]
          /\ Goes(p, "bind")
          /\ UNCHANGED <<rc, fd, pid_fd>>
       \/ file[Dir(p)] # NoPid /\ Fails(p) /\ UNCHANGED file
    /\ UNCHANGED <<opt, account, cred, sock, pidfile, left, kids>>

\* SO_REUSEADDR: a port can be bound unless a socket listens on it.
PortTaken(p) == \E q \in Spawner \ {p} : opt[q].port /\ Listens(q)

\* socket, setsockopt and bind
Binds(p) ==
    /\ pc[p] = "bind"
    /\ \/ /\ IF opt[p].path THEN file[Dir(p)] = NoPid ELSE ~PortTaken(p)
          /\ file' = IF opt[p].path THEN [file EXCEPT ![Dir(p)] = p] ELSE file
          /\ sock' = [sock EXCEPT ![p] = "bound"]
          /\ fd' = [fd EXCEPT ![p] = TRUE]
          /\ Goes(p, IF opt[p].path THEN "chmod" ELSE "listen")
          /\ UNCHANGED <<rc, pid_fd>>
       \/ Fails(p) /\ UNCHANGED <<file, sock>>
    /\ UNCHANGED <<opt, account, cred, pidfile, left, kids>>

\* What bind_socket does when a later step fails; the name may meanwhile be
\* another spawner's.
GivesUp(p) ==
    /\ Fails(p)
    /\ sock' = [sock EXCEPT ![p] = "none"]
    /\ file' = IF opt[p].path THEN [file EXCEPT ![Dir(p)] = NoPid] ELSE file

\* chmod, and chown when the socket is to belong to somebody; both need the
\* name to exist.
SetsOwner(p) ==
    /\ pc[p] = "chmod"
    /\ \/ /\ file[Dir(p)] # NoPid
          /\ Goes(p, "listen")
          /\ UNCHANGED <<rc, fd, pid_fd, sock, file>>
       \/ GivesUp(p)
    /\ UNCHANGED <<opt, account, cred, pidfile, left, kids>>

AfterBind(p) ==
    IF ~opt[p].root THEN "dir" ELSE IF opt[p].early THEN "group" ELSE "uid"

StartsListening(p) ==
    /\ pc[p] = "listen"
    /\ \/ /\ opt[p].path \/ ~PortTaken(p)
          /\ sock' = [sock EXCEPT ![p] = "listening"]
          /\ Goes(p, AfterBind(p))
          /\ UNCHANGED <<rc, fd, pid_fd, file>>
       \/ GivesUp(p)
    /\ UNCHANGED <<opt, account, cred, pidfile, left, kids>>

-----------------------------------------------------------------------------
(* Giving up privileges *)

Becomes(p, new, to) ==
    /\ cred' = [cred EXCEPT ![p] = new]
    /\ Goes(p, to)
    /\ UNCHANGED <<rc, fd, pid_fd>>

Restricts(p, from, new, to) ==
    /\ pc[p] = from
    /\ \/ Becomes(p, new, to)
       \/ cred[p] # new /\ Fails(p) /\ UNCHANGED cred
    /\ UNCHANGED <<opt, account, sock, file, pidfile, left, kids>>

\* Faulty variant: the supplementary groups of the caller stay.
GroupOnly(c, i) == IF i.gid = 0 THEN c ELSE [c EXCEPT !.gid = i.gid]

\* setgid, setgroups and initgroups
Group(c, i) ==
    IF i.gid = 0 THEN c
    ELSE [c EXCEPT !.gid = i.gid, !.groups = IF i.named THEN "user" ELSE "none"]

SetsGroup(p) == Restricts(p, "group", Group(cred[p], account[p]), "chroot")

Chroots(p) ==
    Restricts(p, "chroot", [cred[p] EXCEPT !.dir = IF opt[p].chroot THEN "jail" ELSE @],
              IF opt[p].early THEN "uid" ELSE "test")

SetsUser(p) ==
    Restricts(p, "uid", [cred[p] EXCEPT !.uid = IF account[p].uid = 0 THEN @ ELSE account[p].uid], "dir")

ChangesDir(p) ==
    /\ pc[p] = "dir"
    /\ \/ Goes(p, "spawn") /\ UNCHANGED <<rc, fd, pid_fd>>
       \/ opt[p].dir /\ Fails(p)
    /\ UNCHANGED <<opt, account, cred, sock, file, pidfile, left, kids>>

-----------------------------------------------------------------------------
(* fcgi_spawn_connection *)

\* The child takes the socket as descriptor 0 and opens /dev/null, and closes
\* every descriptor below the one it got; that is how it loses pid_fd.
Child(p, devnull) ==
    [cred |-> cred[p], listens |-> fd[p], pid_fd |-> pid_fd[p] /\ ~devnull,
     state |-> "forked", reaped |-> FALSE]

Forks(p) ==
    /\ pc[p] = "spawn" /\ left[p] > 0
    /\ left' = [left EXCEPT ![p] = @ - 1]
    /\ \/ /\ ~opt[p].nofork
          /\ \E devnull \in BOOLEAN : kids' = [kids EXCEPT ![p] = Append(@, Child(p, devnull))]
          /\ Goes(p, "wait")
          /\ UNCHANGED fd
       \/ ~opt[p].nofork /\ UNCHANGED <<kids, pc, fd>>         \* fork failed
       \/ /\ opt[p].nofork
          /\ kids' = [kids EXCEPT ![p] = Append(@, Child(p, FALSE))]
          /\ fd' = [fd EXCEPT ![p] = FALSE]
          /\ Goes(p, "exec")
    /\ UNCHANGED <<opt, rc, account, cred, sock, file, files>>

SetKid(p, i, new) == kids' = [kids EXCEPT ![p][i].state = new]

\* exec, or exit(errno) when it fails.  A backend may end at any time.
ChildSteps(p, i) ==
    /\ \/ kids[p][i].state = "forked" /\ \E new \in {"running", "exited"} : SetKid(p, i, new)
       \/ kids[p][i].state = "running" /\ \E new \in {"exited", "killed"} : SetKid(p, i, new)
    /\ UNCHANGED <<opt, pc, rc, account, cred, left, sockets, files>>

\* waitpid(WNOHANG): 0 while the child lives.
Lives(k) == k.state \in {"forked", "running"}

\* Status of a child that has ended; exit takes errno or the backend's own.
Statuses(k) == IF k.state = "killed" THEN {1} ELSE {0, 2}

\* Faulty variant: the line ends before the last but one.
SeparatorEarly(more) == IF more <= 1 THEN <<>> ELSE <<EndOfLine>>

\* No end of line after the last child.
Separator(more) == IF more = 0 THEN <<>> ELSE <<EndOfLine>>

\* What has been written, all of it unless a write failed.
write_all(text) ==
    {[ok |-> n = Len(text), written |-> SubSeq(text, 1, n)] : n \in 0 .. Len(text)}

\* select gives the first child some time, and the later ones none: tv holds
\* what is left of it.  A child is looked at wherever it has come by then.
\* waitpid fails for one that has ended when SIGCHLD is ignored, and its status
\* is lost.
Waits(p) ==
    /\ pc[p] = "wait"
    /\ LET i == Len(kids[p])
           k == kids[p][i]
       IN  \/ /\ Lives(k)
              /\ \/ /\ pid_fd[p]
                    /\ \E w \in write_all(<<i>> \o Separator(left[p])) :
                          /\ pidfile' = [pidfile EXCEPT ![p] = @ \o w.written]
                          /\ pid_fd' = [pid_fd EXCEPT ![p] = w.ok]
                 \/ ~pid_fd[p] /\ UNCHANGED <<pidfile, pid_fd>>
              /\ UNCHANGED <<rc, kids>>
           \/ /\ ~Lives(k)
              /\ \/ \E status \in Statuses(k) : rc' = [rc EXCEPT ![p] = status]
                 \/ UNCHANGED rc
              /\ kids' = [kids EXCEPT ![p][i].reaped = TRUE]
              /\ UNCHANGED <<pidfile, pid_fd>>
    /\ Goes(p, "spawn")
    /\ UNCHANGED <<opt, account, cred, left, sockets>>

Returns(p) ==
    /\ pc[p] = "spawn" /\ left[p] <= 0
    /\ rc' = [rc EXCEPT ![p] = IF @ = NoPid THEN 0 ELSE @]
    /\ fd' = [fd EXCEPT ![p] = FALSE]
    /\ pid_fd' = [pid_fd EXCEPT ![p] = FALSE]
    /\ Goes(p, "done")
    /\ UNCHANGED <<opt, account, cred, sock, file, pidfile, left, kids>>

SpawnNext ==
    \E p \in Spawner :
       \/ getopt(p) \/ OpenPidFile(p) \/ Accounts(p)
       \/ Tests(p) \/ Unlinks(p) \/ Binds(p) \/ SetsOwner(p) \/ StartsListening(p)
       \/ SetsGroup(p) \/ Chroots(p) \/ SetsUser(p) \/ ChangesDir(p)
       \/ Forks(p) \/ Waits(p) \/ Returns(p)
       \/ \E i \in DOMAIN kids[p] : ChildSteps(p, i)

-----------------------------------------------------------------------------
(* Properties *)

\* A backend that runs has the listening socket, none of the rights its command
\* line takes away (main's order of setgid, setgroups, chroot and setuid) and
\* the root directory it asks for.
BackendIsSetUp ==
    \A p \in Spawner : \A i \in Backends(p) :
       LET k == kids[p][i]
       IN  /\ k.listens /\ sock[p] = "listening"
           /\ opt[p].root /\ opt[p].user # NoPid => k.cred.uid # 0
           /\ opt[p].root /\ opt[p].group # NoPid => k.cred.gid # 0 /\ k.cred.groups # "caller"
           /\ opt[p].root /\ opt[p].chroot => k.cred.dir = "jail"

\* Between two children the pid file names, one to a line, exactly those that
\* were alive when they were looked at (fcgi_spawn_connection), as long as it
\* could be written.
PidFileNamesBackends ==
    \A p \in Spawner :
       pid_fd[p] /\ pc[p] = "spawn" /\ kids[p] # <<>>
          => /\ SelectSeq(pidfile[p], LAMBDA x : x # EndOfLine)
                  = SelectSeq([i \in DOMAIN kids[p] |-> i], LAMBDA i : ~kids[p][i].reaped)
             /\ \A j \in DOMAIN pidfile[p] :
                   j > 1 => (pidfile[p][j] = EndOfLine) # (pidfile[p][j - 1] = EndOfLine)
==============================================================================
