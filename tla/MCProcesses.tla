---------------------------- MODULE MCProcesses -----------------------------
(* spawn-fcgi and the forking servers on small instances.  They share no    *)
(* state, so one of them runs in a behaviour while the other has ended.     *)
EXTENDS SpawnFcgi, Prefork

User(n, uid, gid) == [number |-> n, pwd |-> [uid |-> uid, gid |-> gid]]
Unlisted(n)       == [number |-> n, pwd |-> NoPid]
GroupOf(n, gid)   == [number |-> n, gid |-> gid]

Plain == [app |-> TRUE, port |-> FALSE, path |-> TRUE, tooLong |-> FALSE, root |-> FALSE,
          setugid |-> FALSE, user |-> NoPid, group |-> NoPid, sockuser |-> NoPid,
          sockgroup |-> NoPid, chroot |-> FALSE, early |-> FALSE, nofork |-> FALSE, forks |-> 1, pid |-> NoPid, dir |-> FALSE]

AsRoot == [Plain EXCEPT !.root = TRUE]

Jailed == [AsRoot EXCEPT !.user = User(0, 5, 6), !.chroot = TRUE]

Several == [Plain EXCEPT !.forks = 3, !.pid = "regular", !.dir = TRUE]

Tcp == [Plain EXCEPT !.port = TRUE, !.path = FALSE]

\* Pairs of command lines: one socket and two spawners, alone, or refused.
Refused == [Plain EXCEPT !.port = TRUE]

MCStarts ==
    { <<Plain, [Plain EXCEPT !.nofork = TRUE]>>,
      <<Jailed, [Jailed EXCEPT !.early = TRUE, !.group = GroupOf(7, NoPid), !.user = Unlisted(5)]>>,
      <<Several, Refused>>,
      <<[Plain EXCEPT !.setugid = TRUE], [Jailed EXCEPT !.setugid = TRUE]>>,
      <<Tcp, [Tcp EXCEPT !.root = TRUE, !.user = Unlisted(5), !.sockgroup = GroupOf(0, 8)]>>,
      <<[AsRoot EXCEPT !.user = User(0, 0, 0)], [AsRoot EXCEPT !.group = GroupOf(0, NoPid)]>>,
      <<[Several EXCEPT !.pid = "other"], Plain>> }

MCServers ==
    { [kind |-> "fastcgi", family |-> "inet", bDaemonize |-> FALSE, addrs |-> FALSE],
      [kind |-> "fastcgi", family |-> "unix", bDaemonize |-> TRUE, addrs |-> FALSE],
      [kind |-> "cocgi", family |-> "inet", bDaemonize |-> FALSE, addrs |-> FALSE],
      [kind |-> "cocgi", family |-> "inet", bDaemonize |-> TRUE, addrs |-> FALSE] }

Init ==
    \/ SpawnInit /\ PreforkIdle
    \/ SpawnIdle /\ PreforkInit

Resting == SpawnIdle /\ PreforkIdle

Next ==
    \/ SpawnNext /\ UNCHANGED preforkVars
    \/ PreforkNext /\ UNCHANGED vars
==============================================================================
