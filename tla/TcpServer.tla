------------------------------ MODULE TcpServer ------------------------------
(***************************************************************************)
(* The life of mucgi's connections between two kinds of threads: the base  *)
(* loop, which accepts them and keeps them in TcpServer's map, and the I/O *)
(* loops, which serve them.  A connection is made in one thread,           *)
(* registered, closed and unregistered in another, and freed by whichever  *)
(* drops the last shared_ptr to it; its descriptor is then reused.         *)
(*                                                                         *)
(* Each loop runs as in EventLoop: poll, handlers, then the functors queued *)
(* so far as one batch, which is destroyed when all of it has run.         *)
(***************************************************************************)
EXTENDS Integers, Sequences, Functions

CONSTANTS base,      \* the loop of main()
          Pools,     \* what setThreadNum may ask for: each the loops of a thread
                     \* pool in order, <<>> for no pool
          Conn,      \* connections, each to be accepted at most once
          Fd,        \* descriptors
          Forced     \* the connections on which the application may call
                     \* forceClose and, one at a time, forceCloseWithDelay

ASSUME ServerAssumption ==
    /\ \A p \in Pools : p \in Seq(Range(p)) /\ base \notin Range(p)
    /\ Fd # {}

VARIABLES
    loops_,         \* of the thread pool, from start() on
    phase,          \* of each loop: poll, events, functors
    active,         \* connections whose channels the last poll returned
    pending,        \* pendingFunctors_ of each loop: [op, conn]
    batch,          \* the functors vector of doPendingFunctors
    pos,            \* how many of the batch have run
    next_,          \* of the thread pool
    connections_,
    made,           \* connections constructed so far
    loop_, fd,      \* of each connection made
    state_,
    reading,        \* its channel has an interest
    index_,         \* kNew, kAdded or kDeleted
    channels_,      \* of each loop's poller: set of <<fd, connection>>
    timers          \* connections with a delayed close, known by a weak_ptr

loopVars == <<phase, active, batch, pos>>
connVars == <<made, loop_, fd, next_, loops_>>
vars == <<loopVars, pending, connections_, connVars, state_, reading, index_, channels_, timers>>

Loop == {base} \cup Range(loops_)

-----------------------------------------------------------------------------
(* shared_ptr *)

\* Faulty variant: functors are bound to raw pointers.
HeldRaw(c) == c \in connections_

\* A connection lives while the map or a functor holds it.  The functors of a
\* batch are destroyed together, after the last of them.
Held(c) ==
    \/ c \in connections_
    \/ \E l \in Loop : \E f \in Range(pending[l]) \cup Range(batch[l]) : f.conn = c

Freed(c) == c \in made /\ ~Held(c)

\* A descriptor is closed by its connection's destructor.
FreeFds == {f \in Fd : \A c \in made : fd[c] = f => Freed(c)}

-----------------------------------------------------------------------------
(* The pollers *)

\* Interest none: EPOLL_CTL_DEL, the entry of channels_ stays.
disableAll(c) ==
    /\ reading' = [reading EXCEPT ![c] = FALSE]
    /\ index_' = [index_ EXCEPT ![c] = "kDeleted"]

Entry(c) == <<fd[c], c>>

-----------------------------------------------------------------------------
Init ==
    /\ loops_ \in Pools
    /\ phase = [l \in Loop |-> "poll"]
    /\ active = [l \in Loop |-> {}]
    /\ pending = [l \in Loop |-> <<>>]
    /\ batch = [l \in Loop |-> <<>>]
    /\ pos = [l \in Loop |-> 0]
    /\ next_ = 0
    /\ connections_ = {} /\ made = {}
    /\ loop_ = [c \in Conn |-> base]
    /\ fd = [c \in Conn |-> CHOOSE f \in Fd : TRUE]
    /\ state_ = [c \in Conn |-> "kConnecting"]
    /\ reading = [c \in Conn |-> FALSE]
    /\ index_ = [c \in Conn |-> "kNew"]
    /\ channels_ = [l \in Loop |-> {}]
    /\ timers = {}

queueInLoop(l, op, c) == pending' = [pending EXCEPT ![l] = Append(@, [op |-> op, conn |-> c])]

-----------------------------------------------------------------------------
(* The three steps of a connection's life; c's own loop runs the first and *)
(* the last.                                                               *)

connectEstablished(c) ==
    /\ state_' = [state_ EXCEPT ![c] = "kConnected"]
    /\ reading' = [reading EXCEPT ![c] = TRUE]
    /\ index_' = [index_ EXCEPT ![c] = "kAdded"]
    /\ channels_' = [channels_ EXCEPT ![loop_'[c]] = @ \cup {<<fd'[c], c>>}]

removeConnectionInLoop(c) ==
    /\ connections_' = connections_ \ {c}
    /\ queueInLoop(loop_[c], "connectDestroyed", c)

connectDestroyed(c) ==
    /\ IF state_[c] = "kConnected"
       THEN /\ state_' = [state_ EXCEPT ![c] = "kDisconnected"]
            /\ reading' = [reading EXCEPT ![c] = FALSE]
       ELSE UNCHANGED <<state_, reading>>
    /\ index_' = [index_ EXCEPT ![c] = "kNew"]
    /\ channels_' = [channels_ EXCEPT ![loop_[c]] = @ \ {Entry(c)}]

-----------------------------------------------------------------------------
(* The base loop accepts *)

\* The thread pool hands out its loops in turn, or the base loop if it has none.
getNextLoop ==
    IF loops_ = <<>> THEN base ELSE loops_[next_ + 1]

\* Acceptor::handleRead and newConnection.  runInLoop runs the functor at once
\* in the base loop and queues it for another.
newConnection(c, f) ==
    /\ phase[base] = "events"
    /\ c \notin made /\ f \in FreeFds
    /\ made' = made \cup {c}
    /\ fd' = [fd EXCEPT ![c] = f]
    /\ loop_' = [loop_ EXCEPT ![c] = getNextLoop]
    /\ next_' = IF loops_ = <<>> THEN next_ ELSE (next_ + 1) % Len(loops_)
    /\ UNCHANGED loops_
    /\ connections_' = connections_ \cup {c}
    /\ IF getNextLoop = base
       THEN connectEstablished(c) /\ UNCHANGED pending
       ELSE /\ queueInLoop(getNextLoop, "connectEstablished", c)
            /\ UNCHANGED <<state_, reading, index_, channels_>>
    /\ UNCHANGED <<loopVars, timers>>

-----------------------------------------------------------------------------
(* A loop *)

\* Any registered channel may be ready.
PollReturns(l) ==
    /\ phase[l] = "poll"
    /\ \E A \in SUBSET {e[2] : e \in {e \in channels_[l] : reading[e[2]]}} :
           active' = [active EXCEPT ![l] = A]
    /\ phase' = [phase EXCEPT ![l] = "events"]
    /\ UNCHANGED <<pending, batch, pos, connections_, connVars, state_, reading, index_,
                   channels_, timers>>

Open(c) == state_[c] \in {"kConnected", "kDisconnecting"}

\* forceClose, called in the connection's own loop.
forceClose(c) ==
    IF Open(c) THEN /\ state_' = [state_ EXCEPT ![c] = "kDisconnecting"]
                    /\ queueInLoop(loop_[c], "forceCloseInLoop", c)
    ELSE UNCHANGED <<state_, pending>>

\* A timer is started that holds the connection weakly.
forceCloseWithDelay(c) ==
    /\ c \notin timers
    /\ IF Open(c) THEN /\ state_' = [state_ EXCEPT ![c] = "kDisconnecting"]
                       /\ timers' = timers \cup {c}
       ELSE UNCHANGED <<state_, timers>>

\* handleRead finds bytes: a piece of a request, a request, or one after which
\* the connection is shut down or forced to close.
handleRead(l, c) ==
    /\ phase[l] = "events" /\ c \in active[l]
    /\ active' = [active EXCEPT ![l] = @ \ {c}]
    /\ \/ UNCHANGED <<state_, pending, timers>>
       \/ /\ state_[c] = "kConnected" /\ state_' = [state_ EXCEPT ![c] = "kDisconnecting"]
          /\ UNCHANGED <<pending, timers>>
       \/ c \in Forced /\ forceClose(c) /\ UNCHANGED timers
       \/ c \in Forced /\ forceCloseWithDelay(c) /\ UNCHANGED pending
    /\ UNCHANGED <<phase, batch, pos, connections_, connVars, reading, index_, channels_>>

\* The timer's WeakCallback: forceClose if the connection is still there.
TimerFires(l, c) ==
    /\ phase[l] = "events" /\ c \in timers /\ loop_[c] = l
    /\ timers' = timers \ {c}
    /\ IF Freed(c) THEN UNCHANGED <<state_, pending>> ELSE forceClose(c)
    /\ UNCHANGED <<loopVars, connections_, connVars, reading, index_, channels_>>

\* The close callback: removeConnection, in the base loop or by way of it.
closeCallback(l, c) ==
    IF l = base THEN removeConnectionInLoop(c)
    ELSE queueInLoop(base, "removeConnectionInLoop", c) /\ UNCHANGED connections_

\* Faulty variant: the close callback is not called.
handleCloseSilent(l, c) ==
    /\ state_' = [state_ EXCEPT ![c] = "kDisconnected"]
    /\ disableAll(c)
    /\ UNCHANGED <<pending, connections_>>

handleClose(l, c) ==
    /\ state_' = [state_ EXCEPT ![c] = "kDisconnected"]
    /\ disableAll(c)
    /\ closeCallback(l, c)

\* handleRead finds the end of the stream.
ReadsEnd(l, c) ==
    /\ phase[l] = "events" /\ c \in active[l]
    /\ active' = [active EXCEPT ![l] = @ \ {c}]
    /\ handleClose(l, c)
    /\ UNCHANGED <<phase, batch, pos, connVars, channels_, timers>>

\* Faulty variant: whatever closed the connection in the meantime.
forceCloseInLoopAgain(l, c) == handleClose(l, c)

\* The functor of forceClose.
forceCloseInLoop(l, c) ==
    IF Open(c) THEN handleClose(l, c)
    ELSE UNCHANGED <<state_, reading, index_, pending, connections_>>

\* doPendingFunctors takes the queue.
Swap(l) ==
    /\ phase[l] = "events" /\ active[l] = {}
    /\ phase' = [phase EXCEPT ![l] = "functors"]
    /\ batch' = [batch EXCEPT ![l] = pending[l]]
    /\ pending' = [pending EXCEPT ![l] = <<>>]
    /\ pos' = [pos EXCEPT ![l] = 0]
    /\ UNCHANGED <<active, connections_, connVars, state_, reading, index_, channels_, timers>>

\* The functor a loop is about to run.
Due(l) == phase[l] = "functors" /\ pos[l] < Len(batch[l])
Functor(l) == batch[l][pos[l] + 1]

Runs(l) ==
    /\ Due(l)
    /\ pos' = [pos EXCEPT ![l] = @ + 1]
    /\ LET c == Functor(l).conn IN
       \/ /\ Functor(l).op = "connectEstablished"
          /\ UNCHANGED connVars
          /\ connectEstablished(c)
          /\ UNCHANGED <<pending, connections_>>
       \/ /\ Functor(l).op = "removeConnectionInLoop"
          /\ removeConnectionInLoop(c)
          /\ UNCHANGED <<connVars, state_, reading, index_, channels_>>
       \/ /\ Functor(l).op = "connectDestroyed"
          /\ connectDestroyed(c)
          /\ UNCHANGED <<pending, connections_, connVars>>
       \/ /\ Functor(l).op = "forceCloseInLoop"
          /\ forceCloseInLoop(l, c)
          /\ UNCHANGED <<connVars, channels_>>
    /\ UNCHANGED <<phase, active, batch, timers>>

\* The batch is destroyed, and with it the last pointers to some connections.
RunsEnd(l) ==
    /\ phase[l] = "functors" /\ pos[l] = Len(batch[l])
    /\ phase' = [phase EXCEPT ![l] = "poll"]
    /\ batch' = [batch EXCEPT ![l] = <<>>]
    /\ pos' = [pos EXCEPT ![l] = 0]
    /\ UNCHANGED <<active, pending, connections_, connVars, state_, reading, index_, channels_, timers>>

-----------------------------------------------------------------------------
LoopStep(l) ==
    \/ PollReturns(l)
    \/ \E c \in Conn : handleRead(l, c) \/ ReadsEnd(l, c) \/ TimerFires(l, c)
    \/ Swap(l) \/ Runs(l) \/ RunsEnd(l)

Accepts == \E c \in Conn, f \in Fd : newConnection(c, f)

Next == Accepts \/ \E l \in Loop : LoopStep(l)

Spec == Init /\ [][Next]_vars

\* Each loop's thread goes on: poll returns within kPollTimeMs.  A timer that was
\* started expires, in one of its loop's rounds.
Fairness ==
    /\ \A c \in Forced : SF_vars(\E l \in Loop : TimerFires(l, c))
    /\ \A l \in {base} \cup UNION {Range(p) : p \in Pools} : WF_vars(l \in Loop /\ LoopStep(l))

FairSpec == Spec /\ Fairness

-----------------------------------------------------------------------------
(* Properties *)

\* What the functors' code asserts of the connection they are run for.
Asserts(f) ==
    LET c == f.conn IN
    CASE f.op = "connectEstablished" ->
            state_[c] = "kConnecting" /\ \A e \in channels_[loop_[c]] : e[1] # fd[c]
      [] f.op = "removeConnectionInLoop" -> c \in connections_
      [] f.op = "connectDestroyed" ->
            /\ Entry(c) \in channels_[loop_[c]] /\ index_[c] \in {"kAdded", "kDeleted"}
            /\ reading[c] => state_[c] = "kConnected"
      [] f.op = "forceCloseInLoop" -> ~Freed(c)

\* What ~TcpConnection and ~Channel assert, in whichever thread the last
\* shared_ptr is dropped: the connection is disconnected and its channel is out
\* of its loop's poller.
FreedIsDisconnected ==
    \A c \in made : Freed(c) =>
        /\ state_[c] = "kDisconnected" /\ index_[c] = "kNew"
        /\ \A l \in Loop : \A e \in channels_[l] : e[2] # c

\* The assertions on the path of a connection hold whenever a loop reaches
\* them, however the loops interleave: connectEstablished finds a connecting
\* connection and a descriptor that is not in the poller's map;
\* removeConnectionInLoop finds the connection in the server's map, so it is
\* removed only once; connectDestroyed finds the channel's own entry and no
\* interest; a channel's handler finds its connection not closed yet; and the
\* destructors find it disconnected.
FunctorsAssert ==
    /\ FreedIsDisconnected
    /\ \A l \in Loop :
        /\ Due(l) => Asserts(Functor(l))
        /\ \A c \in active[l] : state_[c] \in {"kConnected", "kDisconnecting"}

\* No poller, and no list of active channels a loop is working through, holds
\* a pointer to a channel another thread has freed; and no poller has two
\* channels for one descriptor, although accept reuses a descriptor as soon as
\* its connection is freed.
ChannelsAreAlive ==
    \A l \in Loop :
        /\ \A e \in channels_[l] : ~Freed(e[2])
        /\ \A c \in active[l] : ~Freed(c) /\ Entry(c) \in channels_[l]
        /\ \A e1, e2 \in channels_[l] : e1[1] = e2[1] => e1 = e2

\* A connection whose peer has closed, or that the application forced to close,
\* now or after a delay, is removed by the base loop, taken out of its poller
\* by its own loop, freed, and its descriptor closed.
ClosedIsFreed ==
    \A c \in Conn :
        (c \in made /\ (\/ state_[c] = "kDisconnected" \/ c \in timers
                        \/ \E l \in Loop : [op |-> "forceCloseInLoop", conn |-> c] \in Range(pending[l]))) ~> Freed(c)
==============================================================================
