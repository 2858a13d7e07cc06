------------------------------ MODULE LibcoPoll ------------------------------
(***************************************************************************)
(* The scheduler of libco (cocgi/cocgi_lib/libco/co_routine.cpp), for one  *)
(* thread: the call stack of coroutines, the wheel of timeouts, the list   *)
(* of active items, co_poll_inner and condition variables, and the event   *)
(* loop that resumes whoever has an event, a timeout or a signal.  A       *)
(* coroutine waits for one thing at a time, so its stPoll_t or its         *)
(* stCoCondItem_t is item[c].  Times count from ullStart, which makes the  *)
(* clock unbounded: t is what GetTickMS() - ullStart is in the code.       *)
(***************************************************************************)
EXTENDS Integers, Sequences, FiniteSets, SequencesExt

CONSTANTS Co,          \* numbers of the coroutines; the thread's own is Main
          Main, None,
          Fd,
          Files,       \* descriptors epoll refuses with EPERM
          Shared,      \* coroutines created with a share_stack, of one stack
          iItemSize,   \* slots of the wheel: 60 * 1000
          Forever,     \* INT_MAX, what a negative timeout becomes
          MaxLag       \* bound: how far the clock runs ahead of ullStart

ASSUME LibcoAssumption ==
    /\ Co \subseteq Nat /\ Main \notin Co /\ None \notin Co
    /\ Files \subseteq Fd /\ Shared \subseteq Co
    /\ iItemSize \in Nat \ {0} /\ Forever \in Nat /\ MaxLag \in Nat \ {0}

VARIABLES
    t,         \* the clock, from ullStart
    stepped,   \* bound: the wall clock steps back once
    s,         \* pTimeout, pstActiveList and the items: see NewEpoll
    epoll,     \* what the epoll descriptor watches: [co, events] or None
    ready,     \* events the kernel has for a descriptor
    cond,      \* waiters of the condition variable
    stack,     \* pCallStack
    pc,        \* of every coroutine
    mem,       \* the shared stack: see NewStack
    loop       \* where co_eventloop is

coVars == <<t, stepped, s, epoll, ready, cond, stack, pc, mem, loop>>

Idle == [link |-> "none", ullExpireTime |-> 0, bTimeout |-> FALSE, iAllEventDetach |-> FALSE,
         iRaiseCnt |-> 0, fds |-> {}]

\* AllocEpoll and AllocTimeout.
NewEpoll == [wheel |-> [i \in 0 .. iItemSize - 1 |-> <<>>], llStartIdx |-> 0, active |-> <<>>,
             item |-> [c \in Co |-> Idle]]

\* occupy is occupy_co; frames says whose frames the memory holds, saved whose
\* save_buffer holds the frames it was switched out with.
NewStack == [occupy |-> None, frames |-> None, saved |-> {}]

Current == Last(stack)

-----------------------------------------------------------------------------
(* Lists and the wheel *)

Without(list, c) == SelectSeq(list, LAMBDA d : d # c)

\* Faulty variant: the item is marked as free and stays in its slot.
RemoveFromActive(e, c) == [e EXCEPT !.active = Without(@, c), !.item[c].link = "none"]

RemoveFromLink(e, c) ==
    [e EXCEPT !.wheel = [i \in DOMAIN @ |-> Without(@[i], c)],
              !.active = Without(@, c), !.item[c].link = "none"]

\* AddTail of the active list: not for an item that is in a list.
AddTail(e, c) ==
    IF e.item[c].link # "none" THEN e
    ELSE [e EXCEPT !.active = Append(@, c), !.item[c].link = "active"]

\* AddTimeout refuses when the clock is behind the wheel; what lies beyond
\* the wheel goes to its last slot.
TimeoutRefused(e, c, now) == now < 0 \/ e.item[c].ullExpireTime < now

Diff(e, c) == IF e.item[c].ullExpireTime >= iItemSize THEN iItemSize - 1 ELSE e.item[c].ullExpireTime

\* Faulty variant: what lies beyond the wheel is dropped.
AddTimeoutNear(e, c) ==
    IF e.item[c].link # "none" \/ e.item[c].ullExpireTime >= iItemSize THEN e
    ELSE [e EXCEPT !.wheel[(e.llStartIdx + Diff(e, c)) % iItemSize] = Append(@, c),
                   !.item[c].link = "wheel"]

AddTimeout(e, c) ==
    IF e.item[c].link # "none" THEN e
    ELSE [e EXCEPT !.wheel[(e.llStartIdx + Diff(e, c)) % iItemSize] = Append(@, c),
                   !.item[c].link = "wheel"]

\* TakeAllTimeout, then the timeout list with its bTimeout joins the active
\* list.  ullStart becomes now, from which times count afterwards.
Slots(e, now) == LET cnt == IF now + 1 > iItemSize THEN iItemSize ELSE now + 1
                 IN  [i \in 1 .. cnt |-> (e.llStartIdx + i - 1) % iItemSize]

TakeAllTimeout(e, now) ==
    IF now < 0 THEN e
    ELSE LET slots == Slots(e, now)
             taken == FoldLeft(LAMBDA list, i : list \o e.wheel[i], <<>>, slots)
         IN  [wheel |-> [i \in DOMAIN e.wheel |-> IF i \in Range(slots) THEN <<>> ELSE e.wheel[i]],
              llStartIdx |-> slots[Len(slots)],
              active |-> e.active \o taken,
              item |-> [c \in Co |->
                          [e.item[c] EXCEPT
                             !.link = IF c \in Range(taken) THEN "active" ELSE @,
                             !.bTimeout = @ \/ c \in Range(taken),
                             !.ullExpireTime = IF e.item[c].link = "none" THEN @ ELSE @ - now]]]

-----------------------------------------------------------------------------
(* Switching *)

\* Faulty variant: who is switched out loses the frames.
SwapWithoutSave(m, to) ==
    IF to \notin Shared THEN m
    ELSE [occupy |-> to, frames |-> IF m.occupy = to \/ pc[to] = "new" THEN to ELSE None, saved |-> {}]

\* co_swap to a coroutine of the shared stack: the frames of the one that
\* occupies it are saved, those of the next are put back.
co_swap(m, to) ==
    IF to \notin Shared THEN m
    ELSE LET saved == m.saved \cup ({m.occupy} \ {None, to})
         IN  [occupy |-> to,
              frames |-> IF m.occupy \in {None, to} THEN IF pc[to] = "new" THEN to ELSE m.frames
                         ELSE IF to \in saved \/ pc[to] = "new" THEN to ELSE None,
              saved  |-> saved \ {to}]

co_resume(c) == stack' = Append(stack, c) /\ mem' = co_swap(mem, c)

co_yield_env ==
    /\ stack' = Front(stack)
    /\ mem' = co_swap(mem, stack[Len(stack) - 1])

-----------------------------------------------------------------------------
(* co_eventloop *)

\* PollEvent2Epoll and EpollEvent2Poll keep these events and drop the others.
Converted(events) == events \cap {"IN", "OUT", "HUP", "ERR", "RDNORM", "WRNORM"}

Raised(fd) == IF epoll[fd] = None THEN {}
              ELSE ready[fd] \cap (epoll[fd].events \cup {"HUP", "ERR"})

\* OnPollPreparePfn: the first event of a poll takes it out of the wheel.
OnPollPreparePfn(e, fd) ==
    LET c   == epoll[fd].co
        was == e.item[c].iAllEventDetach
        r   == [e EXCEPT !.item[c].iRaiseCnt = @ + 1, !.item[c].iAllEventDetach = TRUE]
    IN  IF was THEN r ELSE AddTail(RemoveFromLink(r, c), c)

\* epoll_wait and what follows it until the first item is run: nothing else
\* of the thread runs in between.
EpollWait ==
    /\ loop = "wait" /\ stack = <<Main>>
    /\ \E order \in SetToSeqs({fd \in Fd : Raised(fd) # {}}) :
         s' = TakeAllTimeout(FoldLeft(OnPollPreparePfn, s, order), t)
    /\ t' = IF t < 0 THEN t ELSE 0
    /\ loop' = "run"
    /\ UNCHANGED <<stepped, epoll, ready, cond, stack, pc, mem>>

\* The head of the active list: a timeout from the last slot goes back into
\* the wheel when its time has not come; any other item is resumed.
TooEarly(e, c) == e.item[c].bTimeout /\ 0 < e.item[c].ullExpireTime /\ ~TimeoutRefused(e, c, 0)

RunItem ==
    /\ loop = "run" /\ stack = <<Main>> /\ s.active # <<>>
    /\ LET c == Head(s.active)
           e == [s EXCEPT !.active = Tail(@), !.item[c].link = "none"]
       IN  IF TooEarly(e, c)
           THEN /\ s' = [AddTimeout(e, c) EXCEPT !.item[c].bTimeout = FALSE]
                /\ UNCHANGED <<stack, mem>>
           ELSE s' = e /\ co_resume(c)
    /\ UNCHANGED <<t, stepped, epoll, ready, cond, pc, loop>>

\* The list is empty: pfn is called, and may end the loop.
EndOfRound ==
    /\ loop = "run" /\ stack = <<Main>> /\ s.active = <<>>
    /\ loop' \in {"wait", "over"}
    /\ UNCHANGED <<t, stepped, s, epoll, ready, cond, stack, pc, mem>>

-----------------------------------------------------------------------------
(* What the running coroutine calls *)

Running(c) == Current = c /\ pc[c] = "run"

\* CoRoutineFunc starts the coroutine.
Starts(c) ==
    /\ Current = c /\ pc[c] \in {"new", "yielded"}
    /\ pc' = [pc EXCEPT ![c] = "run"]
    /\ UNCHANGED <<t, stepped, s, epoll, ready, cond, stack, mem, loop>>

\* Main starts coroutines before the loop and in pfn; they are started in
\* the order of their numbers.
Resumes(c, d) ==
    /\ IF c = Main THEN stack = <<Main>> /\ loop # "over" /\ (loop = "run" => s.active = <<>>)
       ELSE Running(c)
    /\ pc[d] \in {"new", "yielded"} /\ d \notin Range(stack)
    /\ pc[d] = "new" => \A e \in Co : e < d => pc[e] # "new"
    /\ co_resume(d)
    /\ UNCHANGED <<t, stepped, s, epoll, ready, cond, pc, loop>>

Yields(c) ==
    /\ Running(c)
    /\ co_yield_env /\ pc' = [pc EXCEPT ![c] = "yielded"]
    /\ UNCHANGED <<t, stepped, s, epoll, ready, cond, loop>>

Ends(c) ==
    /\ Running(c)
    /\ co_yield_env /\ pc' = [pc EXCEPT ![c] = "end"]
    /\ UNCHANGED <<t, stepped, s, epoll, ready, cond, loop>>

\* co_poll_inner: a descriptor that is watched for another coroutine is not
\* added (EEXIST), and then only the timeout works.
Watched(c, fds, events) ==
    [fd \in Fd |-> IF fd \in fds \ Files /\ epoll[fd] = None
                   THEN [co |-> c, events |-> Converted(events)] ELSE epoll[fd]]

\* The system's poll, without a wait of the coroutine: timeout 0, or a single
\* descriptor that epoll refuses, if there is a pollfunc.
PollsDirectly(fds, timeout, pollfunc) ==
    timeout = 0 \/ (fds \subseteq Files /\ Cardinality(fds) = 1 /\ pollfunc)

co_poll_inner(c, fds, events, timeout, pollfunc) ==
    /\ ~PollsDirectly(fds, timeout, pollfunc)
    /\ LET expire == t + (IF timeout < 0 THEN Forever ELSE timeout)
           e == [s EXCEPT !.item[c] = [Idle EXCEPT !.ullExpireTime = expire, !.fds = fds]]
       IN  IF TimeoutRefused(e, c, t)
           THEN /\ s' = [e EXCEPT !.item[c].iRaiseCnt = -1]
                /\ UNCHANGED <<stack, mem>>
           ELSE s' = AddTimeout(e, c) /\ co_yield_env
    /\ epoll' = Watched(c, fds, events)
    /\ pc' = [pc EXCEPT ![c] = "poll"]
    /\ UNCHANGED <<t, stepped, ready, cond, loop>>

\* co_poll, which has no pollfunc.  Timeout 0 would call it all the same.
co_poll(c, fds, events, timeout) ==
    Running(c) /\ co_poll_inner(c, fds, events, timeout, FALSE)

\* Behind the yield: the item leaves the lists, and each of its descriptors
\* is no longer watched, whoever it was watched for.  result is iRaiseCnt
\* for a caller that looks at it.
PollReturns(c, result) ==
    /\ Current = c /\ pc[c] = "poll"
    /\ s' = [RemoveFromLink(s, c) EXCEPT !.item[c] = [Idle EXCEPT !.iRaiseCnt = result]]
    /\ epoll' = [fd \in Fd |-> IF fd \in s.item[c].fds THEN None ELSE epoll[fd]]
    /\ pc' = [pc EXCEPT ![c] = "run"]
    /\ UNCHANGED <<t, stepped, ready, cond, stack, mem, loop>>

\* co_cond_pop and what co_cond_signal does with the waiter.
co_cond_pop == AddTail(RemoveFromLink(s, Head(cond)), Head(cond))

\* co_cond_broadcast is co_cond_signal until there is no waiter.
co_cond_signal(c) ==
    /\ Running(c)
    /\ cond # <<>>
    /\ s' = co_cond_pop /\ cond' = Tail(cond)
    /\ UNCHANGED <<t, stepped, epoll, ready, stack, pc, mem, loop>>

co_cond_broadcast(c) ==
    /\ Running(c)
    /\ s' = FoldLeft(LAMBDA e, d : AddTail(RemoveFromLink(e, d), d), s, cond) /\ cond' = <<>>
    /\ UNCHANGED <<t, stepped, epoll, ready, stack, pc, mem, loop>>

co_cond_timedwait(c, ms) ==
    /\ Running(c)
    /\ LET e == [s EXCEPT !.item[c] = [Idle EXCEPT !.ullExpireTime = IF ms > 0 THEN t + ms ELSE 0]]
       IN  IF ms > 0 /\ TimeoutRefused(e, c, t)
           THEN UNCHANGED <<s, cond, stack, mem, pc>>
           ELSE /\ s' = IF ms > 0 THEN AddTimeout(e, c) ELSE e
                /\ cond' = Append(cond, c)
                /\ co_yield_env /\ pc' = [pc EXCEPT ![c] = "cond"]
    /\ UNCHANGED <<t, stepped, epoll, ready, loop>>

CondReturns(c) ==
    /\ Current = c /\ pc[c] = "cond"
    /\ cond' = Without(cond, c)
    /\ s' = [s EXCEPT !.item[c] = Idle]
    /\ pc' = [pc EXCEPT ![c] = "run"]
    /\ UNCHANGED <<t, stepped, epoll, ready, stack, mem, loop>>

-----------------------------------------------------------------------------
(* The clock (external).  Bound: the time a round takes passes at its end. *)

Tick ==
    /\ stack = <<Main>> /\ loop = "wait"
    /\ t < MaxLag /\ t' = t + 1
    /\ UNCHANGED <<stepped, s, epoll, ready, cond, stack, pc, mem, loop>>

StepsBack ==
    /\ stack = <<Main>> /\ loop = "wait" /\ t = 0
    /\ ~stepped /\ stepped' = TRUE /\ t' = t - 1
    /\ UNCHANGED <<s, epoll, ready, cond, stack, pc, mem, loop>>

CoInit ==
    /\ t = 0 /\ stepped = FALSE /\ s = NewEpoll
    /\ epoll = [fd \in Fd |-> None] /\ cond = <<>>
    /\ stack = <<Main>> /\ pc = [c \in Co |-> "new"]
    /\ mem = NewStack /\ loop = "wait"
==============================================================================
