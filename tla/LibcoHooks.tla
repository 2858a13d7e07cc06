------------------------------ MODULE LibcoHooks ------------------------------
(***************************************************************************)
(* The hooked system calls of libco (co_hook_sys_call.cpp) over the        *)
(* scheduler of LibcoPoll: sockets that look blocking to the coroutine     *)
(* that uses them and must never block the thread.  hook[fd] is            *)
(* g_rpchook_socket_fd[fd], of which user_flag's O_NONBLOCK and the        *)
(* timeouts matter; kernel[fd] is the descriptor as the kernel has it.     *)
(***************************************************************************)
EXTENDS LibcoPoll

CONSTANTS Timeout,     \* timeouts set with setsockopt, and the default of a second
          PollSets,    \* bound: sets of descriptors polled
          Length,      \* bytes in a write
          Tries,       \* polls of a connect: 3
          MaxCalls     \* bound: calls of the coroutines

VARIABLES
    hook,      \* [user_nonblock, timeout] or None
    kernel,    \* [open, nonblock]
    call,      \* the hooked call a coroutine is in: [name, fd, n] or None
    calls,     \* calls made so far
    careful,   \* descriptors that were opened and set up as the hooks ask for
    blocked    \* a system call of a careful descriptor blocked the thread

hookVars == <<hook, kernel, call, calls, careful, blocked>>
vars == <<coVars, hookVars>>

Closed == [open |-> FALSE, nonblock |-> FALSE]
NoCall == None

Idles(c) == Running(c) /\ call[c] = NoCall /\ calls < MaxCalls

Counts == calls' = calls + 1

\* alloc_by_fd
NewHook == [user_nonblock |-> FALSE, timeout |-> 1]

-----------------------------------------------------------------------------
(* Descriptors.  A coroutine runs with hooks enabled; Main does not.        *)

\* socket: the descriptor is made non-blocking behind the caller's back.
socket(c, fd) ==
    /\ Idles(c) /\ ~kernel[fd].open
    /\ hook' = [hook EXCEPT ![fd] = NewHook]
    /\ kernel' = [kernel EXCEPT ![fd] = [open |-> TRUE, nonblock |-> TRUE]]
    /\ ready' \in {[ready EXCEPT ![fd] = e] : e \in {{}, {"OUT"}}}
    /\ careful' = careful \cup {fd}
    /\ Counts
    /\ UNCHANGED <<t, stepped, s, epoll, cond, stack, pc, mem, loop, call, blocked>>

\* co_accept does not: the caller is to do it.
co_accept(c, fd) ==
    /\ Idles(c) /\ ~kernel[fd].open
    /\ hook' = [hook EXCEPT ![fd] = NewHook]
    /\ kernel' = [kernel EXCEPT ![fd] = [open |-> TRUE, nonblock |-> FALSE]]
    /\ ready' \in {[ready EXCEPT ![fd] = e] : e \in {{}, {"OUT"}}}
    /\ Counts
    /\ UNCHANGED <<t, stepped, s, epoll, cond, stack, pc, mem, loop, call, careful, blocked>>

\* close; the kernel takes the descriptor out of epoll.  Nobody closes what
\* another coroutine is in a call with.
close(c, fd) ==
    /\ Idles(c) /\ kernel[fd].open
    /\ \A d \in Co : call[d] # NoCall => call[d].fd # fd
    /\ hook' = [hook EXCEPT ![fd] = None]
    /\ kernel' = [kernel EXCEPT ![fd] = Closed]
    /\ epoll' = [epoll EXCEPT ![fd] = None] /\ ready' = [ready EXCEPT ![fd] = {}]
    /\ careful' = careful \ {fd}
    /\ Counts
    /\ UNCHANGED <<t, stepped, s, cond, stack, pc, mem, loop, call, blocked>>

\* fcntl(F_SETFL): a hooked descriptor stays non-blocking in the kernel.  The
\* other commands pass through.
fcntl(c, fd, nonblock) ==
    /\ Idles(c) /\ kernel[fd].open
    /\ kernel' = [kernel EXCEPT ![fd].nonblock = nonblock \/ hook[fd] # None]
    /\ hook' = [hook EXCEPT ![fd] = IF @ = None THEN @ ELSE [@ EXCEPT !.user_nonblock = nonblock]]
    /\ careful' = IF hook[fd] = None THEN careful ELSE careful \cup {fd}
    /\ Counts
    /\ UNCHANGED <<coVars, call, blocked>>

\* setsockopt(SO_RCVTIMEO or SO_SNDTIMEO)
setsockopt(c, fd, timeout) ==
    /\ Idles(c) /\ kernel[fd].open /\ hook[fd] # None
    /\ hook' = [hook EXCEPT ![fd].timeout = timeout]
    /\ Counts
    /\ UNCHANGED <<coVars, kernel, call, careful, blocked>>

-----------------------------------------------------------------------------
(* Waiting calls.  A system call blocks the thread when the kernel has the  *)
(* descriptor blocking and nothing for it.                                  *)

PassesThrough(fd) == hook[fd] # None => hook[fd].user_nonblock

Blocks(fd, event) == ~kernel[fd].nonblock /\ event \notin ready[fd]

SysCall(fd, event) ==
    /\ blocked' = (blocked \/ (fd \in careful /\ Blocks(fd, event)))
    /\ ready' = [ready EXCEPT ![fd] = @ \ {event}]

\* read: passed through, or a poll before it.
reads(c, fd) ==
    /\ Idles(c) /\ kernel[fd].open /\ PassesThrough(fd)
    /\ SysCall(fd, "IN")
    /\ Counts
    /\ UNCHANGED <<t, stepped, s, epoll, cond, stack, pc, mem, loop, hook, kernel, call, careful>>

read(c, fd) ==
    /\ Idles(c) /\ kernel[fd].open /\ ~PassesThrough(fd)
    /\ co_poll_inner(c, {fd}, {"IN", "ERR", "HUP"}, hook[fd].timeout, TRUE)
    /\ call' = [call EXCEPT ![c] = [name |-> "read", fd |-> fd, n |-> 0]]
    /\ Counts
    /\ UNCHANGED <<hook, kernel, careful, blocked>>

recv(c, fd) == read(c, fd)

recvfrom(c, fd) == read(c, fd)

ReadReturns(c) ==
    /\ Running(c) /\ call[c] # NoCall /\ call[c].name = "read"
    /\ SysCall(call[c].fd, "IN")
    /\ call' = [call EXCEPT ![c] = NoCall]
    /\ UNCHANGED <<t, stepped, s, epoll, cond, stack, pc, mem, loop, hook, kernel, calls, careful>>

\* write: a write, then a poll and a write until all is written or a write
\* after a poll fails.  The kernel takes some of the bytes, or none.
Sends(c, fd, once) ==
    /\ Idles(c) /\ kernel[fd].open
    /\ call' = [call EXCEPT ![c] = [name |-> "write", fd |-> fd, n |-> Length, once |-> once,
                                   polled |-> FALSE, then |-> "try"]]
    /\ Counts
    /\ UNCHANGED <<coVars, hook, kernel, careful, blocked>>

write(c, fd) == Sends(c, fd, FALSE)

send(c, fd) == Sends(c, fd, FALSE)

\* A datagram is sent whole, with one poll and one more try at most.
sendto(c, fd) == Sends(c, fd, TRUE)

Writing(c, then) == Running(c) /\ call[c] # NoCall /\ call[c].name = "write" /\ call[c].then = then

\* The call ends when all is written, when the kernel takes 0 bytes, or with an
\* error behind a poll; sendto also with any error but EAGAIN.
WriteTries(c) ==
    /\ Writing(c, "try")
    /\ SysCall(call[c].fd, "OUT")
    /\ \E writeret \in -1 .. call[c].n :
         /\ call[c].once => writeret \in {-1, call[c].n}
         /\ writeret > 0 => "OUT" \in ready[call[c].fd] \/ ~kernel[call[c].fd].nonblock
         /\ \/ /\ PassesThrough(call[c].fd) \/ writeret \in {0, call[c].n}
                  \/ (writeret = -1 /\ (call[c].polled \/ call[c].once))
               /\ call' = [call EXCEPT ![c] = NoCall]
            \/ /\ ~PassesThrough(call[c].fd) /\ writeret \notin {0, call[c].n}
               /\ ~(writeret = -1 /\ call[c].polled)
               /\ call' = [call EXCEPT ![c].n = @ - Max({writeret, 0}), ![c].then = "wait"]
    /\ UNCHANGED <<t, stepped, s, epoll, cond, stack, pc, mem, loop, hook, kernel, calls, careful>>

WriteWaits(c) ==
    /\ Writing(c, "wait")
    /\ co_poll_inner(c, {call[c].fd}, {"OUT", "ERR", "HUP"}, hook[call[c].fd].timeout, TRUE)
    /\ call' = [call EXCEPT ![c].polled = TRUE, ![c].then = "try"]
    /\ UNCHANGED <<hook, kernel, calls, careful, blocked>>

\* connect: the address is not there yet (EINPROGRESS); up to Tries polls.
connect(c, fd) ==
    /\ Idles(c) /\ kernel[fd].open /\ ~PassesThrough(fd) /\ kernel[fd].nonblock
    /\ co_poll_inner(c, {fd}, {"OUT", "ERR", "HUP"}, Forever, TRUE)
    /\ call' = [call EXCEPT ![c] = [name |-> "connect", fd |-> fd, n |-> 1]]
    /\ Counts
    /\ UNCHANGED <<hook, kernel, careful, blocked>>

ConnectWaits(c) ==
    /\ Running(c) /\ call[c] # NoCall /\ call[c].name = "connect"
    /\ s.item[c].iRaiseCnt # 1 /\ call[c].n < Tries
    /\ co_poll_inner(c, {call[c].fd}, {"OUT", "ERR", "HUP"}, Forever, TRUE)
    /\ call' = [call EXCEPT ![c].n = @ + 1]
    /\ UNCHANGED <<hook, kernel, calls, careful, blocked>>

ConnectReturns(c) ==
    /\ Running(c) /\ call[c] # NoCall /\ call[c].name = "connect"
    /\ s.item[c].iRaiseCnt = 1 \/ call[c].n = Tries
    /\ s' = [s EXCEPT !.item[c] = Idle]
    /\ call' = [call EXCEPT ![c] = NoCall]
    /\ UNCHANGED <<t, stepped, epoll, ready, cond, stack, pc, mem, loop, hook, kernel, calls, careful, blocked>>

-----------------------------------------------------------------------------
Init ==
    /\ CoInit
    /\ ready = [fd \in Fd |-> {}]
    /\ hook = [fd \in Fd |-> None]
    /\ kernel = [fd \in Fd |-> IF fd \in Files THEN [open |-> TRUE, nonblock |-> FALSE] ELSE Closed]
    /\ call = [c \in Co |-> NoCall] /\ calls = 0
    /\ careful = {} /\ blocked = FALSE

\* The kernel has events for a descriptor (external).  Bound: it shows when
\* the descriptor is watched.
Readies(fd, event) ==
    /\ stack = <<Main>> /\ loop = "wait"
    /\ epoll[fd] # None /\ event \in epoll[fd].events \ ready[fd]
    /\ ready' = [ready EXCEPT ![fd] = @ \cup {event}]
    /\ UNCHANGED <<t, stepped, s, epoll, cond, stack, pc, mem, loop, hookVars>>

Uncounted(A) == A /\ UNCHANGED hookVars

Counted(c, A) == Idles(c) /\ A /\ Counts /\ UNCHANGED <<hook, kernel, call, careful, blocked>>

Sockets == Fd \ Files

Descriptors(c) ==
    \E fd \in Sockets :
        \/ socket(c, fd) \/ co_accept(c, fd) \/ close(c, fd)
        \/ \E nonblock \in BOOLEAN : fcntl(c, fd, nonblock)
        \/ \E timeout \in Timeout \ {1} : setsockopt(c, fd, timeout)

\* poll has the system's poll for pollfunc; co_poll is libco's own.
Polls(c, fds, timeout) ==
    \/ Counted(c, Running(c) /\ co_poll_inner(c, fds, {"IN"}, timeout, TRUE))
    \/ Counted(c, co_poll(c, fds, {"IN"}, timeout))

Waits(c) ==
    \/ \E fd \in Sockets : reads(c, fd) \/ connect(c, fd)
    \/ \E fd \in Sockets : read(c, fd) \/ recv(c, fd) \/ recvfrom(c, fd)
    \/ \E fd \in Sockets : write(c, fd) \/ send(c, fd) \/ sendto(c, fd)
    \/ ReadReturns(c) \/ WriteTries(c) \/ WriteWaits(c) \/ ConnectWaits(c) \/ ConnectReturns(c)
    \/ \E fds \in PollSets, timeout \in Timeout : Polls(c, fds, timeout)
    \/ \E ms \in Timeout : Counted(c, co_cond_timedwait(c, ms))

\* Only connect looks at what poll returns.
Result(c) == IF call[c] # NoCall /\ call[c].name = "connect" THEN s.item[c].iRaiseCnt ELSE 0

Switches(c) ==
    \/ \E d \in Co \ {c} : Counted(c, Resumes(c, d))
    \/ Counted(c, Yields(c)) \/ Counted(c, co_cond_signal(c)) \/ Counted(c, co_cond_broadcast(c))
    \/ call[c] = NoCall /\ Uncounted(Ends(c))
    \/ Uncounted(Starts(c)) \/ Uncounted(PollReturns(c, Result(c))) \/ Uncounted(CondReturns(c))

CoStep(c) == Descriptors(c) \/ Waits(c) \/ Switches(c)

LoopStep == Uncounted(EpollWait) \/ Uncounted(RunItem) \/ Uncounted(EndOfRound)

Next ==
    \/ \E c \in Co : CoStep(c) \/ Uncounted(Resumes(Main, c))
    \/ LoopStep
    \/ Uncounted(Tick) \/ Uncounted(StepsBack)
    \/ \E fd \in Fd, event \in {"IN", "OUT"} : Readies(fd, event)

Spec == Init /\ [][Next]_vars

\* What follows without a decision of a coroutine's code: the rest of its call,
\* its return from a wait, and its end when it makes no further call.
Continues(c) ==
    \/ ReadReturns(c) \/ WriteTries(c) \/ WriteWaits(c) \/ ConnectWaits(c) \/ ConnectReturns(c)
    \/ Uncounted(Starts(c)) \/ Uncounted(PollReturns(c, Result(c))) \/ Uncounted(CondReturns(c))
    \/ call[c] = NoCall /\ Uncounted(Ends(c))

ThreadStep == LoopStep \/ \E c \in Co : Continues(c)

\* The thread is scheduled, a coroutine that runs does not run for ever, and
\* the clock goes on.
FairSpec == Spec /\ WF_vars(ThreadStep) /\ SF_vars(Uncounted(Tick))

-----------------------------------------------------------------------------
(* Properties *)

\* How often a coroutine is in the active list and in the slots of the wheel.
Times(list, c) == Cardinality({i \in DOMAIN list : list[i] = c})

Places(c) == FoldLeft(LAMBDA n, i : n + Times(s.wheel[i - 1], c), Times(s.active, c),
                      [i \in 1 .. iItemSize |-> i])

\* A coroutine that waits is in one list, once, and one that has been resumed
\* in none: an event, a timeout and a signal of one round resume it once
\* (co_eventloop, OnPollPreparePfn, co_cond_signal).
ResumedOnce ==
    \A c \in Co :
        /\ Places(c) <= 1
        /\ c \in Range(stack) => Places(c) = 0
        /\ pc[c] = "poll" /\ c \notin Range(stack) => Places(c) = 1

\* A slot of the wheel comes up no later than the time of its items, and an
\* item the wheel is too short for is not resumed before its time.
TimeoutsAreOnTime ==
    /\ \A d \in 0 .. iItemSize - 1 :
         \A c \in Range(s.wheel[(s.llStartIdx + d) % iItemSize]) : d <= s.item[c].ullExpireTime
    /\ \A c \in Co : Current = c /\ pc[c] = "poll" /\ s.item[c].iRaiseCnt = 0 =>
         s.item[c].ullExpireTime <= 0

\* What epoll watches belongs to a coroutine that is in co_poll_inner for that
\* descriptor: the item an event points to is never one that was freed.
EventsReachWaiters ==
    \A fd \in Fd : epoll[fd] # None =>
        /\ pc[epoll[fd].co] = "poll"
        /\ fd \in s.item[epoll[fd].co].fds

\* Whatever poll a coroutine is in, its event or its timeout, whichever comes
\* first, ends it once and not too early (co_poll_inner, co_eventloop).
PollsEndOnce == ResumedOnce /\ TimeoutsAreOnTime /\ EventsReachWaiters

\* The running coroutine finds its own frames on the shared stack (co_swap).
StackIsOwn == Current \in Shared => mem.frames = Current

\* No hooked call blocks the thread, and with it every coroutine, when the
\* descriptor was made by socket or set up by fcntl after co_accept.
ThreadNeverBlocks == ~blocked

\* A call that waits returns, and the other coroutines run meanwhile: at the
\* latest its timeout ends it, with a clock that stepped back and with another
\* coroutine polling the same descriptor.
CallsReturn ==
    /\ []ThreadNeverBlocks
    /\ \A c \in Co : (pc[c] = "poll" \/ call[c] # NoCall) ~> ((pc[c] = "run" /\ call[c] = NoCall) \/ loop = "over")
==============================================================================
