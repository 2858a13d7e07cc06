------------------------------- MODULE Pollers -------------------------------
(***************************************************************************)
(* The two pollers a muduo loop may have, under the same calls of its      *)
(* channels: EPollPoller, which keeps a channel's interest in the kernel,  *)
(* and PollPoller (MUDUO_USE_POLL), which keeps an array for poll(2) and   *)
(* each channel's place in it.  A descriptor is reused by another channel  *)
(* when its channel has been removed.                                      *)
(***************************************************************************)
EXTENDS Integers, Sequences, FiniteSets, Functions

CONSTANTS Channel,      \* channel objects
          FdOf(_),        \* the descriptor of each
          InitEvents    \* kInitEventListSize

kReadEvent  == {"in"}
kWriteEvent == {"out"}
kNoneEvent  == {}

VARIABLES
    events_,        \* interest of each channel
    channels_,      \* set of <<fd, channel>>, the same for both pollers
    epollIndex,     \* index_ as EPollPoller uses it: kNew, kAdded, kDeleted
    interest,       \* the kernel's: set of [fd, events, ptr]
    listSize,       \* events_.size() of EPollPoller
    pollIndex,      \* index_ as PollPoller uses it, from 1; 0 for none
    pollfds_,       \* sequence of [fd, events]; an ignored fd is -fd - 1
    disabled,       \* channels that have lost all interest since they were added
    aborted,        \* PollPoller's loop has failed an assertion
    active          \* what poll has just put into activeChannels: [epoll, poll]

pollerVars == <<events_, channels_, epollIndex, interest, listSize, pollIndex, pollfds_, disabled,
                aborted, active>>

NoneActive == [epoll |-> {}, poll |-> {}]

PollerInit ==
    /\ events_ = [c \in Channel |-> kNoneEvent]
    /\ channels_ = {}
    /\ epollIndex = [c \in Channel |-> "kNew"] /\ interest = {} /\ listSize = InitEvents
    /\ pollIndex = [c \in Channel |-> 0] /\ pollfds_ = <<>> /\ disabled = {} /\ aborted = FALSE
    /\ active = NoneActive

hasChannel(c) == <<FdOf(c), c>> \in channels_

-----------------------------------------------------------------------------
(* updateChannel, with c's new interest ev *)

Watched(c, ev) == [fd |-> FdOf(c), events |-> ev, ptr |-> c]

\* EPOLL_CTL_ADD, _DEL or _MOD.  A channel that is not in the kernel's set is
\* added, whatever its interest.
epollUpdate(c, ev) ==
    /\ epollIndex' = [epollIndex EXCEPT ![c] = IF ev = kNoneEvent /\ @ = "kAdded"
                                               THEN "kDeleted" ELSE "kAdded"]
    /\ interest' = {w \in interest : w.ptr # c}
                     \cup (IF epollIndex'[c] = "kAdded" THEN {Watched(c, ev)} ELSE {})

\* A new channel gets the next place.  For a known one the descriptor of its
\* entry is made negative when there is no interest, and left as it is when
\* there is.
pollUpdate(c, ev) ==
    IF aborted THEN UNCHANGED <<pollfds_, pollIndex, disabled>>
    ELSE IF pollIndex[c] = 0
    THEN /\ pollfds_' = Append(pollfds_, [fd |-> FdOf(c), events |-> ev])
         /\ pollIndex' = [pollIndex EXCEPT ![c] = Len(pollfds_) + 1]
         /\ UNCHANGED disabled
    ELSE /\ pollfds_' = [pollfds_ EXCEPT ![pollIndex[c]] =
                             [fd |-> IF ev = kNoneEvent THEN -FdOf(c) - 1 ELSE @.fd, events |-> ev]]
         /\ disabled' = IF ev = kNoneEvent THEN disabled \cup {c} ELSE disabled
         /\ UNCHANGED pollIndex

\* enableReading, enableWriting, disableReading, disableWriting, disableAll.
update(c, ev) ==
    /\ \A d \in Channel \ {c} : hasChannel(d) => FdOf(d) # FdOf(c)
    /\ events_' = [events_ EXCEPT ![c] = ev]
    /\ channels_' = channels_ \cup {<<FdOf(c), c>>}
    /\ epollUpdate(c, ev) /\ pollUpdate(c, ev)
    /\ active' = NoneActive
    /\ UNCHANGED <<listSize, aborted>>

Updates(c) ==
    \/ update(c, events_[c] \cup kReadEvent)  \/ update(c, events_[c] \ kReadEvent)
    \/ update(c, events_[c] \cup kWriteEvent) \/ update(c, events_[c] \ kWriteEvent)
    \/ update(c, kNoneEvent)

-----------------------------------------------------------------------------
(* removeChannel *)

epollRemove(c) ==
    /\ interest' = IF epollIndex[c] = "kAdded" THEN {w \in interest : w.ptr # c} ELSE interest
    /\ epollIndex' = [epollIndex EXCEPT ![c] = "kNew"]

Swapped(s, i) == [s EXCEPT ![i] = s[Len(s)]]


\* The descriptor of the entry at the end, ignored or not.
channelAtEnd(s) == LET fd == s[Len(s)].fd IN IF fd < 0 THEN -fd - 1 ELSE fd

\* The entry at the end takes the place of c's.
TakesPlace(c) ==
    /\ pollfds_' = SubSeq(Swapped(pollfds_, pollIndex[c]), 1, Len(pollfds_) - 1)
    /\ pollIndex' =
           [d \in Channel |->
               IF d = c THEN 0
               ELSE IF pollIndex[c] # Len(pollfds_) /\ <<channelAtEnd(pollfds_), d>> \in channels_
               THEN pollIndex[c] ELSE pollIndex[d]]
    /\ disabled' = disabled \ {c}
    /\ UNCHANGED aborted

\* The assertion that c's entry is ignored.  When it fails, this loop is over.
IsIgnored(c) == pollfds_[pollIndex[c]].fd = -FdOf(c) - 1

pollRemove(c) ==
    IF ~aborted /\ IsIgnored(c) THEN TakesPlace(c)
    ELSE /\ aborted' = TRUE
         /\ pollfds_' = <<>> /\ pollIndex' = [d \in Channel |-> 0] /\ disabled' = {}

\* Channel::remove, which its owner calls when there is no interest left.  The
\* owner then destroys c: when c comes back it is another object.
remove(c) ==
    /\ hasChannel(c) /\ events_[c] = kNoneEvent
    /\ channels_' = channels_ \ {<<FdOf(c), c>>}
    /\ epollRemove(c) /\ pollRemove(c)
    /\ active' = NoneActive
    /\ UNCHANGED <<events_, listSize>>

-----------------------------------------------------------------------------
(* poll, when the descriptors in ready have what they are watched for *)

\* epoll_wait reports no more than the list holds; a full list is doubled.
epollPoll(ready) ==
    LET wants == {w.ptr : w \in {w \in interest : w.fd \in ready /\ w.events # {}}}
        n == IF Cardinality(wants) < listSize THEN Cardinality(wants) ELSE listSize
    IN  \E found \in SUBSET wants :
            /\ Cardinality(found) = n
            /\ active' = [epoll |-> found, poll |->
                   {e[2] : e \in {e \in channels_ : \E p \in Range(pollfds_) :
                                     p.fd = e[1] /\ p.fd \in ready /\ p.events # {}}}]
            /\ listSize' = IF n = listSize /\ n > 0 THEN 2 * listSize ELSE listSize

Polls ==
    /\ \E ready \in SUBSET {FdOf(c) : c \in Channel} : epollPoll(ready)
    /\ UNCHANGED <<events_, channels_, epollIndex, interest, pollIndex, pollfds_, disabled,
                   aborted>>

PollerNext == Polls \/ \E c \in Channel : Updates(c) \/ remove(c)

-----------------------------------------------------------------------------
(* Properties *)

==============================================================================
