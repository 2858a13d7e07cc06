----------------------------- MODULE FcgiAsyncIo -----------------------------
(***************************************************************************)
(* Asynchronous I/O of libfcgi (fastcgi/fastcgi_lib/os_unix.cpp): the      *)
(* table of operations, the sets of descriptors that are waited for and    *)
(* those that were found ready, and OS_DoIo, whose callbacks start and     *)
(* close at will.  An operation is <<"read" or "write", fd>>.              *)
(*                                                                         *)
(* io is [size, inUse, wait, post, num, maxFd, open, shut, at, done]: size *)
(* of the table; the operations in use; readFdSet and writeFdSet;          *)
(* readFdSetPost and writeFdSetPost; numRdPosted + numWrPosted; the        *)
(* descriptors that are open, and shut for reading; the index OS_DoIo's    *)
(* loop has reached, Idle outside it; and how many callbacks ran.          *)
(***************************************************************************)
EXTENDS Integers, Sequences, FiniteSets

CONSTANTS InitialSize   \* of the table, 16

Idle == -1

\* AIO_RD_IX and AIO_WR_IX
Index(op) == IF op[1] = "read" THEN op[2] * 2 ELSE op[2] * 2 + 1

NewIo(fds) == [size |-> InitialSize, inUse |-> {}, wait |-> {}, post |-> {}, num |-> 0, maxFd |-> -1,
               open |-> fds, shut |-> {}, at |-> Idle, done |-> 0]

RECURSIVE GrowAsyncTable(_, _)
GrowAsyncTable(size, index) == IF index < size THEN size ELSE GrowAsyncTable(size * 2, index)

\* OS_AsyncRead and OS_AsyncReadStdin.  The entry must be free.
Started(io, op) ==
    [io EXCEPT !.size = GrowAsyncTable(@, Index(op)), !.maxFd = IF op[2] > @ THEN op[2] ELSE @,
               !.inUse = @ \cup {op}, !.wait = @ \cup {op}]

OS_AsyncRead(io, fd)  == Started(io, <<"read", fd>>)

OS_AsyncWrite(io, fd) == Started(io, <<"write", fd>>)

\* Faulty variant: the highest descriptor is lowered whichever is closed.
OS_CloseLowers(io, fd) ==
    LET ops == {<<"read", fd>>, <<"write", fd>>}
    IN  [io EXCEPT !.inUse = @ \ ops, !.wait = @ \ ops, !.post = @ \ ops, !.open = @ \ {fd}, !.maxFd = @ - 1]

\* The counts of posted operations are left as they are.
OS_Close(io, fd) ==
    LET ops == {<<"read", fd>>, <<"write", fd>>}
    IN  [io EXCEPT !.inUse = @ \ ops, !.wait = @ \ ops, !.post = @ \ ops, !.open = @ \ {fd},
                   !.maxFd = IF @ = fd THEN @ - 1 ELSE @]

OS_CloseRead(io, fd) ==
    [io EXCEPT !.inUse = @ \ {<<"read", fd>>}, !.shut = @ \cup {fd},
               !.wait = IF <<"read", fd>> \in io.inUse THEN @ \ {<<"read", fd>>} ELSE @]

\* OS_DoIo up to its second loop.  ready is what select would report; it is
\* called only when nothing is counted as posted.
OS_DoIo(io, ready) ==
    LET found  == {op \in ready : op \in io.wait /\ op[2] <= io.maxFd}
        posted == IF io.num # 0 THEN io
                  ELSE [io EXCEPT !.post = @ \cup found, !.wait = @ \ found, !.num = Cardinality(found)]
    IN  IF posted.num = 0 THEN posted ELSE [posted EXCEPT !.at = 0]

\* The second loop: the operation it looks at next is dispatched if it is
\* posted and in use, and its entry is free when the callback runs.
AtOp(io) == <<IF io.at % 2 = 0 THEN "read" ELSE "write", io.at \div 2>>

Dispatches(io) == io.at \div 2 <= io.maxFd /\ AtOp(io) \in io.post \cap io.inUse

Dispatched(io) ==
    [io EXCEPT !.num = @ - 1, !.post = @ \ {AtOp(io)}, !.inUse = @ \ {AtOp(io)}, !.done = @ + 1]

LoopEnds(io) == io.at \div 2 > io.maxFd
==============================================================================
