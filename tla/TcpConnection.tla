---------------------------- MODULE TcpConnection ----------------------------
(***************************************************************************)
(* A connection of mucgi in its loop's thread: muduo's TcpConnection, its  *)
(* channel, and FastCgiCodec::onMessage as the message callback; at the    *)
(* other end of the socket a web server that may read slowly, close, or be *)
(* gone and reset the connection.                                          *)
(*                                                                         *)
(* A byte of a response is the number of the request it answers.  A request *)
(* arrives in pieces, of which the last makes it complete; the records and *)
(* what the codec makes of them are the subject of FastCgiCodec.           *)
(***************************************************************************)
EXTENDS Integers, FiniteSets, Sequences, SequencesExt

CONSTANTS Responses,    \* lengths of the backend's responses, with their records
          SendBuffer,   \* bytes the kernel takes before a write would block
          MaxPieces,    \* bound: pieces of one request
          MaxRequests   \* bound: requests on the connection

VARIABLES
    state_, reading, writing,  \* the channel's two interests
    outputBuffer_,
    revents,       \* what the last poll reported and is not handled yet
    finSent,       \* shutdownWrite was called
    net,           \* bytes in the kernel or on their way
    arrived,       \* pieces of requests that wait in the kernel: "part", "keep", "end"
    answered,      \* response length of each request answered
    peer,          \* the web server: idle, sending, waiting, last, closed
    pieces,        \* pieces it has sent of the current request
    received,      \* bytes it has read
    reset          \* no; error: the socket has an error to report; seen: reported

serverVars == <<state_, reading, writing, outputBuffer_, finSent, answered>>
peerVars == <<peer, pieces, received>>
vars == <<serverVars, peerVars, revents, net, arrived, reset>>

Init ==
    /\ state_ = "kConnecting" /\ reading = FALSE /\ writing = FALSE
    /\ outputBuffer_ = <<>>
    /\ revents = {}
    /\ finSent = FALSE
    /\ net = <<>> /\ arrived = <<>> /\ answered = <<>>
    /\ peer = "idle" /\ pieces = 0 /\ received = <<>>
    /\ reset = "no"

Bytes(n, i) == [k \in 1 .. n |-> i]

\* The bytes of the responses to all requests answered.
Whole == FoldLeftDomain(LAMBDA bytes, i : bytes \o Bytes(answered[i], i), <<>>, answered)

-----------------------------------------------------------------------------
(* The web server and the network *)

Requested == Len(answered) + Len(SelectSeq(arrived, LAMBDA p : p # "part"))

\* The next request on a kept connection may follow before the response has
\* been read, though not before the server has read the request before it.
MaySend ==
    /\ peer \in {"idle", "sending"} \/ (peer = "waiting" /\ arrived = <<>>)
    /\ Requested < MaxRequests

PeerSendsPart ==
    /\ MaySend /\ pieces < MaxPieces - 1
    /\ peer' = "sending" /\ pieces' = pieces + 1
    /\ arrived' = Append(arrived, "part")
    /\ UNCHANGED <<serverVars, received, revents, net, reset>>

\* The last piece of a request that asks to keep the connection, or not.
PeerSendsLast(keep) ==
    /\ MaySend
    /\ peer' = IF keep THEN "waiting" ELSE "last"
    /\ pieces' = 0
    /\ arrived' = Append(arrived, IF keep THEN "keep" ELSE "end")
    /\ UNCHANGED <<serverVars, received, revents, net, reset>>

PeerReads(n) ==
    /\ peer # "closed" /\ n \in 1 .. Len(net)
    /\ received' = received \o SubSeq(net, 1, n)
    /\ net' = SubSeq(net, n + 1, Len(net))
    /\ peer' = IF peer = "waiting" /\ arrived = <<>> /\ received' = Whole THEN "idle" ELSE peer
    /\ UNCHANGED <<serverVars, pieces, revents, arrived, reset>>

PeerCloses ==
    /\ peer # "closed"
    /\ peer' = "closed"
    /\ UNCHANGED <<serverVars, pieces, received, revents, net, arrived, reset>>

\* Bytes that reach a closed socket are answered by a reset.
PeerResets ==
    /\ peer = "closed" /\ net # <<>> /\ reset = "no"
    /\ reset' = "error" /\ net' = <<>>
    /\ UNCHANGED <<serverVars, peerVars, revents, arrived>>

-----------------------------------------------------------------------------
(* The loop *)

connectEstablished ==
    /\ state_ = "kConnecting"
    /\ state_' = "kConnected" /\ reading' = TRUE
    /\ UNCHANGED <<writing, outputBuffer_, finSent, answered, peerVars, revents, net, arrived,
                   reset>>

\* A reset shows as POLLERR until somebody has been told of it, and as POLLIN
\* for good.
Ready ==
    {e \in {"POLLERR", "POLLIN", "POLLOUT"} :
        \/ e = "POLLERR" /\ reading /\ reset = "error"
        \/ e = "POLLIN" /\ reading /\ (arrived # <<>> \/ peer = "closed")
        \/ e = "POLLOUT" /\ writing /\ (Len(net) < SendBuffer \/ reset # "no")}

PollReturns ==
    /\ revents = {} /\ Ready # {}
    /\ revents' = Ready
    /\ UNCHANGED <<serverVars, peerVars, net, arrived, reset>>

-----------------------------------------------------------------------------
(* TcpConnection *)

\* A system call that fails, or getsockopt, reports the reset once.
Told == IF reset = "error" THEN "seen" ELSE reset

\* What ::write takes of len bytes, when the socket has no error.
nwrote(len) == IF len <= SendBuffer - Len(net) THEN len ELSE SendBuffer - Len(net)

\* Faulty variant: the direct write overtakes the output buffer.
sendInLoopDirect(data) ==
    LET n == IF reset = "no" THEN nwrote(Len(data)) ELSE 0
        rest == SubSeq(data, n + 1, Len(data))
    IN  /\ net' = net \o SubSeq(data, 1, n)
        /\ outputBuffer_' = outputBuffer_ \o rest
        /\ writing' = (writing \/ rest # <<>>)
        /\ reset' = Told

\* Faulty variant: handleWrite is not asked for.
sendInLoopUnwatched(data) ==
    LET n == IF writing \/ outputBuffer_ # <<>> \/ reset # "no" THEN 0 ELSE nwrote(Len(data))
    IN  /\ net' = net \o SubSeq(data, 1, n)
        /\ outputBuffer_' = outputBuffer_ \o SubSeq(data, n + 1, Len(data))
        /\ reset' = Told
        /\ UNCHANGED writing

\* Write what the socket takes, unless bytes wait already, and keep the rest
\* for handleWrite.  After EPIPE or ECONNRESET the rest is dropped.
sendInLoop(data) ==
    LET direct == ~writing /\ outputBuffer_ = <<>>
        fault  == direct /\ reset # "no"
        n      == IF direct /\ ~fault THEN nwrote(Len(data)) ELSE 0
        rest   == IF fault THEN <<>> ELSE SubSeq(data, n + 1, Len(data))
    IN  /\ net' = net \o SubSeq(data, 1, n)
        /\ outputBuffer_' = outputBuffer_ \o rest
        /\ writing' = (writing \/ rest # <<>>)
        /\ reset' = IF direct THEN Told ELSE reset

\* shutdownInLoop leaves the FIN to handleWrite while bytes wait.
shutdown ==
    IF state_ = "kConnected"
    THEN state_' = "kDisconnecting" /\ finSent' = (finSent \/ ~writing')
    ELSE UNCHANGED <<state_, finSent>>

\* The codec has the whole request: the backend's response is sent and, unless
\* the connection is kept, its write side shut down.
onMessage(keep) ==
    /\ \E len \in Responses :
         IF state_ = "kConnected"
         THEN /\ answered' = Append(answered, len)
              /\ sendInLoop(Bytes(len, Len(answered) + 1))
         ELSE UNCHANGED <<answered, net, outputBuffer_, writing, reset>>
    /\ IF keep THEN UNCHANGED <<state_, finSent>> ELSE shutdown
    /\ UNCHANGED reading

\* The connection is given up at once, with what waits in the output buffer.
handleClose ==
    /\ state_' = "kDisconnected"
    /\ reading' = FALSE /\ writing' = FALSE
    /\ UNCHANGED <<outputBuffer_, finSent, answered, net>>

\* The channel's first callback for a reset only asks what it is and logs it.
handleError ==
    /\ "POLLERR" \in revents
    /\ revents' = revents \ {"POLLERR"}
    /\ reset' = Told
    /\ UNCHANGED <<serverVars, peerVars, net, arrived>>

\* Faulty variant: the end of the stream is taken for an error.
handleReadNoClose ==
    /\ "POLLIN" \in revents /\ "POLLERR" \notin revents
    /\ revents' = revents \ {"POLLIN"}
    /\ arrived' = <<>>
    /\ CASE Contains(arrived, "keep") -> onMessage(TRUE)
         [] Contains(arrived, "end")  -> onMessage(FALSE)
         [] OTHER -> UNCHANGED <<serverVars, net, reset>>
    /\ UNCHANGED peerVars

\* A message, an error to be logged, or the end of the stream.
handleRead ==
    /\ "POLLIN" \in revents /\ "POLLERR" \notin revents
    /\ revents' = revents \ {"POLLIN"}
    /\ arrived' = <<>>
    /\ IF arrived # <<>>
       THEN CASE Contains(arrived, "keep") -> onMessage(TRUE)
              [] Contains(arrived, "end")  -> onMessage(FALSE)
              [] OTHER -> UNCHANGED <<serverVars, net, reset>>
       ELSE IF reset = "error"
       THEN reset' = Told /\ UNCHANGED <<serverVars, net>>
       ELSE handleClose /\ UNCHANGED reset
    /\ UNCHANGED peerVars

\* Faulty variant: the FIN asked for while bytes waited is forgotten.
handleWriteNoFin ==
    /\ revents = {"POLLOUT"} /\ revents' = {}
    /\ reset' = IF writing THEN Told ELSE reset
    /\ LET n == IF writing /\ reset = "no" THEN nwrote(Len(outputBuffer_)) ELSE 0
       IN  /\ net' = net \o SubSeq(outputBuffer_, 1, n)
           /\ outputBuffer_' = SubSeq(outputBuffer_, n + 1, Len(outputBuffer_))
           /\ writing' = (writing /\ outputBuffer_' # <<>>)
    /\ UNCHANGED <<state_, reading, finSent, answered, peerVars, arrived>>

\* A failed write is only logged; the reset shows as POLLIN too.
handleWrite ==
    /\ revents = {"POLLOUT"} /\ revents' = {}
    /\ reset' = IF writing THEN Told ELSE reset
    /\ LET n == IF writing /\ reset = "no" THEN nwrote(Len(outputBuffer_)) ELSE 0
           empty == n > 0 /\ n = Len(outputBuffer_)
       IN  /\ net' = net \o SubSeq(outputBuffer_, 1, n)
           /\ outputBuffer_' = SubSeq(outputBuffer_, n + 1, Len(outputBuffer_))
           /\ writing' = (writing /\ ~empty)
           /\ finSent' = (finSent \/ (empty /\ state_ = "kDisconnecting"))
    /\ UNCHANGED <<state_, reading, answered, peerVars, arrived>>

-----------------------------------------------------------------------------
PeerReadsOn == \E n \in 1 .. SendBuffer : PeerReads(n)

PeerStep ==
    \/ PeerSendsPart \/ (\E keep \in BOOLEAN : PeerSendsLast(keep))
    \/ PeerReadsOn \/ PeerCloses \/ PeerResets

LoopStep == connectEstablished \/ PollReturns \/ handleError \/ handleRead \/ handleWrite

Next == PeerStep \/ LoopStep

Spec == Init /\ [][Next]_vars

\* The loop runs.  A web server that has not closed reads what it is sent, and
\* bytes sent to one that has closed are answered by a reset.
FairSpec ==
    /\ Spec
    /\ WF_vars(LoopStep)
    /\ WF_vars(PeerReadsOn)
    /\ WF_vars(PeerResets)

-----------------------------------------------------------------------------
(* Properties *)

\* The web server reads the responses whole and in order, whatever was
\* written directly and whatever went through the output buffer, until the
\* connection is closed or reset; and handleClose's assertion holds: the
\* connection is still up when the read is due that the poll reported, although
\* other callbacks of the channel come first.  As long as the connection is up,
\* the channel watches for writing exactly while bytes wait.
StreamInOrder ==
    /\ state_ # "kDisconnected" /\ reset = "no" => received \o net \o outputBuffer_ = Whole
    /\ "POLLIN" \in revents => state_ \in {"kConnected", "kDisconnecting"}
    /\ writing <=> reading /\ outputBuffer_ # <<>>

\* Every request the web server has sent gets its whole response, or the web
\* server has closed.
Delivered(i) ==
    /\ Len(answered) >= i
    /\ Len(SelectSeq(received, LAMBDA b : b = i)) = answered[i]

ResponseArrives ==
    \A i \in 1 .. MaxRequests : Requested >= i ~> peer = "closed" \/ Delivered(i)

\* shutdown neither cuts a response off nor is forgotten: nothing waits and
\* nothing is written once the FIN is sent, and a connection that is not kept
\* comes to that.
ShutdownCompletes ==
    /\ [][finSent => outputBuffer_ = <<>> /\ Len(received' \o net') <= Len(received \o net)]_vars
    /\ state_ = "kDisconnecting" ~> finSent \/ state_ = "kDisconnected"

\* A connection whose peer has closed is given up, also when bytes wait that
\* nobody will read and when every write fails.
PeerGoneIsNoticed == peer = "closed" ~> state_ = "kDisconnected"
==============================================================================
