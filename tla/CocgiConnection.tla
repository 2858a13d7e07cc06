-------------------------- MODULE CocgiConnection --------------------------
(***************************************************************************)
(* The connections one cocgi task serves, one after the other: the records *)
(* a web server sends, cut by the network at any byte, the codec's         *)
(* readData and doRequest, and the response written to a socket that may   *)
(* be full.  The codec is reused from connection to connection.            *)
(***************************************************************************)
EXTENDS FastCgiCodec

CONSTANTS Requests,        \* what the web server may ask: [role, flags, length, params,
                           \* stdin], where length is that of BEGIN_REQUEST's content
          Paddings,        \* paddings of the web server's records
          Results,         \* lengths of the backend's results
          SendBuffer,      \* bytes the socket takes before it would block
          MaxRequests,     \* bound: requests on one connection
          MaxConnections   \* bound: connections

VARIABLES
    client,       \* the web server: [stage, req, params, stdin], the last two unsent
    pipe,         \* records sent and not yet consumed by the codec
    readable,     \* how many bytes of pipe are in m_buf
    codec,        \* the codec's other members
    pc,           \* poll: waiting to read; write: in doRequest; closed
    response,     \* bytes of the response not yet written
    inFlight,     \* bytes written and not yet received
    received,     \* bytes of the current response the web server has
    asked,        \* requests completely sent on this connection
    answered,     \* backend calls on this connection: [params, stdin, size]
    written,      \* bytes written of each of their responses
    connections   \* connections so far

serverVars == <<codec, pc, response, answered, written>>
clientVars == <<client, received, asked>>
vars == <<serverVars, clientVars, pipe, readable, inFlight, connections>>

-----------------------------------------------------------------------------
(* The web server *)

NoRequest == [stage |-> "idle", req |-> <<>>, params |-> <<>>, stdin |-> <<>>]

Sends(type, content) ==
    \E p \in Paddings :
        pipe' = Append(pipe, [type |-> type, content |-> content, padding |-> p])

ClientAsks(r) ==
    /\ pc # "closed" /\ client.stage = "idle" /\ Len(asked) < MaxRequests
    /\ Sends("BEGIN_REQUEST", SubSeq(<<r.role, r.flags>> \o [i \in 1 .. kRecordHeader - 2 |-> 0],
                                     1, r.length))
    /\ client' = [stage |-> "params", req |-> r,
                  params |-> EncodeParams(r.params), stdin |-> r.stdin]
    /\ UNCHANGED <<serverVars, received, asked, readable, inFlight, connections>>

\* A stream is cut into records anywhere, and ends with an empty record.
ClientSendsParams ==
    /\ pc # "closed" /\ client.stage = "params"
    /\ \E k \in 0 .. Len(client.params) :
         /\ k = 0 => client.params = <<>>
         /\ Sends("PARAMS", SubSeq(client.params, 1, k))
         /\ client' = [client EXCEPT !.params = SubSeq(@, k + 1, Len(@)),
                                     !.stage = IF k = 0 THEN "stdin" ELSE @]
    /\ UNCHANGED <<serverVars, received, asked, readable, inFlight, connections>>

ClientSendsStdin ==
    /\ pc # "closed" /\ client.stage = "stdin"
    /\ \E k \in 0 .. Len(client.stdin) :
         /\ k = 0 => client.stdin = <<>>
         /\ Sends("STDIN", SubSeq(client.stdin, 1, k))
         /\ client' = [client EXCEPT !.stdin = SubSeq(@, k + 1, Len(@)),
                                     !.stage = IF k = 0 THEN "wait" ELSE @]
         /\ asked' = IF k = 0 THEN Append(asked, client.req) ELSE asked
    /\ UNCHANGED <<serverVars, received, readable, inFlight, connections>>

\* END_REQUEST is the end of the response; only then the next request is sent.
ClientReceives ==
    /\ inFlight > 0 /\ client.stage # "gone"
    /\ LET all == received + inFlight
           end == /\ client.stage = "wait"
                  /\ Len(answered) = Len(asked)
                  /\ all = answered[Len(answered)].size
       IN  /\ received' = IF end THEN 0 ELSE all
           /\ client' = IF end THEN NoRequest ELSE client
    /\ inFlight' = 0
    /\ UNCHANGED <<serverVars, asked, pipe, readable, connections>>

ClientCloses ==
    /\ pc # "closed" /\ client.stage # "gone"
    /\ client' = [NoRequest EXCEPT !.stage = "gone"]
    /\ UNCHANGED <<serverVars, received, asked, pipe, readable, inFlight, connections>>

-----------------------------------------------------------------------------
(* FastCgiCodec::readData and doRequest *)

\* What readData resets once a request has been answered.
requestDone(c) == [NewCodec EXCEPT !.keepConn = c.keepConn]

\* The call of readFd that gets n more bytes, the records they complete and,
\* with the last record of a request, the backend's call.
readData(n) ==
    /\ pc = "poll"
    /\ UNCHANGED <<clientVars, inFlight, connections>>
    /\ LET p == parseFcgiPackage(codec, pipe, readable + n) IN
       /\ pipe' = p.recs
       /\ readable' = p.n
       /\ codec' = p.codec
       /\ IF p.codec.gotRequest
          THEN \E out \in Results :
                 /\ response' = ResponseSize(out)
                 /\ answered' = Append(answered, [params |-> p.codec.params,
                                                  stdin  |-> p.codec.stdin,
                                                  size   |-> ResponseSize(out)])
                 /\ written' = Append(written, 0)
                 /\ pc' = "write"
          ELSE UNCHANGED <<response, answered, written, pc>>

\* One write of doRequest's loop; the last one ends the request, and the
\* connection too unless it is to be kept.
doRequestWrites ==
    /\ pc = "write" /\ inFlight < SendBuffer
    /\ LET n == Min({response, SendBuffer - inFlight})
           last == n = response
       IN  /\ response' = response - n
           /\ inFlight' = inFlight + n
           /\ written' = [written EXCEPT ![Len(written)] = @ + n]
           /\ codec' = IF last THEN requestDone(codec) ELSE codec
           /\ pc' = IF ~last THEN pc ELSE IF codec.keepConn THEN "poll" ELSE "closed"
    /\ UNCHANGED <<clientVars, pipe, readable, answered, connections>>

\* A write that would block, or finds the connection reset, ends the request
\* too: readData still returns ERR_OK and the connection stays.
doRequestFails ==
    /\ pc = "write"
    /\ inFlight = SendBuffer \/ client.stage = "gone"
    /\ response' = 0
    /\ codec' = requestDone(codec)
    /\ pc' = "poll"
    /\ UNCHANGED <<clientVars, pipe, readable, inFlight, answered, written, connections>>

\* The process does not ignore SIGPIPE, which a write raises when the web
\* server has closed and then reset the connection.
SigPipe ==
    /\ pc = "write" /\ client.stage = "gone"
    /\ response' = 0
    /\ codec' = NewCodec
    /\ pc' = "closed"
    /\ UNCHANGED <<clientVars, pipe, readable, inFlight, answered, written, connections>>

-----------------------------------------------------------------------------
(* RealReadwriteRoutine *)

\* Faulty variant: a silent connection is kept for ever.
ClosesOnEof ==
    /\ pc = "poll" /\ readable = Sizes(pipe) /\ client.stage = "gone"
    /\ pc' = "closed"
    /\ UNCHANGED <<clientVars, codec, response, answered, written, pipe, readable, inFlight,
                   connections>>

\* Nothing to read: the web server has closed, or was silent for too long.
Closes ==
    /\ pc = "poll" /\ readable = Sizes(pipe)
    /\ pc' = "closed"
    /\ UNCHANGED <<clientVars, codec, response, answered, written, pipe, readable, inFlight,
                   connections>>

\* Faulty variant: the codec is not cleared between connections.
StartsDirty ==
    /\ pc = "closed" /\ connections < MaxConnections
    /\ connections' = connections + 1
    /\ pc' = "poll" /\ client' = NoRequest
    /\ pipe' = <<>> /\ readable' = 0 /\ inFlight' = 0 /\ received' = 0
    /\ asked' = <<>> /\ answered' = <<>> /\ written' = <<>>
    /\ UNCHANGED <<codec, response>>

\* The task takes its next connection and clears the codec.
Starts ==
    /\ pc = "closed" /\ connections < MaxConnections
    /\ connections' = connections + 1
    /\ pc' = "poll" /\ client' = NoRequest
    /\ codec' = NewCodec
    /\ pipe' = <<>> /\ readable' = 0 /\ inFlight' = 0 /\ received' = 0
    /\ asked' = <<>> /\ answered' = <<>> /\ written' = <<>>
    /\ UNCHANGED response

-----------------------------------------------------------------------------
Init ==
    /\ client = NoRequest
    /\ pipe = <<>> /\ readable = 0
    /\ codec = NewCodec
    /\ pc = "poll"
    /\ response = 0 /\ inFlight = 0 /\ received = 0
    /\ asked = <<>> /\ answered = <<>> /\ written = <<>>
    /\ connections = 1

Reads == \E n \in 1 .. Sizes(pipe) - readable : readData(n)

Next ==
    \/ \E r \in Requests : ClientAsks(r)
    \/ ClientSendsParams \/ ClientSendsStdin \/ ClientReceives \/ ClientCloses
    \/ Reads \/ doRequestWrites \/ doRequestFails \/ SigPipe
    \/ Closes \/ Starts

Spec == Init /\ [][Next]_vars

\* co_poll returns within a second and the write loop does not suspend; the
\* network delivers; a silent connection is closed after MAX_RECYCLE_COUNT
\* polls (CocgiServer).  The web server owes nothing.
FairSpec ==
    /\ Spec
    /\ WF_vars(Reads) /\ WF_vars(doRequestWrites \/ doRequestFails)
    /\ WF_vars(Closes)

-----------------------------------------------------------------------------
(* Properties *)

\* After a response that was cut short by a full socket no other is written.
OnlyLastResponseIsPartial ==
    \A i \in 1 .. Len(written) - 1 : written[i] = answered[i].size

\* What onBeginRequest takes notice of, and what the connection was last told.
Obeyed(r) == r.length >= kRecordHeader /\ r.role = kFcgiResponder

ToBeKept ==
    LET told == SelectSeq(asked, Obeyed)
    IN  told # <<>> /\ told[Len(told)].flags = kFcgiKeepConn

\* A response that was written to its end is followed by a close unless the
\* last BEGIN_REQUEST of this connection that was long enough and had the role
\* of a responder had flags 1: not one of an earlier connection, and not one
\* that was passed over.  The comment (fastcgi.cpp:167-170) speaks of the bit,
\* "flags & FCGI_KEEP_CONN: If zero, the application closes the connection";
\* the code compares the byte, so it also closes for flags 3, say.
KeepConnHonoured ==
    [][pc = "write" /\ response' = 0 /\ inFlight' > inFlight =>
         (pc' = "closed" <=> ~ToBeKept)]_vars


\* A request that was sent completely gets its whole response, or the
\* connection is closed and the web server knows that it will not.
RequestIsSettled ==
    client.stage = "wait" ~> client.stage # "wait" \/ pc = "closed"

\* The backend is called once for each request, in order, with the parameters
\* and the body of that request, whatever the records and reads that carry it.
Asked(r) == [params |-> Meaning(r.params), stdin |-> r.stdin]

Conversation == INSTANCE RequestResponse
    WITH Request  <- {Asked(r) : r \in Requests},
         asked    <- [i \in 1 .. Len(asked) |-> Asked(asked[i])],
         answered <- [i \in 1 .. Len(answered) |->
                        [params |-> answered[i].params, stdin |-> answered[i].stdin]]

ImplementsConversation == Conversation!Spec
==============================================================================
