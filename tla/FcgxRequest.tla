----------------------------- MODULE FcgxRequest -----------------------------
(***************************************************************************)
(* The request cycle of libfcgi (fastcgi/fastcgi_lib/fcgiapp.cpp): a       *)
(* process that accepts a connection, reads a request from it, runs the    *)
(* backend with the environment and the three streams, finishes the        *)
(* request and goes on with the same connection or the next.  The web      *)
(* server, the network and the signal that asks for shutdown interleave    *)
(* with it at every read and write.  A backend may do whatever the         *)
(* library lets it do with its streams.                                    *)
(***************************************************************************)
EXTENDS FcgxStream

CONSTANTS Script,        \* what a web server may send, by name: [id, records, env, stdin]
          MaxRequests,   \* bound: requests sent in a behaviour
          Followers,     \* bound: the requests that may come after another one
          Misread,       \* headers that bytes out of step may be taken for
          InBuff, OutBuff, ErrBuff,   \* 8192, 8192 and 512
          LongPut,       \* bound: bytes of a long write, which no buffer has room for
          GetSizes       \* bound: numbers of bytes the backend asks for at once

VARIABLES
    peer,      \* the web server's side of the connection
    wire,      \* bytes sent by the web server and not yet read
    asked,     \* the name of the last request sent on the connection
    waiting,   \* whether the web server awaits its answer
    clean,     \* whether no byte of a request before it was left on the wire
    sent,      \* requests sent so far
    reply,     \* bytes written on the connection since the request was sent
    pc,        \* where the process is
    stack,     \* where the active calls of FillBuffProc return to
    req,       \* FCGX_Request without its streams
    in, out, err,
    env,       \* paramsPtr: the pairs read so far
    half,      \* bytes of a pair, or of a body, read so far
    want,      \* bytes the backend's FCGX_GetStr still has to move
    job,       \* the FCGX_PutStr or FCGX_FClose in progress
    got,       \* stdin bytes the backend has read
    put,       \* bytes the backend has written to each stream for this answer
    shutdownPending

peerVars   == <<peer, wire, asked, waiting, clean, sent>>
readVars   == <<stack, in, half>>
writeVars  == <<out, err, job>>
backend    == <<want, got, put>>
vars == <<peerVars, reply, pc, readVars, req, writeVars, env, backend, shutdownPending>>

Asked     == Script[asked]
NoJob     == [stream |-> "none", todo |-> <<>>, closing |-> FALSE, then |-> "app"]
NoStream  == Writer("none", 0)

NothingPut == [s \in {"out", "err"} |-> 0]

Stream(s) == IF s = "out" THEN out ELSE err

Becomes(s, w) ==
    IF s = "out" THEN out' = w /\ UNCHANGED err ELSE err' = w /\ UNCHANGED out

Current == Stream(job.stream)

-----------------------------------------------------------------------------
(* The web server (external) *)

WebConnects ==
    /\ peer = "none" /\ sent < MaxRequests
    /\ peer' = "connected" /\ clean' = TRUE
    /\ UNCHANGED <<wire, asked, waiting, reply, sent, pc, readVars, req, writeVars, env, backend, shutdownPending>>

\* The next request follows the answer of the one before: no pipelining.
WebAsks(name) ==
    /\ peer = "connected" /\ ~waiting /\ sent < MaxRequests
    /\ sent > 0 => name \in Followers
    /\ asked' = name /\ waiting' = TRUE /\ sent' = sent + 1
    /\ wire' = wire \o Script[name].records
    /\ UNCHANGED <<peer, clean, reply, pc, readVars, req, writeVars, env, backend, shutdownPending>>

\* The reply holds the END_REQUEST of the request.
Answered ==
    LET end == HeaderBytes(MakeHeader("END_REQUEST", Asked.id, HeaderLen, 0))[1]
    IN  \E i \in 1 .. Len(reply) - 2 * HeaderLen + 1 : reply[i] = end

WebReceives ==
    /\ peer = "connected" /\ waiting /\ Answered
    /\ waiting' = FALSE /\ reply' = <<>> /\ put' = NothingPut
    /\ UNCHANGED <<peer, wire, asked, clean, sent, pc, readVars, req, writeVars, env, want, got,
                   shutdownPending>>

\* The web server closes, crashes while it sends, or resets the connection.
\* It shows at the next read or write, so here it happens there.  A crash
\* loses all that is unread: one that loses less happens later.  Bound: a
\* behaviour has a signal or lost connections, not both.
WebCloses ==
    /\ peer = "connected" /\ ~shutdownPending
    /\ \/ pc = "fill" /\ in.buf = <<>> /\ peer' = "closed" /\ wire' = wire
       \/ /\ (pc = "fill" /\ in.buf = <<>>) \/ pc = "put"
          /\ peer' \in {"closed", "reset"} /\ wire' = <<>>
    /\ waiting' = FALSE
    /\ UNCHANGED <<asked, clean, sent, reply, pc, readVars, req, writeVars, env, backend, shutdownPending>>

-----------------------------------------------------------------------------
(* The operating system: OS_Read, write_it_all and the signals that         *)
(* interrupt them.  The handlers are installed without SA_RESTART.          *)

\* Bound: a read gives one byte or as many as fit.
OS_Read ==
    /\ pc = "fill" /\ in.buf = <<>> /\ wire # <<>>
    /\ \E n \in {1, Smaller(in.bufflen, Len(wire))} :
         /\ in' = [in EXCEPT !.buf = SubSeq(wire, 1, n), !.avail = 0]
         /\ wire' = SubSeq(wire, n + 1, Len(wire))
    /\ UNCHANGED <<peer, asked, waiting, clean, sent, reply, pc, stack, half, req, writeVars, env,
                   backend, shutdownPending>>

\* write_it_all writes all the bytes, or stops before the first or in the
\* middle of them.  What is written to a web server that has gone is lost.
Written(bytes) == reply' = IF peer = "connected" THEN reply \o bytes ELSE reply

WriteSucceeds(bytes) ==
    /\ peer # "reset" \/ bytes = <<>>
    /\ Written(bytes)
    /\ UNCHANGED shutdownPending

WriteFails(bytes) ==
    /\ bytes # <<>>
    /\ IF peer = "connected"
       THEN /\ ~shutdownPending /\ shutdownPending' = TRUE
            /\ \E n \in {0, Len(bytes) \div 2} : Written(SubSeq(bytes, 1, n))
       ELSE peer = "reset" /\ UNCHANGED <<reply, shutdownPending>>

-----------------------------------------------------------------------------
(* FCGX_Accept_r and what it calls *)

\* OS_Accept: SIGUSR1 and SIGTERM make it fail, and the caller exits.
Accepts ==
    /\ pc = "accept" /\ ~req.open /\ ~shutdownPending /\ peer # "none"
    /\ req' = [req EXCEPT !.open = TRUE]
    /\ UNCHANGED <<peerVars, reply, pc, readVars, writeVars, env, backend, shutdownPending>>

AcceptFails ==
    /\ pc = "accept" /\ ~req.open /\ shutdownPending
    /\ pc' = "exit"
    /\ UNCHANGED <<peerVars, reply, readVars, req, writeVars, env, backend, shutdownPending>>

\* A signal that interrupts no read and no write shows at the next accept.
Signal ==
    /\ ~shutdownPending /\ pc = "accept"
    /\ shutdownPending' = TRUE
    /\ UNCHANGED <<peerVars, reply, pc, readVars, req, writeVars, env, backend>>

\* A connection is open: FillBuffProc of a new reader without a type.
BeginsRequest ==
    /\ pc = "accept" /\ req.open
    /\ req' = [req EXCEPT !.isBeginProcessed = FALSE]
    /\ in' = NewReader("none", InBuff) /\ stack' = <<"begun">> /\ pc' = "fill"
    /\ UNCHANGED <<peerVars, reply, half, writeVars, env, backend, shutdownPending>>

\* OS_IpcClose: what the peer sent and will send is lost.
ConnectionCloses ==
    /\ req' = [req EXCEPT !.open = FALSE]
    /\ peer' = "none" /\ wire' = <<>> /\ reply' = <<>> /\ put' = NothingPut /\ waiting' = FALSE
    /\ UNCHANGED <<asked, clean, sent>>

\* TryAgain: close the connection and wait for the next.
TryAgain ==
    /\ ConnectionCloses
    /\ in' = Reader("none") /\ env' = <<>> /\ half' = <<>>
    /\ pc' = "accept"
    /\ UNCHANGED <<stack, writeVars, want, got, shutdownPending>>

\* Faulty variant: any role is served.
BegunAnyRole ==
    /\ pc = "begun" /\ req.isBeginProcessed
    /\ in' = SetReaderType(in, "PARAMS") /\ env' = <<>> /\ half' = <<>> /\ pc' = "params"
    /\ UNCHANGED <<peerVars, reply, stack, req, writeVars, backend, shutdownPending>>

\* FillBuffProc returned without a request, or with a role it does not know.
Begun ==
    /\ pc = "begun"
    /\ IF req.isBeginProcessed /\ req.role \in {"RESPONDER", "AUTHORIZER", "FILTER"}
       THEN /\ in' = SetReaderType(in, "PARAMS")
            /\ env' = <<>> /\ half' = <<>> /\ pc' = "params"
            /\ UNCHANGED <<peerVars, reply, stack, req, writeVars, backend, shutdownPending>>
       ELSE TryAgain

\* ReadParams: a pair is complete, or the stream has ended.  At the boundary
\* of two pairs any end is a success, the one an error caused included.
ParamsTakes ==
    /\ pc = "params" /\ in.avail > 0
    /\ LET bytes == half \o Available(in)
           pairs == Len(bytes) \div 2
       IN  /\ env' = env \o [i \in 1 .. pairs |-> bytes[2 * i - 1][2]]
           /\ half' = SubSeq(bytes, 2 * pairs + 1, Len(bytes))
    /\ in' = Taken(in, in.avail)
    /\ UNCHANGED <<peerVars, reply, pc, stack, req, writeVars, backend, shutdownPending>>

ParamsFills ==
    /\ pc = "params" /\ in.avail = 0 /\ ~in.isClosed
    /\ pc' = "fill" /\ stack' = <<"params">>
    /\ UNCHANGED <<peerVars, reply, in, half, req, writeVars, env, backend, shutdownPending>>

ParamsEnd ==
    /\ pc = "params" /\ in.avail = 0 /\ in.isClosed
    /\ IF half = <<>>
       THEN /\ in' = SetReaderType(in, "STDIN")
            /\ out' = NewWriter("STDOUT", OutBuff) /\ err' = NewWriter("STDERR", ErrBuff)
            /\ req' = [req EXCEPT !.nWriters = 2]
            /\ want' = 0 /\ got' = <<>> /\ put' = NothingPut
            /\ pc' = "app"
            /\ UNCHANGED <<peerVars, reply, stack, half, job, env, shutdownPending>>
       ELSE TryAgain

-----------------------------------------------------------------------------
(* FillBuffProc and ProcessHeader *)

Calls(return) == pc' = "fill" /\ stack' = Append(stack, return)

FillReturns(s) ==
    /\ in' = s
    /\ pc' = stack[Len(stack)] /\ stack' = SubSeq(stack, 1, Len(stack) - 1)

Filling == pc = "fill" /\ in.buf # <<>>

\* The call ends with an error, and forgets a header it had a part of.
FillError(e) == FillReturns(SetError([in EXCEPT !.header = <<>>], e))

\* OS_Read returned 0 or an error.
FillFails ==
    /\ pc = "fill" /\ in.buf = <<>> /\ wire = <<>>
    /\ \/ peer = "closed" /\ FillError("PROTOCOL_ERROR")
       \/ peer = "reset" /\ FillError("OS")
    /\ UNCHANGED <<peerVars, reply, half, req, writeVars, env, backend, shutdownPending>>

\* A signal interrupts a read that waits.
ReadInterrupted ==
    /\ pc = "fill" /\ in.buf = <<>> /\ wire = <<>> /\ peer = "connected"
    /\ ~shutdownPending /\ shutdownPending' = TRUE
    /\ FillError("OS")
    /\ UNCHANGED <<peerVars, reply, half, req, writeVars, env, backend>>

FillDelivers ==
    /\ Filling /\ Delivers(in)
    /\ FillReturns(Delivered(in))
    /\ UNCHANGED <<peerVars, reply, half, req, writeVars, env, backend, shutdownPending>>

\* The buffer ends before the record does, or before the next header does.
FillContinues ==
    /\ Filling /\ ~Delivers(in)
    /\ LET skipped == RecordSkipped(in)
       IN  IF RecordIsOver(skipped)
           THEN /\ ~in.eorStop
                /\ Len(HeaderCollected(skipped).header) < HeaderLen
                /\ in' = HeaderCollected(skipped)
           ELSE in' = skipped
    /\ UNCHANGED <<peerVars, reply, pc, stack, half, req, writeVars, env, backend, shutdownPending>>

\* The record ProcessHeader reads is over: EOF for the nested call.
FillEnds ==
    /\ Filling /\ ~Delivers(in) /\ in.eorStop /\ RecordIsOver(RecordSkipped(in))
    /\ FillReturns([RecordSkipped(in) EXCEPT !.avail = 0, !.isClosed = TRUE])
    /\ UNCHANGED <<peerVars, reply, half, req, writeVars, env, backend, shutdownPending>>

\* ProcessHeader.  s is the stream behind the header h.
Known(h, s) == [s EXCEPT !.contentLen = h.contentLen, !.paddingLen = h.paddingLen]

Continues(s) == in' = s /\ UNCHANGED <<pc, stack>>

ProcessBeginRecord(h, s) ==
    IF h.id = 0 \/ h.contentLen # HeaderLen
    THEN /\ FillReturns(SetError(s, "PROTOCOL_ERROR"))
         /\ UNCHANGED <<reply, half, req, shutdownPending>>
    ELSE IF req.isBeginProcessed
    THEN LET refusal == EndRequest(h.id, 0, "CANT_MPX_CONN")
         IN  /\ \/ WriteSucceeds(refusal) /\ Continues([s EXCEPT !.skip = TRUE])
                \/ WriteFails(refusal) /\ FillReturns(SetError(s, "OS"))
             /\ UNCHANGED <<half, req>>
    ELSE /\ req' = [req EXCEPT !.requestId = h.id]
         /\ half' = <<>> /\ in' = [s EXCEPT !.eorStop = TRUE]
         /\ Calls("body")
         /\ UNCHANGED <<reply, shutdownPending>>

ProcessManagementRecord(h, s) ==
    IF h.type = "GET_VALUES"
    THEN /\ half' = <<>> /\ in' = [s EXCEPT !.eorStop = TRUE]
         /\ Calls("values")
         /\ UNCHANGED <<reply, req, shutdownPending>>
    ELSE LET answer == Record("UNKNOWN_TYPE", 0, MakeUnknownTypeBody(h.type), 0)
         IN  /\ \/ WriteSucceeds(answer) /\ Continues(s)
                \/ WriteFails(answer) /\ FillReturns(SetError(s, "OS"))
             /\ UNCHANGED <<half, req>>

ProcessHeader(h, s) ==
    IF h.version # 1
    THEN /\ FillReturns(SetError(s, "UNSUPPORTED_VERSION"))
         /\ UNCHANGED <<reply, half, req, shutdownPending>>
    ELSE IF h.type = "BEGIN_REQUEST" THEN ProcessBeginRecord(h, Known(h, s))
    ELSE IF h.id = 0 THEN ProcessManagementRecord(h, Known(h, s))
    ELSE /\ IF h.id # req.requestId
            THEN Continues([Known(h, s) EXCEPT !.skip = TRUE])
            ELSE IF h.type # s.type
            THEN FillReturns(SetError(Known(h, s), "PROTOCOL_ERROR"))
            ELSE IF h.contentLen = 0
            THEN FillReturns([Known(h, s) EXCEPT !.avail = 0, !.isClosed = TRUE])
            ELSE Continues(Known(h, s))
         /\ UNCHANGED <<reply, half, req, shutdownPending>>

FillHeader ==
    /\ Filling /\ ~Delivers(in) /\ ~in.eorStop /\ RecordIsOver(RecordSkipped(in))
    /\ LET s == HeaderCollected(RecordSkipped(in))
       IN  /\ Len(s.header) = HeaderLen
           /\ \E h \in HeadersOf(s.header, Misread) :
                ProcessHeader(h, [s EXCEPT !.header = <<>>, !.avail = 0])
    /\ UNCHANGED <<peerVars, writeVars, env, backend>>

\* FCGX_GetStr in ProcessBeginRecord: the body arrives whole or in pieces.
Body(bytes) ==
    [role |-> IF bytes[1][1] = "data" THEN bytes[1][2] ELSE "none",
     keep |-> bytes[2] = <<"data", "keep">>]

\* ProcessHeader returns to the FillBuffProc that called it.
Back(s) == [s EXCEPT !.eorStop = FALSE, !.isClosed = FALSE]

BodyReads ==
    /\ pc = "body"
    /\ LET n     == Smaller(HeaderLen - Len(half), in.avail)
           bytes == half \o SubSeq(in.buf, 1, n)
           s     == Taken(in, n)
       IN  IF Len(bytes) = HeaderLen
           THEN /\ req' = [req EXCEPT !.role = Body(bytes).role,
                                      !.keepConnection = Body(bytes).keep,
                                      !.isBeginProcessed = TRUE]
                /\ half' = <<>> /\ FillReturns(Back(s))
           ELSE /\ IF s.isClosed
                   THEN FillReturns(SetError(Back(s), "PROTOCOL_ERROR"))
                   ELSE in' = s /\ Calls("body")
                /\ half' = bytes /\ UNCHANGED req
    /\ UNCHANGED <<peerVars, reply, writeVars, env, backend, shutdownPending>>

\* ReadParams in ProcessManagementRecord, then the answer for the names it
\* knows.  half holds the pairs asked for.
KnownName == {"MAX_CONNS", "MAX_REQS", "MPXS_CONNS"}

ValueOf(name) == IF name = "MPXS_CONNS" THEN "0" ELSE "1"

Values(bytes) ==
    LET names == SelectSeq([i \in 1 .. Len(bytes) \div 2 |-> bytes[2 * i - 1][2]],
                           LAMBDA name : name \in KnownName)
    IN  [i \in 1 .. Len(names) |-> <<names[i], ValueOf(names[i])>>]

ValuesRead ==
    /\ pc = "values"
    /\ LET bytes == half \o Available(in)
           s     == Taken(in, in.avail)
           value == Values(bytes)
           pad   == AlignInt8(Len(value)) - Len(value)
           answer == Record("GET_VALUES_RESULT", 0, value, pad)
       IN  IF ~s.isClosed
           THEN /\ half' = bytes /\ in' = s /\ Calls("values")
                /\ UNCHANGED <<reply, shutdownPending>>
           ELSE IF s.FCGI_errno # NoError \/ Len(bytes) % 2 = 1 \/ s.contentLen # 0
           THEN /\ half' = <<>> /\ FillReturns(SetError(Back(s), "PROTOCOL_ERROR"))
                /\ UNCHANGED <<reply, shutdownPending>>
           ELSE /\ half' = <<>>
                /\ \/ /\ WriteSucceeds(answer)
                      /\ in' = Back(s) /\ pc' = "fill" /\ UNCHANGED stack
                   \/ WriteFails(answer) /\ FillReturns(SetError(Back(s), "OS"))
    /\ UNCHANGED <<peerVars, req, writeVars, env, backend>>

-----------------------------------------------------------------------------
(* The backend's calls: FCGX_GetStr, FCGX_GetChar, FCGX_UnGetChar,          *)
(* FCGX_StartFilterData, FCGX_PutStr, FCGX_FFlush, FCGX_FClose,             *)
(* FCGX_SetExitStatus                                                       *)

\* Bound: the backend reads before it writes, and writes nothing when it stops
\* in the middle of its input.  Its calls on the input and on the output
\* commute.
ReadsYet == pc = "app" /\ put = NothingPut /\ req.nWriters = 2

MayWrite == pc = "app" /\ (got = <<>> \/ in.isClosed)

\* Bound: one byte and then, when the input has been read, a long write to the
\* same stream or to the other.  Only then is stderr used.
MayPut(s, n) ==
    /\ put["out"] + put["err"] <= IF n = 1 THEN 0 ELSE 1
    /\ s = "err" \/ n > 1 => got # <<>> /\ in.isClosed

\* FCGX_GetStr; FCGX_GetChar is the call for one byte.  A closed stream
\* gives nothing.
AppGets(n) ==
    /\ ReadsYet /\ ~in.isClosed
    /\ want' = n /\ pc' = "get"
    /\ UNCHANGED <<peerVars, reply, readVars, req, writeVars, env, got, put, shutdownPending>>

GetReturns == pc' = "app" /\ want' = 0 /\ UNCHANGED stack

GetMoves ==
    /\ pc = "get"
    /\ LET n == Smaller(want, in.avail)
           s == Taken(in, n)
       IN  /\ got' = got \o SubSeq(in.buf, 1, n)
           /\ IF n = want \/ in.isClosed
              THEN in' = [s EXCEPT !.back = @ \/ n > 0] /\ GetReturns
              ELSE /\ in' = [s EXCEPT !.back = FALSE] /\ want' = want - n
                   /\ Calls("get")
    /\ UNCHANGED <<peerVars, reply, half, req, writeVars, env, put, shutdownPending>>

AppUnGets ==
    /\ ReadsYet /\ got # <<>> /\ CanUnGet(in)
    /\ in' = FCGX_UnGetChar(in, got[Len(got)])
    /\ got' = SubSeq(got, 1, Len(got) - 1)
    /\ UNCHANGED <<peerVars, reply, pc, stack, half, req, writeVars, env, want, put,
                   shutdownPending>>

\* FCGX_StartFilterData is only legal at the end of the stdin of a FILTER.
AppStartsFilterData ==
    /\ ReadsYet
    /\ IF req.role = "FILTER" /\ in.isClosed /\ in.type = "STDIN"
       THEN in' = SetReaderType(in, "DATA") /\ got' = <<>>
       ELSE in' = SetError(in, "CALL_SEQ_ERROR") /\ UNCHANGED got
    /\ UNCHANGED <<peerVars, reply, pc, stack, half, req, writeVars, env, want, put,
                   shutdownPending>>

\* A write failed: the padding, and what was not written, stay in the buffer.
Failed(w) ==
    SetError([(IF w.rawWrite THEN w ELSE Encapsulate(w)) EXCEPT !.isAnythingWritten = TRUE], "OS")

\* FCGX_PutStr of n bytes; FCGX_PutChar is the call for one.  The bytes are
\* numbered, so that order and loss show.
AppPuts(s, n) ==
    /\ MayWrite /\ MayPut(s, n) /\ ~Stream(s).wasFCloseCalled
    /\ job' = [stream |-> s, closing |-> FALSE, then |-> "app",
               todo |-> Data([i \in 1 .. n |-> put[s] + i])]
    /\ put' = [put EXCEPT ![s] = @ + n]
    /\ pc' = "put"
    /\ UNCHANGED <<peerVars, reply, readVars, req, out, err, env, want, got,
                   shutdownPending>>

\* FCGX_FClose of a writer, from the backend or from FCGX_Finish_r.
Closing(s, then) ==
    IF Stream(s).wasFCloseCalled
    THEN pc' = then /\ UNCHANGED <<req, out, err, job>>
    ELSE LET w     == Stream(s)
             whole == [w EXCEPT !.buf = Contents(w, req.requestId), !.rawWrite = TRUE]
         IN  /\ Becomes(s, whole)
             /\ job' = [stream |-> s, closing |-> TRUE, then |-> then,
                        todo |-> CloseRecords(whole, req.requestId, req.appStatus, req.nWriters)]
             /\ req' = [req EXCEPT !.nWriters = @ - 1]
             /\ pc' = "put"

\* Bound: the backend itself closes only stdout.  FCGX_Finish_r closes stderr
\* first, so the writers are closed in both orders.
AppCloses ==
    /\ MayWrite /\ ~out.wasFCloseCalled
    /\ Closing("out", "app")
    /\ UNCHANGED <<peerVars, reply, readVars, env, backend, shutdownPending>>

AppFlushes(s) ==
    /\ MayWrite /\ ~Stream(s).isClosed /\ Stream(s).buf # <<>>
    /\ \/ /\ WriteSucceeds(Contents(Stream(s), req.requestId))
          /\ Becomes(s, Emptied(Stream(s)))
       \/ /\ WriteFails(Contents(Stream(s), req.requestId))
          /\ Becomes(s, Failed(Stream(s)))
    /\ UNCHANGED <<peerVars, pc, readVars, req, job, env, backend>>

\* The exit status is a field of the request, which the next one inherits.
\* Bound: only a FILTER sets one.
AppSetsExitStatus ==
    /\ ReadsYet /\ req.role = "FILTER"
    /\ req' = [req EXCEPT !.appStatus = 1]
    /\ UNCHANGED <<peerVars, reply, pc, readVars, writeVars, env, backend, shutdownPending>>

-----------------------------------------------------------------------------
(* FCGX_PutStr, EmptyBuffProc and the end of FCGX_FClose *)

\* FCGX_PutStr returns, or FCGX_FClose goes on to its last write.
PutReturns ==
    IF job.closing THEN job' = [job EXCEPT !.todo = <<>>] /\ UNCHANGED pc
    ELSE job' = NoJob /\ pc' = job.then

\* A round of the loop: fill the buffer; return when all is in it or the
\* stream has failed before; empty it otherwise.
PutMoves ==
    /\ pc = "put" /\ job.todo # <<>>
    /\ LET n    == Smaller(Len(job.todo), Room(Current))
           w    == Put(Current, SubSeq(job.todo, 1, n))
           rest == SubSeq(job.todo, n + 1, Len(job.todo))
       IN  IF rest = <<>> \/ w.isClosed
           THEN Becomes(job.stream, w) /\ PutReturns /\ UNCHANGED <<reply, shutdownPending>>
           ELSE /\ \/ /\ WriteSucceeds(Contents(w, req.requestId))
                      /\ Becomes(job.stream, Emptied(w))
                   \/ /\ WriteFails(Contents(w, req.requestId))
                      /\ Becomes(job.stream, Failed(w))
                /\ job' = [job EXCEPT !.todo = rest] /\ UNCHANGED pc
    /\ UNCHANGED <<peerVars, readVars, req, env, backend>>

CloseWrites ==
    /\ pc = "put" /\ job.todo = <<>> /\ job.closing
    /\ \/ WriteSucceeds(Current.buf) /\ Becomes(job.stream, FCGX_FClose(Emptied(Current)))
       \/ WriteFails(Current.buf) /\ Becomes(job.stream, FCGX_FClose(Failed(Current)))
    /\ pc' = job.then /\ job' = NoJob
    /\ UNCHANGED <<peerVars, readVars, req, env, backend>>

-----------------------------------------------------------------------------
(* FCGX_Finish_r: FCGX_FClose of err, then of out, then FCGX_Free *)

AppFinishes ==
    /\ pc = "app"
    /\ Closing("err", "closeOut")
    /\ UNCHANGED <<peerVars, reply, readVars, env, backend, shutdownPending>>

FinishClosesOut ==
    /\ pc = "closeOut"
    /\ Closing("out", "free")
    /\ UNCHANGED <<peerVars, reply, readVars, env, backend, shutdownPending>>

MustClose ==
    ~req.keepConnection \/ \E s \in {err, out, in} : s.FCGI_errno # NoError

FinishFrees ==
    /\ pc = "free"
    /\ IF MustClose
       THEN ConnectionCloses
       ELSE /\ clean' = (clean /\ wire \in {<<>>, Asked.records})
            /\ UNCHANGED <<peer, wire, asked, waiting, sent, reply, put, req>>
    /\ in' = Reader("none") /\ out' = NoStream /\ err' = NoStream /\ env' = <<>>
    /\ want' = 0 /\ got' = <<>>
    /\ pc' = "accept"
    /\ UNCHANGED <<stack, half, job, shutdownPending>>

-----------------------------------------------------------------------------
Init ==
    /\ peer = "none" /\ wire = <<>> /\ asked \in DOMAIN Script /\ waiting = FALSE /\ clean = TRUE
    /\ sent = 0 /\ reply = <<>>
    /\ pc = "accept" /\ stack = <<>> /\ half = <<>>
    /\ req = [open |-> FALSE, requestId |-> 0, role |-> "none", keepConnection |-> FALSE,
              isBeginProcessed |-> FALSE, appStatus |-> 0, nWriters |-> 0]
    /\ in = Reader("none") /\ out = NoStream /\ err = NoStream
    /\ env = <<>> /\ want = 0 /\ job = NoJob
    /\ got = <<>> /\ put = NothingPut
    /\ shutdownPending = FALSE

Web == WebConnects \/ (\E name \in DOMAIN Script : WebAsks(name)) \/ WebReceives \/ WebCloses

Backend ==
    \/ \E n \in GetSizes : AppGets(n)
    \/ AppUnGets \/ AppStartsFilterData
    \/ \E s \in {"out", "err"} : AppPuts(s, 1) \/ AppPuts(s, LongPut) \/ AppFlushes(s)
    \/ AppCloses
    \/ AppSetsExitStatus

\* The steps the library takes without anybody's help.
Library ==
    \/ Accepts \/ AcceptFails \/ BeginsRequest \/ Begun
    \/ ParamsTakes \/ ParamsFills \/ ParamsEnd
    \/ OS_Read \/ FillFails \/ FillDelivers \/ FillContinues \/ FillEnds \/ FillHeader
    \/ BodyReads \/ ValuesRead \/ GetMoves
    \/ PutMoves \/ CloseWrites
    \/ FinishClosesOut \/ FinishFrees

Next == Web \/ Backend \/ Library \/ AppFinishes \/ Signal \/ ReadInterrupted

Spec == Init /\ [][Next]_vars

\* The process runs, the network delivers answers and every backend returns.
\* The web server owes nothing but to read what it asked for, and no signal is
\* promised to a read that waits.
FairSpec ==
    /\ Spec
    /\ WF_vars(Library) /\ WF_vars(WebReceives) /\ SF_vars(AppFinishes)

-----------------------------------------------------------------------------
(* Properties *)

IsPrefixOf(s, t) == Len(s) <= Len(t) /\ SubSeq(t, 1, Len(s)) = s

\* The backend is running and its request has not been ended yet.
Serving == pc = "app" /\ req.nWriters > 0 /\ clean

Failing == \E s \in {in, out, err} : s.FCGI_errno # NoError

\* The backend runs with the environment of the request it serves.  An
\* environment cut short by a failed read is never taken for a whole one:
\* the reader has recorded the error, and FCGX_Finish_r will close.
EnvironmentIsWhole ==
    Serving => /\ IsPrefixOf(env, Asked.env)
               /\ in.FCGI_errno = NoError => env = Asked.env

\* The backend reads the stdin of its own request in order, from the first
\* byte, however its records, their padding and the reads cut it; end of file
\* without an error means that it has read all of it.
StdinIsWhole ==
    Serving /\ in.type = "STDIN" /\ in.FCGI_errno = NoError =>
        /\ IsPrefixOf(got, Data(Asked.stdin))
        /\ in.isClosed => got = Data(Asked.stdin)

\* What the backend is given is its request's environment and body, whole or
\* with an error it can see (FCGX_Accept_r, FillBuffProc).  This is so as long
\* as the requests before it on the connection were read to their last byte
\* (clean: FCGX_Finish_r drops what its reader had buffered and leaves the rest
\* to be taken for the next request), and for a web server that sends what
\* nginx sends: no padding behind a BEGIN_REQUEST or the end of a stream, which
\* SetReaderType forgets to skip, and no empty record of another request.
InputIsWhole == EnvironmentIsWhole /\ StdinIsWhole

\* The records of a sequence of bytes, by the position of their first byte.
Heads(s) == {p \in 1 .. Len(s) : s[p][1] = "header" /\ s[p][3] = 1}

EndOf(s, p) == p + HeaderLen + s[p][2].contentLen + s[p][2].paddingLen

Framed(s) ==
    /\ s # <<>> => 1 \in Heads(s)
    /\ \A p \in Heads(s) :
         /\ EndOf(s, p) = Len(s) + 1 \/ EndOf(s, p) \in Heads(s)
         /\ Heads(s) \cap (p + 1) .. (EndOf(s, p) - 1) = {}

\* The contents a web server takes from the records of one type.
Content(s, type) ==
    LET In(q) == \E p \in Heads(s) : /\ s[p][2].type = type
                                     /\ q \in p + HeaderLen .. p + HeaderLen + s[p][2].contentLen - 1
        at    == SelectSeq([q \in 1 .. Len(s) |-> q], In)
    IN  [i \in 1 .. Len(at) |-> s[at[i]]]

HeadsOf(s, type) == {p \in Heads(s) : s[p][2].type = type /\ s[p][2].id = req.requestId}

\* What is written for a request that meets no error is a sequence of whole
\* records: the bytes of the backend, each stream's in its order and nothing
\* else, one end for stdout, and one END_REQUEST, which is the last record of
\* the request.  Nothing is written when no request is pending: the web server
\* would take it for the beginning of the next answer.  Whatever fails, the
\* request is not ended twice.
ReplyIsWhole ==
    /\ Cardinality(HeadsOf(reply, "END_REQUEST")) <= 1
    /\ clean /\ ~Failing /\ peer = "connected" =>
        /\ ~waiting => reply = <<>>
        /\ waiting /\ Answered =>
             /\ Framed(reply)
             /\ Content(reply, "STDOUT") = Data([i \in 1 .. put["out"] |-> i])
             /\ Content(reply, "STDERR") = Data([i \in 1 .. put["err"] |-> i])
             /\ Cardinality({p \in HeadsOf(reply, "STDOUT") : reply[p][2].contentLen = 0}) = 1
             /\ \E p \in HeadsOf(reply, "END_REQUEST") :
                  /\ HeadsOf(reply, "END_REQUEST") = {p}
                  /\ \A q \in Heads(reply) : reply[q][2].id = req.requestId => q <= p

\* A request that was sent completely is answered, or the connection ends,
\* without a signal's help.  The first request of a connection is one, and so is
\* every other that comes after requests that were read to their last byte:
\* behind a body that was left unread the next request is out of step with its
\* records (FCGX_Free).
RequestIsSettled ==
    waiting /\ clean ~> ~waiting \/ ~clean \/ pc = "exit"
==============================================================================
