----------------------------- MODULE FcgxStream -----------------------------
(***************************************************************************)
(* The streams of libfcgi (fastcgi/fastcgi_lib/fcgiapp.cpp): the FastCGI   *)
(* records a connection carries, the reader that takes them apart and the  *)
(* writers that put them together.  A byte is a tuple that says what it    *)
(* is; lengths are scaled down, a header and the body of a BEGIN_REQUEST   *)
(* or END_REQUEST being HeaderLen bytes and the alignment Alignment.       *)
(***************************************************************************)
EXTENDS Naturals, Sequences, FiniteSets

CONSTANTS HeaderLen,    \* sizeof(FCGI_Header), also the length of the bodies
          Alignment,    \* 8, the multiple AlignInt8 rounds up to
          MinBuff,      \* 32, the smallest buffer
          FCGI_MAX_LENGTH

ASSUME SizeAssumption ==
    /\ HeaderLen \in Nat \ {0} /\ Alignment \in Nat \ {0}
    /\ MinBuff \in Nat /\ FCGI_MAX_LENGTH \in Nat

NoError == "none"

\* Bytes of a record on the wire.  A header byte knows its header, so that
\* HeaderLen bytes are a header only when they are all the bytes of one.
HeaderBytes(h) == [i \in 1 .. HeaderLen |-> <<"header", h, i>>]
Data(s)        == [i \in 1 .. Len(s) |-> <<"data", s[i]>>]
Padding(n)     == [i \in 1 .. n |-> <<"padding", 0>>]

MakeHeader(type, id, contentLen, paddingLen) ==
    [version |-> 1, type |-> type, id |-> id, contentLen |-> contentLen, paddingLen |-> paddingLen]

\* A record: content is a sequence of values, one for each byte.
Record(type, id, content, pad) ==
    HeaderBytes(MakeHeader(type, id, Len(content), pad)) \o Data(content) \o Padding(pad)

Smaller(a, b) == IF a < b THEN a ELSE b

AlignInt8(n) == ((n + Alignment - 1) \div Alignment) * Alignment

MakeEndRequestBody(appStatus, protocolStatus) ==
    [i \in 1 .. HeaderLen |-> IF i = 1 THEN appStatus ELSE protocolStatus]

EndRequest(id, appStatus, protocolStatus) ==
    Record("END_REQUEST", id, MakeEndRequestBody(appStatus, protocolStatus), 0)

MakeUnknownTypeBody(type) == [i \in 1 .. HeaderLen |-> IF i = 1 THEN type ELSE 0]

-----------------------------------------------------------------------------
(* Streams.  buf is what lies between rdNext and buffStop (reader) or      *)
(* between the reserved header and wrNext (writer, while rawWrite is       *)
(* FALSE); avail = stop - rdNext; back says that rdNext is behind          *)
(* stopUnget, so that a byte can be put back.                              *)

Reader(type) ==
    [type |-> type, buf |-> <<>>, bufflen |-> 0, avail |-> 0, back |-> FALSE, eorStop |-> FALSE, skip |-> FALSE,
     contentLen |-> 0, paddingLen |-> 0, header |-> <<>>, isClosed |-> FALSE,
     wasFCloseCalled |-> FALSE, FCGI_errno |-> NoError]

Writer(type, bufflen) ==
    [type |-> type, buf |-> <<>>, bufflen |-> bufflen, rawWrite |-> FALSE,
     isAnythingWritten |-> FALSE, isClosed |-> FALSE, wasFCloseCalled |-> FALSE,
     FCGI_errno |-> NoError]

\* NewStream gives the stream a buffer of its own, of a size within limits.
\* Malloc's memory is aligned already, so that none of it is given away.
NewStream(bufflen) ==
    AlignInt8(Smaller(IF bufflen < MinBuff THEN MinBuff ELSE bufflen, FCGI_MAX_LENGTH + 1))

NewReader(type, bufflen) == [Reader(type) EXCEPT !.bufflen = NewStream(bufflen)]

NewWriter(type, bufflen) == Writer(type, NewStream(bufflen))

\* Faulty variant: an error only closes the stream.
SetErrorCloses(s, e) == [s EXCEPT !.isClosed = TRUE]

\* The first error of a stream stays; every error closes it.
SetError(s, e) ==
    [s EXCEPT !.FCGI_errno = IF s.FCGI_errno = NoError THEN e ELSE @, !.isClosed = TRUE]

SetReaderType(s, type) ==
    [s EXCEPT !.type = type, !.eorStop = FALSE, !.skip = FALSE, !.contentLen = 0,
              !.paddingLen = 0, !.avail = 0, !.isClosed = FALSE]

-----------------------------------------------------------------------------
(* Reading *)

\* The bytes a call may take now, and the stream after n of them.
Available(s) == SubSeq(s.buf, 1, s.avail)

Taken(s, n) == [s EXCEPT !.buf = SubSeq(@, n + 1, Len(@)), !.avail = @ - n]

\* FCGX_UnGetChar puts back a byte that was read from the current fragment.
FCGX_UnGetChar(s, c) == [s EXCEPT !.buf = <<c>> \o @, !.avail = @ + 1, !.back = FALSE]

CanUnGet(s) == ~s.isClosed /\ s.back

\* A round of FillBuffProc on a buffer that is not empty: it delivers content;
\* or it skips what is left of the record and then collects the next header.
Delivers(s) == s.contentLen > 0 /\ ~s.skip

Delivered(s) ==
    LET count == Smaller(s.contentLen, Len(s.buf))
    IN  [s EXCEPT !.contentLen = @ - count, !.avail = count]

ContentSkipped(s) ==
    LET count == Smaller(s.contentLen, Len(s.buf))
    IN  [s EXCEPT !.contentLen = @ - count, !.buf = SubSeq(@, count + 1, Len(@)),
                  !.skip = IF s.contentLen > 0 THEN s.contentLen > count ELSE @]

PaddingSkipped(s) ==
    LET count == Smaller(s.paddingLen, Len(s.buf))
    IN  [s EXCEPT !.paddingLen = @ - count, !.buf = SubSeq(@, count + 1, Len(@))]

RecordSkipped(s) ==
    LET skipped == ContentSkipped(s)
    IN  IF skipped.contentLen = 0 THEN PaddingSkipped(skipped) ELSE skipped

RecordIsOver(s) == s.contentLen = 0 /\ s.paddingLen = 0

\* The bytes of a header that has come in part are local to the call.
HeaderCollected(s) ==
    LET count == Smaller(HeaderLen - Len(s.header), Len(s.buf))
    IN  [s EXCEPT !.header = @ \o SubSeq(s.buf, 1, count),
                  !.buf = SubSeq(@, count + 1, Len(@))]

\* The headers HeaderLen bytes can be: bytes that are not one header are
\* taken for any of the headers in misread.
HeadersOf(bytes, misread) ==
    LET aligned == {h \in {b[2] : b \in {bytes[i] : i \in {j \in DOMAIN bytes : bytes[j][1] = "header"}}} :
                      bytes = HeaderBytes(h)}
    IN  IF aligned # {} THEN aligned ELSE misread

-----------------------------------------------------------------------------
(* Writing *)

Used(s) == Len(s.buf) + (IF s.rawWrite THEN 0 ELSE HeaderLen)

Room(s) == IF s.wasFCloseCalled THEN 0 ELSE s.bufflen - Used(s)

\* One round of FCGX_PutStr: as much as the buffer has room for.
Put(s, bytes) == [s EXCEPT !.buf = @ \o bytes]

\* EmptyBuffProc pads the content of a stream record to the alignment.  The
\* padding stays in the buffer when the write that follows fails.
Encapsulate(s) ==
    [s EXCEPT !.buf = @ \o Padding(AlignInt8(Len(@)) - Len(@))]

\* What the buffer holds for write_it_all.
Contents(s, id) ==
    IF s.rawWrite THEN s.buf
    ELSE IF s.buf = <<>> THEN <<>>
    ELSE LET e == Encapsulate(s).buf
         IN  HeaderBytes(MakeHeader(s.type, id, Len(s.buf), Len(e) - Len(s.buf))) \o e

Emptied(s) == [s EXCEPT !.buf = <<>>, !.isAnythingWritten = TRUE]

\* WriteCloseRecords: the EOF of the stream, which a stderr that was never
\* used does not need, and END_REQUEST when this is the last writer.
Silent(s) == s.type = "STDERR" /\ s.buf = <<>> /\ ~s.isAnythingWritten

\* Faulty variant: every writer ends the request.
CloseRecordsAlways(s, id, appStatus, nWriters) ==
    (IF Silent(s) THEN <<>> ELSE Record(s.type, id, <<>>, 0))
        \o EndRequest(id, appStatus, "REQUEST_COMPLETE")

CloseRecords(s, id, appStatus, nWriters) ==
    (IF Silent(s) THEN <<>> ELSE Record(s.type, id, <<>>, 0))
        \o (IF nWriters = 1 THEN EndRequest(id, appStatus, "REQUEST_COMPLETE") ELSE <<>>)

\* FCGX_FClose leaves the stream without room.
FCGX_FClose(s) == [s EXCEPT !.wasFCloseCalled = TRUE, !.isClosed = TRUE]
==============================================================================
