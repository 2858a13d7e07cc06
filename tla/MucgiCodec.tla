----------------------------- MODULE MucgiCodec -----------------------------
(***************************************************************************)
(* The FastCgiCodec of mucgi (mucgi/fastcgi.cpp), one per TcpConnection,   *)
(* on the bytes of the wire.  The three muduo buffers it reads are         *)
(* sequences of bytes consumed from the front.                             *)
(***************************************************************************)
EXTENDS Integers, Sequences, SequencesExt, TLC

CONSTANTS FCGI_MAX_LENGTH,   \* 0xffff, the largest content of a record
          EmptyResult        \* bytes of the page sent for an empty result

kRecordHeader     == 8
kFcgiBeginRequest == 1
kFcgiEndRequest   == 3
kFcgiParams       == 4
kFcgiStdin        == 5
kFcgiStdout       == 6
kFcgiResponder    == 1
kFcgiKeepConn     == 1

readInt16(s, i) == s[i] * 256 + s[i + 1]

hostToNetwork16(n) == <<(n \div 256) % 256, n % 256>>

RecordHeader(type, length, padding) ==
    <<1, type>> \o hostToNetwork16(1) \o hostToNetwork16(length) \o <<padding, 0>>

Zeros(n) == [i \in 1 .. n |-> 0]

-----------------------------------------------------------------------------
(* Requests *)

NewCodec == [gotRequest |-> FALSE, keepConn |-> FALSE, stdin |-> <<>>,
             paramsStream |-> <<>>, params |-> <<>>]

\* retrieve(n) of a muduo buffer.
Retrieve(s, n) == SubSeq(s, n + 1, Len(s))

Minus1 == -1         \* uint32_t(-1), which no encoded length is

\* The length at the front of the stream, which is consumed with it.
readLen(s) ==
    CASE Len(s) = 0                 -> [len |-> Minus1, rest |-> s]
      [] Len(s) > 0 /\ s[1] < 128   -> [len |-> s[1], rest |-> Retrieve(s, 1)]
      [] Len(s) \in 1 .. 3 /\ s[1] >= 128 -> [len |-> Minus1, rest |-> s]
      [] Len(s) >= 4 /\ s[1] >= 128 ->
           [len  |-> (((s[1] % 128) * 256 + s[2]) * 256 + s[3]) * 256 + s[4],
            rest |-> Retrieve(s, 4)]

\* params_[name] = value
Pair(params, name, value) == (name :> value) @@ params

\* Pairs are moved from paramsStream_ to params_ until one is incomplete; the
\* lengths read of that one are gone from the stream.
RECURSIVE parseAllParams(_)
parseAllParams(c) ==
    LET name  == readLen(c.paramsStream)
        value == readLen(name.rest)
        s     == value.rest
    IN  CASE c.paramsStream = <<>> -> c
          [] c.paramsStream # <<>> /\ name.len = Minus1 -> c
          [] name.len # Minus1 /\ value.len = Minus1 -> [c EXCEPT !.paramsStream = name.rest]
          [] name.len # Minus1 /\ value.len # Minus1 ->
               IF Len(s) >= name.len + value.len
               THEN parseAllParams([c EXCEPT
                        !.params = Pair(@, SubSeq(s, 1, name.len),
                                        SubSeq(s, name.len + 1, name.len + value.len)),
                        !.paramsStream = Retrieve(s, name.len + value.len)])
               ELSE [c EXCEPT !.paramsStream = s]

onParams(c, content) ==
    IF content # <<>> THEN [c EXCEPT !.paramsStream = @ \o content] ELSE parseAllParams(c)

onStdin(c, content) ==
    IF content # <<>> THEN [c EXCEPT !.stdin = @ \o content] ELSE [c EXCEPT !.gotRequest = TRUE]

onBeginRequest(c, content) ==
    IF Len(content) >= kRecordHeader /\ readInt16(content, 1) = kFcgiResponder
    THEN [c EXCEPT !.keepConn = content[3] = kFcgiKeepConn]
    ELSE c

Total(buf) == kRecordHeader + readInt16(buf, 5) + buf[7]

\* Every complete record of the buffer, whatever request it belongs to.
RECURSIVE parseRequest(_, _)
parseRequest(c, buf) ==
    IF Len(buf) < kRecordHeader \/ (Len(buf) >= kRecordHeader /\ Len(buf) < Total(buf))
    THEN [codec |-> c, buf |-> buf]
    ELSE LET content == SubSeq(buf, kRecordHeader + 1, kRecordHeader + readInt16(buf, 5))
             after   == CASE buf[2] = kFcgiBeginRequest -> onBeginRequest(c, content)
                          [] buf[2] = kFcgiParams       -> onParams(c, content)
                          [] buf[2] = kFcgiStdin        -> onStdin(c, content)
                          [] OTHER                      -> c
         IN  parseRequest(after, Retrieve(buf, Total(buf)))

\* Faulty variant: the parameters of a request stay for the next one.
ClearedButParams(c) == [NewCodec EXCEPT !.keepConn = c.keepConn, !.params = c.params]

\* What onMessage leaves of a codec whose request it handed to onRequest.
Cleared(c) == [NewCodec EXCEPT !.keepConn = c.keepConn]

-----------------------------------------------------------------------------
(* Responses *)

\* -n & 7
Padding(n) == (8 - (n % 8)) % 8

Stdout(out) == RecordHeader(kFcgiStdout, Len(out), Padding(Len(out))) \o out \o Zeros(Padding(Len(out)))

endStdout == RecordHeader(kFcgiStdout, 0, 0)

endRequest == RecordHeader(kFcgiEndRequest, kRecordHeader, 0) \o Zeros(kRecordHeader)

\* The bytes that carry a result; an empty one is replaced by a page.
respond(result) ==
    LET out  == IF result = <<>> THEN EmptyResult ELSE result
        numSubstrings == Len(out) \div FCGI_MAX_LENGTH
        part(i) == SubSeq(out, (i - 1) * FCGI_MAX_LENGTH + 1, i * FCGI_MAX_LENGTH)
    IN  (IF Len(out) <= FCGI_MAX_LENGTH THEN Stdout(out)
         ELSE FlattenSeq([i \in 1 .. numSubstrings |-> Stdout(part(i))])
              \o (IF Len(out) % FCGI_MAX_LENGTH = 0 THEN <<>>
                  ELSE Stdout(Retrieve(out, FCGI_MAX_LENGTH * numSubstrings))))
        \o endStdout \o endRequest
==============================================================================
