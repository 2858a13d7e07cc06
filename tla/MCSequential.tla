---------------------------- MODULE MCSequential -----------------------------
(***************************************************************************)
(* The sequential parts against what they promise, each on inputs that     *)
(* grow step by step.  A behaviour exercises one part.                     *)
(***************************************************************************)
EXTENDS MuduoBuffer, FiniteSets, TLC

LOCAL INSTANCE FiniteSetsExt
LOCAL INSTANCE SequencesExt

CONSTANTS HeaderLength, FCGI_MAX_CONTENT_LENGTH, EmptyLength,
          NameLengths, ValueLengths,   \* lengths of names and values tried
          MaxPairs, MaxResult,         \* bounds of parameters and results
          Chunks,                      \* sizes in which mucgi's bytes arrive
          Characters, MaxCharacters,   \* of form fields and cookies
          Widths, Precisions, Lengths, \* of formatted output
          MaxConversions, MaxParams,
          MaxCalls,                    \* on a FILE or streambuf
          Nodes, Descriptors,          \* of linked lists, of asynchronous I/O
          MaxOperations,
          FirstYear, LastYear,
          MaxTime                      \* bound of local times

Codec == INSTANCE FastCgiCodec WITH kRecordHeader <- HeaderLength, EmptyResult <- EmptyLength
Mucgi == INSTANCE MucgiCodec WITH FCGI_MAX_LENGTH <- FCGI_MAX_CONTENT_LENGTH,
                                  EmptyResult <- [i \in 1 .. EmptyLength |-> 7]
Forms == INSTANCE Cgicc
Text  == INSTANCE FcgxText WITH PRINTF_BUFFLEN <- 100
Stdio == INSTANCE FcgiStdio
Lists == INSTANCE LibcoList WITH NULL <- "NULL"
Env   == INSTANCE LibcoEnv WITH Main <- "main", NoValue <- 0
Aio   == INSTANCE FcgiAsyncIo WITH InitialSize <- 2
Dates == INSTANCE Calendar WITH kSecondsPerDay <- 48, SecondsPerHour <- 2

VARIABLES part,    \* what this behaviour is about
          input    \* what that part is given so far

-----------------------------------------------------------------------------
(* Inputs *)

\* Parameters whose bytes differ from pair to pair, and repeated names.
AddPair ==
    /\ Len(input) < MaxPairs
    /\ \/ \E n \in NameLengths, v \in ValueLengths :
            input' = Append(input, [name  |-> [i \in 1 .. n |-> 2 * Len(input)],
                                    value |-> [i \in 1 .. v |-> 2 * Len(input) + 1]])
       \/ \E i \in DOMAIN input : input' = Append(input, [input[i] EXCEPT !.value = <<255>>])

\* What a web server sends mucgi: [flags, pairs, stdin, padding].
Requests ==
    {[flags |-> f, pairs |-> p, stdin |-> s, padding |-> d] :
        f \in {0, 1}, s \in {<<>>, <<9, 5>>}, d \in {0, 3},
        p \in {<<>>, <<[name |-> <<4>>, value |-> <<5, 6>>], [name |-> <<4>>, value |-> <<7>>]>>}}

WireRecord(type, content, padding) ==
    Mucgi!RecordHeader(type, Len(content), padding) \o content \o Mucgi!Zeros(padding)

\* The parameters are cut in the middle of a pair.
Wire(r) ==
    LET s    == Codec!EncodeParams(r.pairs)
        half == Len(s) \div 2
    IN  WireRecord(Mucgi!kFcgiBeginRequest, <<0, 1, r.flags, 0, 0, 0, 0, 0>>, 0)
        \o (IF s = <<>> THEN <<>>
            ELSE WireRecord(Mucgi!kFcgiParams, SubSeq(s, 1, half), r.padding)
                 \o WireRecord(Mucgi!kFcgiParams, SubSeq(s, half + 1, Len(s)), 0))
        \o WireRecord(Mucgi!kFcgiParams, <<>>, 0)
        \o (IF r.stdin = <<>> THEN <<>> ELSE WireRecord(Mucgi!kFcgiStdin, r.stdin, r.padding))
        \o WireRecord(Mucgi!kFcgiStdin, <<>>, 0)

\* A request is sent when the one before it was answered and the connection is
\* kept; onMessage runs for each chunk.
Exchanges == {[sent |-> <<r>>, next |-> n, wire |-> Wire(r), buf |-> <<>>,
               codec |-> Mucgi!NewCodec, got |-> <<>>, shut |-> FALSE] :
                  r \in Requests, n \in {q \in Requests : q.padding = 3}}

Arrives ==
    \E n \in Chunks :
      LET bytes  == SubSeq(input.wire, 1, Min({n, Len(input.wire)}))
          parsed == Mucgi!parseRequest(input.codec, input.buf \o bytes)
          c      == parsed.codec
      IN  /\ input.wire # <<>>
          /\ input' = [input EXCEPT
               !.wire  = SubSeq(@, n + 1, Len(@)),
               !.buf   = parsed.buf,
               !.codec = IF c.gotRequest THEN Mucgi!Cleared(c) ELSE c,
               !.got   = IF c.gotRequest THEN Append(@, [params |-> c.params, stdin |-> c.stdin]) ELSE @,
               !.shut  = c.gotRequest /\ ~c.keepConn]

SendsNext ==
    /\ input.wire = <<>> /\ Len(input.sent) = 1 /\ Len(input.got) = 1 /\ ~input.shut
    /\ input' = [input EXCEPT !.sent = Append(@, input.next), !.wire = Wire(input.next)]

\* A form: fields of the body, then fields of the query string.
Total(fields) == MapThenSumSet(LAMBDA i : Len(fields[i].name) + Len(fields[i].value), DOMAIN fields)

GrowFields ==
    \/ /\ Len(input) < 2
       /\ \E posted \in BOOLEAN :
            /\ input # <<>> /\ ~input[Len(input)].posted => ~posted
            /\ input' = Append(input, [name |-> <<>>, value |-> <<>>, posted |-> posted])
    \/ /\ input # <<>> /\ Total(input) < MaxCharacters
       /\ \E c \in Characters :
            \/ input' = [input EXCEPT ![Len(input)].name = Append(@, c)]
            \/ input' = [input EXCEPT ![Len(input)].value = Append(@, c)]

\* A multipart body: entries and files whose values may hold line breaks and
\* the words of a header.
AddUpload ==
    /\ Len(input) < 2
    /\ \E v \in {<<>>, <<Forms!LF>>, <<Forms!CR, Forms!LF, Forms!CR, Forms!LF>>,
                 <<Forms!Dashes, Forms!NameIs, Forms!QUOTE, 65>>},
          f \in {<<>>, <<65, Forms!SPACE>>}, t \in {<<>>, <<70>>} :
         /\ f = <<>> => t = <<>>
         /\ input' = Append(input, [name |-> <<65 + Len(input)>>, filename |-> f, type |-> t, value |-> v])

AddCookie ==
    /\ Len(input) < 3
    /\ \E n \in {<<65>>, <<97>>, <<66, Forms!SPACE>>}, v \in {<<>>, <<Forms!EQ>>, <<Forms!SPACE, 67>>} :
         input' = Append(input, [name |-> n, value |-> v])

\* A format of up to MaxConversions conversions.
Fields(values) ==
    {Text!None} \cup {[by |-> "digits", n |-> 1, value |-> v] : v \in values}
                \cup {[by |-> "star", n |-> 0, value |-> -v] : v \in values}

AddConversion ==
    /\ Len(input) < MaxConversions
    /\ \E op \in {"d", "c", "s", "f", "g", "n", "%", "other"}, m \in {" ", "l", "L"},
          w \in Fields(Widths), p \in Fields(Precisions), a \in Lengths :
         /\ m # " " \/ op \in {"c", "n", "%", "other"} => w = Text!None /\ p = Text!None
         /\ a > Text!DBL_MAX_EXP => op = "f" /\ m = "L"
         /\ input' = Append(input, [op |-> op, modifier |-> m, flags |-> 0, width |-> w,
                                    precision |-> p, arg |-> IF op = "d" THEN 20 ELSE a])

AddText ==
    /\ Len(input) < MaxConversions
    /\ input' = Append(input, [op |-> "text", arg |-> 3])

\* Parameters whose names are prefixes of each other.
AddParam ==
    /\ Len(input) < MaxParams
    /\ \E name \in {<<"a">>, <<"a", "b">>, <<>>} : input' = Append(input, name)

\* Calls of an application that reads its input or writes its output.
Fragments == {<<>>, <<<<65>>>>, <<<<65, 10>>, <<66>>>>, <<<<10>>, <<65>>, <<66, 67>>>>, <<<<65, 66>>, <<67, 10>>>>}

StdioCall(op, n, size) == [op |-> op, n |-> n, size |-> size]

AddCall ==
    /\ Len(input.calls) < MaxCalls
    /\ \E c \in (IF part = "reading"
                 THEN {StdioCall("getc", 1, 1), StdioCall("ungetc", 1, 1), StdioCall("gets", 1, 1), StdioCall("seek", 0, 1)}
                        \cup {StdioCall("fgets", n, 1) : n \in 1 .. 3}
                        \cup {StdioCall("fread", n, size) : n \in 0 .. 2, size \in 1 .. 2}
                 ELSE {StdioCall(op, n, 1) : op \in {"fputs", "puts"}, n \in {0, 3}}
                        \cup {StdioCall(op, 1, 1) : op \in {"putc", "printf", "vprintf", "perror", "flush", "seek", "close", "freopen"}}
                        \cup {StdioCall("fwrite", 3, 2)}) :
         input' = [input EXCEPT !.calls = Append(@, c)]

\* Two lists and the sequences they stand for.
ListNames == {"list", "other"}

WithoutNode(seq, n) == SelectSeq(seq, LAMBDA m : m # n)

ChangeList ==
    \/ \E l \in ListNames, n \in Nodes :
         input' = [heap |-> Lists!AddTail(input.heap, l, n),
                   seq  |-> IF \E k \in ListNames : Contains(input.seq[k], n) THEN input.seq
                            ELSE [input.seq EXCEPT ![l] = Append(@, n)]]
    \/ \E n \in Nodes :
         input' = [heap |-> Lists!RemoveFromLink(input.heap, n),
                   seq  |-> [l \in ListNames |-> WithoutNode(input.seq[l], n)]]
    \/ \E l \in ListNames :
         input' = [heap |-> Lists!PopHead(input.heap, l),
                   seq  |-> [input.seq EXCEPT ![l] = IF @ = <<>> THEN @ ELSE Tail(@)]]
    \/ \E l \in ListNames : \E m \in ListNames \ {l} :
         input' = [heap |-> Lists!Join(input.heap, l, m),
                   seq  |-> [input.seq EXCEPT ![l] = @ \o input.seq[m], ![m] = <<>>]]

\* The thread and one coroutine use their environment and specific data.
Routines == {"main", "co"}

UseEnvironment ==
    \/ \E r \in Routines : input' = Env!co_enable_hook_sys(input, r) \/ input' = Env!co_disable_hook_sys(input, r)
    \/ \E names \in {<<>>, <<"b", "", "a", "b">>} : input' = Env!co_set_env_list(input, names)
    \/ \E r \in Routines, n \in {"a", "c"} :
         \/ \E v \in 1 .. 2, overwrite \in BOOLEAN : input' = Env!setenv(input, r, n, v, overwrite)
         \/ input' = Env!unsetenv(input, r, n)
         \/ input' = Env!getenv(input, r, n).t

UseSpecific ==
    \E r \in Routines, key \in 1 .. 2 :
       \/ input' = Env!RoutineData(input, r, key).t
       \/ \E needed \in 1 .. 9 : input' = Env!co_gethostbyname(input, r, needed, 2)

\* An application of asynchronous I/O: it starts operations, closes and calls
\* OS_DoIo, and its callbacks do the first two.  A descriptor whose reading was
\* shut down is not read again.
Uses(io) ==
    {io} \cup {Aio!OS_AsyncRead(io, fd) : fd \in {d \in io.open \ io.shut : <<"read", d>> \notin io.inUse}}
         \cup {Aio!OS_AsyncWrite(io, fd) : fd \in {d \in io.open : <<"write", d>> \notin io.inUse}}
         \cup {Aio!OS_Close(io, fd) : fd \in io.open}
         \cup {Aio!OS_CloseRead(io, fd) : fd \in io.open}

Starts(io) == io.done + Cardinality(io.inUse)

UseAsyncIo ==
    \/ /\ input.at = Aio!Idle
       /\ \/ \E io \in Uses(input) : Starts(io) <= MaxOperations /\ input' = io
          \/ \E ready \in SUBSET input.wait : input' = Aio!OS_DoIo(input, ready)
    \/ /\ input.at # Aio!Idle
       /\ IF Aio!LoopEnds(input) THEN input' = [input EXCEPT !.at = Aio!Idle]
          ELSE IF Aio!Dispatches(input)
          THEN \E io \in Uses(Aio!Dispatched(input)) :
                 Starts(io) <= MaxOperations /\ input' = [io EXCEPT !.at = @ + 1]
          ELSE input' = [input EXCEPT !.at = @ + 1]

NextYear == input < LastYear /\ input' = input + 1

\* A zone with daylight saving time between two of the three transitions.
Zones == {<<a, b, c>> \in (1 .. 8) \X (6 .. 14) \X (12 .. 20) : a + 4 < b /\ b + 4 < c}

ZoneOf(z) ==
    Dates!readTimeZoneFile(z, <<2, 1, 2>>, <<[gmtOffset |-> -3, isDst |-> FALSE],
                                             [gmtOffset |-> -1, isDst |-> TRUE]>>)

NextTime == input.time < MaxTime /\ input' = [input EXCEPT !.time = @ + 1]

-----------------------------------------------------------------------------
AllInit ==
    /\ Init
    /\ \/ part \in {"buffer", "params", "form", "upload", "cookies", "format", "array"} /\ input = <<>>
       \/ part = "result" /\ input = 0
       \/ part = "exchange" /\ input \in Exchanges
       \/ part = "reading" /\ input \in {[calls |-> <<>>, frags |-> fs] : fs \in Fragments}
       \/ part = "writing" /\ input \in {[calls |-> <<>>, bufflen |-> n] : n \in {1, 3}}
       \/ part = "list" /\ input = [heap |-> Lists!EmptyHeap(Nodes, ListNames), seq |-> [l \in ListNames |-> <<>>]]
       \/ part \in {"environment", "specific"} /\ input = Env!NewThread(Routines, {"a", "c"}, 1 .. 2)
       \/ part = "async" /\ input = Aio!NewIo(Descriptors)
       \/ part = "year" /\ input = FirstYear
       \/ part = "zone" /\ input \in {[zone |-> z, time |-> 0] : z \in Zones}

Grows ==
    \/ part = "params"   /\ AddPair
    \/ part = "result"   /\ input < MaxResult /\ input' = input + 1
    \/ part = "exchange" /\ Arrives
    \/ part = "exchange" /\ SendsNext
    \/ part = "form"     /\ GrowFields
    \/ part = "cookies"  /\ AddCookie
    \/ part = "upload"   /\ AddUpload
    \/ part = "format"   /\ AddConversion
    \/ part = "format"   /\ AddText
    \/ part = "array"    /\ AddParam
    \/ part = "reading"  /\ AddCall
    \/ part = "writing"  /\ AddCall
    \/ part = "list"     /\ ChangeList
    \/ part = "environment" /\ UseEnvironment
    \/ part = "specific" /\ UseSpecific
    \/ part = "async"    /\ UseAsyncIo
    \/ part = "year"     /\ NextYear
    \/ part = "zone"     /\ NextTime

AllNext ==
    \/ part = "buffer" /\ Next /\ UNCHANGED <<part, input>>
    \/ Grows /\ UNCHANGED <<part, vars>>

AllSpec == AllInit /\ [][AllNext]_<<part, input, vars>>

-----------------------------------------------------------------------------
(* Properties *)

\* parseAllParams decodes exactly the pairs whose last byte has arrived, for
\* one- and four-byte lengths and wherever the stream stops.
DecodesCompletePairs ==
    part = "params" =>
      LET s    == Codec!EncodeParams(input)
          ends == [j \in 0 .. Len(input) |-> Len(Codec!EncodeParams(SubSeq(input, 1, j)))]
      IN  \A k \in 0 .. Len(s) :
            LET j == Max({i \in 0 .. Len(input) : ends[i] <= k})
            IN  Codec!parseAllParams(SubSeq(s, 1, k)).params = Codec!Meaning(SubSeq(input, 1, j))

\* The records in the bytes of a response, as a web server reads them.
RECURSIVE ReadsRecords(_)
ReadsRecords(bytes) ==
    IF bytes = <<>> THEN <<>>
    ELSE <<[type |-> IF bytes[2] = Mucgi!kFcgiStdout THEN "STDOUT" ELSE "END_REQUEST",
            length |-> Mucgi!readInt16(bytes, 5), padding |-> bytes[7]]>>
         \o ReadsRecords(SubSeq(bytes, Mucgi!Total(bytes) + 1, Len(bytes)))

CarriesResult(recs) ==
    LET data == SubSeq(recs, 1, Len(recs) - 2)
    IN  /\ FoldLeft(LAMBDA n, rec : n + rec.length, 0, data) = IF input = 0 THEN EmptyLength ELSE input
        /\ \A i \in DOMAIN data :
             /\ data[i].length \in 1 .. FCGI_MAX_CONTENT_LENGTH
             /\ (data[i].length + data[i].padding) % 8 = 0
        /\ SubSeq(recs, Len(recs) - 1, Len(recs)) = <<Codec!endStdout, Codec!endRequest>>

\* The records of respond, cocgi's and mucgi's, carry the result: none of the
\* data records is empty (an empty one ends the stream), oversized or
\* unaligned, and the two closing records follow.
ResponseCarriesResult ==
    part = "result" =>
      /\ CarriesResult(Codec!respond(input))
      /\ CarriesResult(ReadsRecords(Mucgi!respond([i \in 1 .. input |-> i % 2])))

\* However the bytes of a connection are cut into reads, mucgi's onMessage hands
\* each request to the backend once, with its own parameters and body, and as
\* soon as its last byte is here; and shuts the connection down unless the
\* request asked to keep it.
RequestsAreWhole ==
    part = "exchange" =>
      LET done == IF input.wire = <<>> THEN Len(input.sent) ELSE Len(input.sent) - 1
      IN  /\ input.got = [i \in 1 .. done |-> [params |-> Codec!Meaning(input.sent[i].pairs),
                                              stdin  |-> input.sent[i].stdin]]
          /\ input.wire = <<>> => input.shut = (input.sent[Len(input.sent)].flags = 0)

\* Both codecs carry every request and result whole, from the bytes of the wire
\* to the backend and back.
CodecsCarryAll == DecodesCompletePairs /\ RequestsAreWhole /\ ResponseCarriesResult

Urlencoded(fields) ==
    FlattenSeq([i \in DOMAIN fields |->
        (IF i = 1 THEN <<>> ELSE <<Forms!AMP>>)
            \o Forms!form_urlencode(fields[i].name) \o <<Forms!EQ>> \o Forms!form_urlencode(fields[i].value)])

\* The backend finds every field of a form, posted or in the query string,
\* under its name in lower case; of several the first counts, a posted one
\* before one of the query string, and lookups in any case find it.  A value
\* stripped of line breaks loses nothing else before its limit.
FieldsAreFound ==
    part = "form" =>
      LET cgi  == Forms!Cgicc(Urlencoded(SelectSeq(input, LAMBDA f : ~f.posted)), <<>>,
                              Urlencoded(SelectSeq(input, LAMBDA f : f.posted)), <<Forms!Standard>>)
          qmap == Forms!onRequest(<<>>, cgi).qmap
          lower(i) == Forms!to_lower_copy(input[i].name)
      IN  /\ DOMAIN qmap = {lower(i) : i \in DOMAIN input}
          /\ \A i \in DOMAIN input :
               LET first == Min({j \in DOMAIN input : lower(j) = lower(i)})
               IN  /\ qmap[lower(i)] = input[first].value
                   /\ Forms!ValueOf(cgi, input[i].name) = input[first].value
                   /\ Forms!stringsAreEqual(cgi.fFormData[Forms!getElementByValue(cgi, input[i].value)].fValue,
                                            input[i].value)
                   /\ Len(Forms!findEntries(cgi, input[i].name, TRUE)) =
                        Cardinality({j \in DOMAIN input : lower(j) = lower(i)})
                   /\ \A n \in 0 .. 2 :
                        LET stripped == SelectSeq(input[i].value, LAMBDA c : c \notin {Forms!CR, Forms!LF})
                        IN  Forms!makeString(input[i].value, n, FALSE) =
                              SubSeq(stripped, 1, Min({n, Len(stripped)}))

\* The body a browser sends for uploads, file names encoded.
Body(uploads) ==
    FlattenSeq([i \in DOMAIN uploads |->
        <<Forms!Dashes, Forms!Boundary, Forms!CR, Forms!LF, Forms!Disposition, Forms!FormData, Forms!SEMI,
          Forms!NameIs>> \o uploads[i].name \o <<Forms!QUOTE>>
        \o (IF uploads[i].filename = <<>> THEN <<>>
             ELSE <<Forms!SEMI, Forms!File, Forms!NameIs>> \o Forms!form_urlencode(uploads[i].filename)
                  \o <<Forms!QUOTE>>)
        \o (IF uploads[i].type = <<>> THEN <<>>
             ELSE <<Forms!CR, Forms!LF, Forms!ContentType>> \o uploads[i].type)
        \o <<Forms!CR, Forms!LF, Forms!CR, Forms!LF>> \o uploads[i].value \o <<Forms!CR, Forms!LF>>])
    \o <<Forms!Dashes, Forms!Boundary, Forms!Dashes, Forms!CR, Forms!LF>>

Header(cookies) ==
    FlattenSeq([i \in DOMAIN cookies |->
        (IF i = 1 THEN <<>> ELSE <<Forms!SEMI, Forms!SPACE>>)
            \o cookies[i].name \o <<Forms!EQ>> \o cookies[i].value])

\* Every part of a multipart body becomes an entry or a file with exactly the
\* bytes between its header and its separator, whatever they are, and every
\* cookie reaches the backend, a later one of a name replacing an earlier one.
UploadsAndCookiesAreRead ==
    /\ part = "upload" =>
         LET type  == <<Forms!Multipart, Forms!SEMI, Forms!BoundaryIs, Forms!Boundary>>
             cgi   == Forms!Cgicc(<<>>, <<>>, Body(input), type)
             plain == SelectSeq(input, LAMBDA u : u.filename = <<>>)
             files == SelectSeq(input, LAMBDA u : u.filename # <<>>)
         IN  /\ ~cgi.threw
             /\ cgi.fFormData = [i \in DOMAIN plain |-> Forms!FormEntry(plain[i].name, plain[i].value)]
             /\ cgi.fFormFiles = [i \in DOMAIN files |->
                    Forms!FormFile(files[i].name, files[i].filename, files[i].type, files[i].value)]
             /\ \A i \in DOMAIN files : Forms!getFile(cgi, files[i].name) = i
    /\ part = "cookies" =>
         Forms!onRequest(<<>>, Forms!Cgicc(<<>>, Header(input), <<>>, <<>>)).header = Codec!Meaning(input)

\* What cgicc makes of a request's query, body and cookies is what mucgi's
\* onRequest hands to the backend: all fields, uploads and cookies, unchanged.
FormReachesBackend == FieldsAreFound /\ UploadsAndCookiesAreRead

\* A conversion whose text the bound does not cover: frexp saw an infinity.
Beyond(c) == c.op = "f" /\ c.modifier = "L" /\ c.arg > Text!DBL_MAX_EXP

\* "ASSERT(buffCount < buffLen)" (fcgiapp.cpp:829) holds of every conversion,
\* whatever its precision and argument and whatever buffer an earlier one left,
\* but for two kinds.  It fails for each field as wide as the buffer
\* FCGX_VFPrintF chose, and then only: max(buffReqd + 10, minWidth) leaves no
\* room for the end of a string of minWidth characters, and counts a negative
\* minWidth as none.  And it may fail for an f of a long double that is no
\* finite double.  The characters counted are those written.
FormatFits ==
    part = "format" =>
      LET r == Text!FCGX_VFPrintF(input)
      IN  /\ \A i \in DOMAIN r.done :
               LET c == r.done[i].c
                   v == r.done[i].v
               IN  ~Beyond(c) =>
                     /\ v.buffCount >= v.buffLen <=> Text!Abs(c.width.value) >= v.buffLen
                     /\ c.width.value >= 0 => v.buffCount <= v.buffLen
          /\ r.streamCount = Text!Error <=> \E i \in DOMAIN input :
               input[i].op # "text" /\ ~Text!Convert(input[i], 0).ok

\* The array of parameters always has room for the NULL that ends it, and a
\* name finds the first parameter of exactly that name.
ParamsAreFound ==
    part = "array" =>
      LET params == FoldLeft(Text!PutParam, Text!NewParams(2),
                             [i \in DOMAIN input |-> input[i] \o <<"=", ToString(i)>>])
      IN  /\ Len(params.vec) < params.length
          /\ \A i \in DOMAIN input :
               Text!FCGX_GetParam(input[i], params) =
                 <<ToString(Min({j \in DOMAIN input : input[j] = input[i]}))>>


\* The calls on a FILE that is read: what each returns and whether the end was
\* seen.  A character is put back only after it was read.
Read(r, c) ==
    CASE c.op = "getc"   -> Stdio!FCGI_fgetc(r.f)
      [] c.op = "ungetc" -> IF r.last = <<>> THEN [f |-> r.f, ret |-> Stdio!EOF]
                            ELSE Stdio!FCGI_ungetc(Last(r.last), r.f)
      [] c.op = "fgets"  -> Stdio!FCGI_fgets(c.n, r.f)
      [] c.op = "gets"   -> Stdio!FCGI_gets(r.f)
      [] c.op = "fread"  -> Stdio!FCGI_fread(c.size, c.n, r.f)
      [] c.op = "seek"   -> [f |-> Stdio!FCGI_setvbuf(Stdio!FCGI_fseek(r.f).f).f, ret |-> 0]

Got(c, v) ==
    CASE c.op = "getc"  -> <<v.ret>>
      [] c.op = "fread" -> v.bytes
      [] c.op = "fgets" -> v.ret
      [] OTHER          -> <<>>

AfterRead(r, c, v) ==
    [f    |-> v.f,
     rets |-> Append(r.rets, <<Got(c, v), v.ret, Stdio!FCGI_feof(v.f)>>),
     last |-> IF Stdio!FCGI_feof(v.f) THEN <<>> ELSE IF c.op = "seek" THEN r.last ELSE Got(c, v)]

Reads(file, calls) ==
    FoldLeft(LAMBDA r, c : AfterRead(r, c, Read(r, c)), [f |-> file, rets |-> <<>>, last |-> <<>>], calls)

Letters(n) == [i \in 1 .. n |-> 64 + i]

\* The calls on a FILE that is written: whether they failed, and every stream
\* it had.
Write(f, c) ==
    CASE c.op = "putc"   -> Stdio!FCGI_fputc(64, f)
      [] c.op = "fputs"  -> Stdio!FCGI_fputs(Letters(c.n), f)
      [] c.op = "puts"   -> Stdio!FCGI_puts(Letters(c.n), f)
      [] c.op = "printf" -> Stdio!FCGI_fprintf(Letters(c.n), f)
      [] c.op = "vprintf" -> Stdio!FCGI_vfprintf(Letters(c.n), f)
      [] c.op = "perror" -> [f |-> Stdio!FCGI_perror(<<Letters(1), Letters(2)>>, f), ret |-> 0]
      [] c.op = "fwrite" -> Stdio!FCGI_fwrite(Letters(c.n), c.size, f)
      [] c.op = "flush"  -> Stdio!FCGI_fflush(f)
      [] c.op = "seek"   -> [f |-> Stdio!FCGI_setvbuf(Stdio!FCGI_fseek(f).f).f, ret |-> 0]
      [] c.op = "close"  -> Stdio!FCGI_fclose(f)
      [] c.op = "freopen" -> [f |-> Stdio!FCGI_freopen(f, Stdio!CWriter).f, ret |-> 0]

AfterWrite(r, c, v) ==
    [f    |-> v.f,
     rets |-> Append(r.rets, IF c.op = "fwrite" THEN v.ret ELSE IF v.ret < 0 THEN -1 ELSE 0),
     old  |-> CASE c.op = "close"   -> Append(r.old, v.closed)
                [] c.op = "freopen" -> Append(r.old, Stdio!FCGI_fclose(r.f).closed)
                [] OTHER            -> r.old]

Writes(file, calls) ==
    FoldLeft(LAMBDA r, c : AfterWrite(r, c, Write(r.f, c)), [f |-> file, rets |-> <<>>, old |-> <<>>], calls)

\* The characters that left the program, by the streams it had in turn.
Left(w) ==
    LET streams == SelectSeq(Append(w.old, Stdio!FCGI_fclose(w.f).closed),
                             LAMBDA f : f # Stdio!File(Stdio!NULL, Stdio!NULL))
    IN  [i \in DOMAIN streams |-> IF streams[i].stdio_stream # Stdio!NULL THEN streams[i].stdio_stream.out
                                  ELSE streams[i].fcgx_stream.sent]

\* The same calls on a streambuf.
Attached(stream, size) == Stdio!attach(Stdio!setbuf(Stdio!Streambuf(Stdio!NULL, 0), size), stream)

ReadsBuffered(b, calls) ==
    FoldLeft(LAMBDA r, c :
               LET v == IF c.op = "getc" THEN Stdio!uflow(r.b) ELSE Stdio!xsgetn(r.b, c.n)
               IN  [b |-> v.s, rets |-> Append(r.rets, v.ret)],
             [b |-> b, rets |-> <<>>], calls)

WritesBuffered(b, calls) ==
    Stdio!overflow(FoldLeft(LAMBDA t, c : CASE c.op = "putc"  -> Stdio!sputc(t, 64)
                                            [] c.op = "fputs" -> Stdio!xsputn(t, Letters(c.n))
                                            [] c.op = "flush" -> Stdio!sync(t), b, calls), Stdio!EOF)

\* Of the input, what the calls on a C stream, cgi, and on a stream of libfcgi,
\* fcgi, have seen is the same, and the same as through a streambuf.
ReadAlike(cgi, fcgi) ==
    /\ fcgi.rets = cgi.rets
    /\ (/\ \A i \in DOMAIN input.calls : input.calls[i].op \in {"getc", "fread"} /\ input.calls[i].size = 1
        /\ \A i \in 1 .. Len(input.calls) - 1 : ~cgi.rets[i][3])
         => \A size \in {0, 2} :
              ReadsBuffered(Attached(Stdio!FcgxReader(input.frags), size), input.calls).rets =
                [i \in DOMAIN input.calls |-> IF input.calls[i].op = "getc" THEN cgi.rets[i][2] ELSE cgi.rets[i][1]]

WrittenAlike(cgi, fcgi) ==
    /\ fcgi.rets = cgi.rets /\ Left(fcgi) = Left(cgi)
    /\ Stdio!FCGI_pclose(fcgi.f).f # Stdio!File(Stdio!NULL, Stdio!NULL)
         <=> (fcgi.f.fcgx_stream # Stdio!NULL /\ Stdio!FCGI_fileno(fcgi.f) = -1)
    /\ (\A i \in DOMAIN input.calls : input.calls[i].op \in {"putc", "fputs", "flush"})
         => \A size \in {0, 2} :
              Left(cgi) =
                <<Stdio!EmptyBuff(WritesBuffered(Attached(Stdio!FcgxWriter(input.bufflen), size),
                                                 input.calls).fcgx).sent>>

\* An application cannot tell FastCGI from CGI: the same calls on a FILE return
\* the same, see the end of the input at the same call and send the same
\* characters, however libfcgi cuts them into fragments and buffers; and so do
\* calls on fcgio's streambuf, up to the first end of input.  A file that is
\* opened and gets no FILE does not stay open, and only a FILE of a stream of
\* libfcgi survives pclose.
WrappersAreTransparent ==
    /\ part = "reading" =>
         ReadAlike(Reads(Stdio!File(Stdio!CReader(FlattenSeq(input.frags)), Stdio!NULL), input.calls),
                   Reads(Stdio!File(Stdio!NULL, Stdio!FcgxReader(input.frags)), input.calls))
    /\ part = "writing" =>
         /\ WrittenAlike(Writes(Stdio!File(Stdio!CWriter, Stdio!NULL), input.calls),
                         Writes(Stdio!File(Stdio!NULL, Stdio!FcgxWriter(input.bufflen)), input.calls))
         /\ \A memory \in BOOLEAN : LET o == Stdio!FCGI_fopen(Stdio!CWriter, memory)
                                    IN  o.file.open <=> o.fp # Stdio!NULL

RECURSIVE Walk(_, _)
Walk(pointer, n) == IF n = "NULL" THEN <<>> ELSE <<n>> \o Walk(pointer, pointer[n])

\* The pointers of libco's lists are those of sequences: forwards and
\* backwards each list is what AddTail, PopHead, RemoveFromLink and Join should
\* have made of it, and a node knows the list it is on, so that it is on one.
ListsAreSequences ==
    part = "list" =>
      /\ \A l \in ListNames :
           /\ Walk(input.heap.pNext, input.heap.head[l]) = input.seq[l]
           /\ Reverse(Walk(input.heap.pPrev, input.heap.tail[l])) = input.seq[l]
      /\ \A n \in Nodes : \A l \in ListNames :
           input.heap.pLink[n] = l <=> Contains(input.seq[l], n)

\* What one coroutine does to the variables the program wants private is seen
\* by it and by no other; its specific data is its own and stays; the
\* resolver's buffer holds the answer; and a stack is a whole number of pages
\* and as large as was asked for, up to the limit.
CoroutineDataIsOwn ==
    /\ part = "environment" =>
         \A r \in Routines, n \in {"a", "c"} : \A v \in 1 .. 2 :
           LET set == Env!setenv(input, r, n, v, TRUE)
           IN  /\ Env!getenv(set, r, n).ret = v
               /\ Env!getenv(Env!unsetenv(set, r, n), r, n).ret = 0
               /\ \A q \in Routines \ {r} :
                    Env!Listed(input, r, n) \/ Env!Listed(input, q, n) =>
                      Env!getenv(set, q, n).ret = Env!getenv(input, q, n).ret
               /\ (Env!Listed(input, r, n) /\ input.co[r].pvEnv = <<>>) => Env!getenv(input, r, n).ret = 0
    /\ part = "specific" =>
         \A r \in Routines, key \in 1 .. 2 :
           LET data == Env!RoutineData(input, r, key)
           IN  /\ Env!RoutineData(data.t, r, key) = data
               /\ \A q \in Routines, k \in 1 .. 2 :
                    <<q, k>> # <<r, key>> => Env!co_getspecific(data.t, q, k) # data.ret
               /\ \A needed \in 1 .. 9 :
                    Env!co_gethostbyname(input, r, needed, 2).co[r].iBufferSize >= needed
               /\ \A wanted \in {0, 1, 4095, 4096, 4097, 131072, 8388608, 8388609} :
                    LET size == Env!StackSize(wanted)
                    IN  size % 4096 = 0 /\ size >= Min({wanted, 8388608}) /\ size \in 4096 .. 8388608

\* Whatever callbacks start and close while OS_DoIo works through what select
\* reported: an operation in use has its entry in the table and is waited for or
\* posted, under a descriptor the loops reach; none of a closed descriptor
\* remains, nor is one waited for that nobody started; and while one is left to
\* dispatch the counts say so, so that the next OS_DoIo does not sleep first.
OperationsAreTracked ==
    part = "async" =>
      /\ \A op \in input.inUse :
           Aio!Index(op) < input.size /\ op[2] \in input.open /\ op[2] <= input.maxFd
             /\ op \in input.wait \cup input.post
      /\ input.wait \subseteq input.inUse
      /\ input.num >= Cardinality(input.post \cap input.inUse)

IsLeap(y) == y % 4 = 0 /\ (y % 100 = 0 => y % 400 = 0)

DaysOf(y, m) == IF m = 2 THEN (IF IsLeap(y) THEN 29 ELSE 28) ELSE IF m \in {4, 6, 9, 11} THEN 30 ELSE 31

\* Day numbers follow the Gregorian calendar and are turned back into the same
\* dates, also before 1970; and a local time is turned back into the second it
\* came from, in the hour that occurs twice too.
TimesAreTurnedBack ==
    /\ part = "year" =>
         /\ Dates!getJulianDayNumber(input + 1, 1, 1) =
              Dates!getJulianDayNumber(input, 1, 1) + (IF IsLeap(input) THEN 366 ELSE 365)
         /\ \A m \in 1 .. 12 : \A d \in 1 .. DaysOf(input, m) :
              LET date == [year |-> input, month |-> m, day |-> d]
                  day  == Dates!getJulianDayNumber(input, m, d)
                  at   == (day - Dates!kJulianDayOf1970_01_01) * 48 + 5
              IN  /\ Dates!getYearMonthDay(day) = date
                  /\ Dates!toUtcTime(at).date = date /\ Dates!toUtcTime(at).inDay = 5
                  /\ Dates!fromUtcTime(Dates!toUtcTime(at)) = at
    /\ part = "zone" =>
         LET zone == ZoneOf(input.zone)
         IN  Dates!fromLocalTime(zone, Dates!toLocalTime(zone, input.time)) = input.time
==============================================================================
