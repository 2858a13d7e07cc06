---------------------------- MODULE FastCgiCodec ----------------------------
(***************************************************************************)
(* The FastCgiCodec class of cocgi and mucgi as functions of its state:    *)
(* how it turns records into requests and a response into records.         *)
(*                                                                         *)
(* A record is [type, content, padding].  Its content is a sequence of     *)
(* bytes; a BEGIN_REQUEST record's content starts with role and flags (the *)
(* two bytes of the role are one element here).  Names and values of       *)
(* parameters are sequences of bytes.                                      *)
(***************************************************************************)
EXTENDS Integers, FiniteSets, Sequences, SequencesExt, TLC

CONSTANTS kRecordHeader,           \* bytes of a record header
          FCGI_MAX_CONTENT_LENGTH, \* largest content of a record
          EmptyResult              \* bytes of the page sent for an empty result

ASSUME CodecAssumption ==
    /\ kRecordHeader \in Nat \ {0}
    /\ FCGI_MAX_CONTENT_LENGTH \in Nat \ {0}
    /\ EmptyResult \in 1 .. FCGI_MAX_CONTENT_LENGTH

kFcgiResponder == 1
kFcgiKeepConn  == 1

-----------------------------------------------------------------------------
(* Parameters *)

Failed == -1

\* The length encoded at offset i of s and the offset behind it: one byte
\* below 128, or four bytes whose first has the high bit set.
readLen(s, i) ==
    IF i > Len(s) THEN [len |-> Failed, next |-> i]
    ELSE IF s[i] < 128 THEN [len |-> s[i], next |-> i + 1]
    ELSE IF Len(s) - i + 1 < 4 THEN [len |-> Failed, next |-> i]
    ELSE [len  |-> (((s[i] % 128) * 256 + s[i + 1]) * 256 + s[i + 2]) * 256 + s[i + 3],
          next |-> i + 4]

\* The pairs read from stream s, a later one replacing an earlier one of the
\* same name, and the offset of the first byte not consumed.  A stream that
\* ends inside a pair is given up there.
parseAllParams(s) ==
    LET stop(i) == [params |-> <<>>, rest |-> i]
        parse[i \in 1 .. Len(s) + 1] ==
            LET name  == readLen(s, i)
                value == readLen(s, name.next)
                data  == value.next
                end   == data + name.len + value.len
            IN  IF name.len = Failed THEN stop(i)
                ELSE IF value.len = Failed THEN stop(name.next)
                ELSE IF Len(s) - data + 1 < name.len + value.len THEN stop(data)
                ELSE [params |-> parse[end].params @@
                                 (SubSeq(s, data, data + name.len - 1) :>
                                  SubSeq(s, data + name.len, end - 1)),
                      rest   |-> parse[end].rest]
    IN  parse[1]

-----------------------------------------------------------------------------
(* The web server's side of parseAllParams *)

EncodeLen(n) == IF n < 128 THEN <<n>>
                ELSE <<128 + n \div 16777216, (n \div 65536) % 256, (n \div 256) % 256, n % 256>>

EncodePair(p) == EncodeLen(Len(p.name)) \o EncodeLen(Len(p.value)) \o p.name \o p.value

EncodeParams(ps) == FlattenSeq([i \in 1 .. Len(ps) |-> EncodePair(ps[i])])

\* The parameters a list of pairs stands for: the last pair of a name counts.
Meaning(ps) ==
    [n \in {ps[i].name : i \in DOMAIN ps} |->
        ps[Max({i \in DOMAIN ps : ps[i].name = n})].value]

-----------------------------------------------------------------------------
(* Records *)

\* A codec that has just been built or cleared.
NewCodec == [gotRequest |-> FALSE, keepConn |-> FALSE,
             stdin |-> <<>>, paramsStream |-> <<>>, params |-> <<>>]


\* A record that is too short or has another role leaves keepConn as it was.
\* The flags are compared as a whole.
onBeginRequest(c, content) ==
    IF Len(content) >= kRecordHeader /\ content[1] = kFcgiResponder
    THEN [c EXCEPT !.keepConn = content[2] = kFcgiKeepConn]
    ELSE c

onParams(c, content) ==
    IF content # <<>> THEN [c EXCEPT !.paramsStream = @ \o content]
    ELSE LET p == parseAllParams(c.paramsStream)
         IN  [c EXCEPT !.params = p.params @@ @,
                       !.paramsStream = SubSeq(@, p.rest, Len(@))]

onStdin(c, content) ==
    IF content # <<>> THEN [c EXCEPT !.stdin = @ \o content]
    ELSE [c EXCEPT !.gotRequest = TRUE]

\* Records of every other type are skipped.
onRecord(c, rec) ==
    CASE rec.type = "BEGIN_REQUEST" -> onBeginRequest(c, rec.content)
      [] rec.type = "PARAMS"        -> onParams(c, rec.content)
      [] rec.type = "STDIN"         -> onStdin(c, rec.content)
      [] OTHER                      -> c

Size(rec) == kRecordHeader + Len(rec.content) + rec.padding

\* The bytes of the first k records, for every k.
Offsets(recs) ==
    LET off[k \in 0 .. Len(recs)] == IF k = 0 THEN 0 ELSE off[k - 1] + Size(recs[k])
    IN  off

Sizes(recs) == Offsets(recs)[Len(recs)]

\* How many records from the front of recs lie within the first n bytes.
Complete(recs, n) ==
    LET off == Offsets(recs) IN Cardinality({k \in 1 .. Len(recs) : off[k] <= n})

\* The loop of parseFcgiPackage over a buffer whose n bytes start the records
\* recs: the codec afterwards, the records left and how much of them is here.
parseFcgiPackage(c, recs, n) ==
    LET done == Complete(recs, n)
        after[k \in 0 .. done] == IF k = 0 THEN c ELSE onRecord(after[k - 1], recs[k])
    IN  [codec |-> after[done],
         recs  |-> SubSeq(recs, done + 1, Len(recs)),
         n     |-> n - Offsets(recs)[done]]

-----------------------------------------------------------------------------
(* The response *)

Stdout(n) == [type |-> "STDOUT", length |-> n, padding |-> (8 - (n % 8)) % 8]

endStdout  == [type |-> "STDOUT", length |-> 0, padding |-> 0]
endRequest == [type |-> "END_REQUEST", length |-> kRecordHeader, padding |-> 0]

\* The records that carry a result of out bytes.
respond(out) ==
    LET n    == IF out = 0 THEN EmptyResult ELSE out
        full == n \div FCGI_MAX_CONTENT_LENGTH
        rest == n % FCGI_MAX_CONTENT_LENGTH
    IN  (IF n <= FCGI_MAX_CONTENT_LENGTH THEN <<Stdout(n)>>
         ELSE [i \in 1 .. full |-> Stdout(FCGI_MAX_CONTENT_LENGTH)]
              \o (IF rest # 0 THEN <<Stdout(rest)>> ELSE <<>>))
        \o <<endStdout, endRequest>>

ResponseSize(out) ==
    FoldLeft(LAMBDA n, rec : n + kRecordHeader + rec.length + rec.padding, 0, respond(out))
==============================================================================
