------------------------------- MODULE Cgicc --------------------------------
(***************************************************************************)
(* The cgicc library (mucgi/cgicc_lib; cocgi keeps the same code): how the *)
(* query string, the posted data and the cookies of a request become form  *)
(* entries, files and cookies, and what mucgi's onRequest hands on.        *)
(*                                                                         *)
(* A string is a sequence of numbers: characters by their codes, and a     *)
(* word that is only compared as a whole one number above 255.  Positions  *)
(* start at 1 and npos is 0, so that npos + n is the position the C++ code *)
(* reaches by wrapping around.                                             *)
(***************************************************************************)
EXTENDS Integers, Sequences, SequencesExt, FiniteSets, FiniteSetsExt, TLC

NUL     == 0
LF      == 10
CR      == 13
SPACE   == 32
QUOTE   == 34
PERCENT == 37
AMP     == 38
PLUS    == 43
SEMI    == 59
EQ      == 61
Boundary    == 301   \* the separator the client chose
Dashes      == 302   \* --
Disposition == 303   \* Content-Disposition:
FormData    == 304   \* form-data
File        == 305   \* file, before name="
NameIs      == 306   \* name="
ContentType == 307   \* Content-Type:
Standard    == 308   \* application/x-www-form-urlencoded
Multipart   == 309   \* multipart/form-data
BoundaryIs  == 310   \* boundary=
TextPlain   == 311   \* text/plain

npos == 0

\* data.find(p, from) and data.substr(pos, n), where n may exceed what is left.
Find(s, p, from) ==
    LET at == {i \in from .. Len(s) - Len(p) + 1 : SubSeq(s, i, i + Len(p) - 1) = p}
    IN  IF at = {} THEN npos ELSE Min(at)

Substr(s, pos, n) == SubSeq(s, pos, Min({pos + n - 1, Len(s)}))

From(s, pos) == SubSeq(s, pos, Len(s))

\* substr(old, pos - old), pos being the result of a find from old.
UpTo(s, old, pos) == IF pos = npos THEN From(s, old) ELSE SubSeq(s, old, pos - 1)

-----------------------------------------------------------------------------
(* CgiUtils *)

toupper(c) == IF c \in 97 .. 122 THEN c - 32 ELSE c

tolower(c) == IF c \in 65 .. 90 THEN c + 32 ELSE c

stringsAreEqual(s1, s2) ==
    Len(s1) = Len(s2) /\ \A i \in DOMAIN s1 : toupper(s1[i]) = toupper(s2[i])

\* The form with a length compares the first n characters.
startsAreEqual(s1, s2, n) ==
    /\ n <= Len(s1) /\ n <= Len(s2)
    /\ \A i \in 1 .. n : toupper(s1[i]) = toupper(s2[i])

isxdigit(c) == c \in (48 .. 57) \cup (65 .. 70) \cup (97 .. 102)

isspace(c) == c = SPACE \/ c \in 9 .. 13

HexDigit(n) == IF n > 9 THEN n + 55 ELSE n + 48

charToHex(c) == <<HexDigit(c \div 16), HexDigit(c % 16)>>

hexToChar(first, second) ==
    LET value(c) == IF c >= 65 THEN toupper(c) - 55 ELSE c - 48
    IN  (value(first) * 16 + value(second)) % 256

\* Letters, digits and - _ . ! ~ * ' ( ) stand for themselves.
Unreserved == (48 .. 57) \cup (65 .. 90) \cup (97 .. 122)
                  \cup {45, 95, 46, 33, 126, 42, 39, 40, 41}

form_urlencode(src) ==
    FlattenSeq([i \in DOMAIN src |->
        IF src[i] = SPACE THEN <<PLUS>>
        ELSE IF src[i] \in Unreserved THEN <<src[i]>>
        ELSE <<PERCENT>> \o charToHex(src[i])])

\* A percent sign that two hexadecimal digits do not follow is passed on.  The
\* character behind the last one is the terminating NUL.
form_urldecode(src) ==
    LET at(i) == IF i <= Len(src) THEN src[i] ELSE NUL
        decode[i \in 1 .. Len(src) + 1] ==
            IF i > Len(src) THEN <<>>
            ELSE IF src[i] = PLUS THEN <<SPACE>> \o decode[i + 1]
            ELSE IF src[i] = PERCENT /\ Len(src) - i + 1 >= 2
                        /\ isxdigit(at(i + 1)) /\ isxdigit(at(i + 2))
                 THEN <<hexToChar(src[i + 1], src[i + 2])>> \o decode[i + 3]
            ELSE <<src[i]>> \o decode[i + 1]
    IN  decode[1]

extractBetween(data, separator1, separator2) ==
    LET found == Find(data, separator1, 1)
        start == found + Len(separator1)
        limit == Find(data, separator2, start)
    IN  IF found # npos /\ limit # npos THEN UpTo(data, start, limit) ELSE <<>>

-----------------------------------------------------------------------------
(* FormEntry, FormFile and HTTPCookie *)

FormEntry(name, value) == [fName |-> name, fValue |-> value]

FormFile(name, filename, dataType, data) ==
    [fName |-> name, fFilename |-> filename, fData |-> data,
     fDataType |-> IF dataType = <<>> THEN <<TextPlain>> ELSE dataType]

HTTPCookie(name, value) == [fName |-> name, fValue |-> value]

\* A run of CR and LF stands for as many line breaks as it has of the more
\* frequent of the two.
LineBreaks(run, allowNewlines) ==
    LET count(c) == Cardinality({i \in DOMAIN run : run[i] = c})
    IN  IF allowNewlines THEN [i \in 1 .. Max({count(CR), count(LF)}) |-> LF] ELSE <<>>

\* The value of an entry, cut off once maxLen characters are there.
makeString(value, maxLen, allowNewlines) ==
    LET isBreak(i) == i <= Len(value) /\ value[i] \in {CR, LF}
        runEnd(i)  == Min({j \in i + 1 .. Len(value) + 1 : ~isBreak(j)})
        make[i \in 1 .. Len(value) + 1, n \in 0 .. maxLen + Len(value)] ==
            IF i > Len(value) \/ n >= maxLen THEN <<>>
            ELSE IF isBreak(i)
                 THEN LET lfs == LineBreaks(SubSeq(value, i, runEnd(i) - 1), allowNewlines)
                      IN  lfs \o make[runEnd(i), n + Len(lfs)]
            ELSE <<value[i]>> \o make[i + 1, n + 1]
    IN  make[1, 0]

-----------------------------------------------------------------------------
(* The Cgicc object *)

Nothing == [fFormData |-> <<>>, fFormFiles |-> <<>>, fCookies |-> <<>>, threw |-> FALSE]

\* name=value&name=value...; a name without = ends the parse.
parseUrlencoded(cgi, data) ==
    LET parse[old \in 1 .. Len(data) + 1] ==
            LET eq  == Find(data, <<EQ>>, old)
                amp == Find(data, <<AMP>>, eq + 1)
            IN  IF eq = npos THEN <<>>
                ELSE <<FormEntry(form_urldecode(UpTo(data, old, eq)),
                                 form_urldecode(UpTo(data, eq + 1, amp)))>>
                     \o (IF amp = npos THEN <<>> ELSE parse[amp + 1])
    IN  [cgi EXCEPT !.fFormData = @ \o parse[1]]

parseHeader(data) ==
    [fName        |-> extractBetween(data, <<NameIs>>, <<QUOTE>>),
     fFilename    |-> form_urldecode(extractBetween(data, <<File, NameIs>>, <<QUOTE>>)),
     fContentType |-> extractBetween(data, <<ContentType>>, <<CR, LF, CR, LF>>)]

\* data.substr(valueStart, data.length() - valueStart - 2): of a value shorter
\* than its line break the count wraps around and all of it is taken.
MIMEValue(data, valueStart) ==
    LET n == Len(data) - valueStart + 1
    IN  Substr(data, valueStart, IF n >= 2 THEN n - 2 ELSE n)

\* A part without the empty line behind its header throws.
parseMIME(cgi, data) ==
    LET headLimit  == Find(data, <<CR, LF, CR, LF>>, 1)
        valueStart == headLimit + 4
        value      == MIMEValue(data, valueStart)
        head       == parseHeader(SubSeq(data, 1, valueStart - 1))
    IN  IF cgi.threw THEN cgi
        ELSE IF headLimit = npos THEN [cgi EXCEPT !.threw = TRUE]
        ELSE IF head.fFilename = <<>>
             THEN [cgi EXCEPT !.fFormData = Append(@, FormEntry(head.fName, value))]
        ELSE [cgi EXCEPT !.fFormFiles =
                Append(@, FormFile(head.fName, head.fFilename, head.fContentType, value))]

\* The data between the separators; what follows the last one counts only when
\* the closing separator ends it.
parseMultipart(cgi, data, content_type) ==
    LET boundary == From(content_type, Find(content_type, <<BoundaryIs>>, 1) + 1)
        sep1 == <<Dashes>> \o boundary \o <<CR, LF>>
        sep2 == <<Dashes>> \o boundary \o <<Dashes, CR, LF>>
        parts[old \in 1 .. Len(data) + 1 + Len(sep1)] ==
            LET next == Find(data, sep1, old)
                last == Find(data, sep2, old)
            IN  IF next # npos THEN <<UpTo(data, old, next)>> \o parts[next + Len(sep1)]
                ELSE IF last # npos THEN <<UpTo(data, old, last)>> ELSE <<>>
    IN  FoldLeft(parseMIME, cgi, parts[Find(data, sep1, 1) + Len(sep1)])

parseFormInput(cgi, data, content_type) ==
    IF data = <<>> \/ cgi.threw THEN cgi
    ELSE IF content_type = <<>> \/ startsAreEqual(content_type, <<Standard>>, 1)
         THEN parseUrlencoded(cgi, data)
    ELSE IF startsAreEqual(<<Multipart>>, content_type, 1)
         THEN parseMultipart(cgi, data, content_type)
    ELSE cgi

\* A cookie without = is left out; white space before its name is skipped.
parseCookie(cgi, data) ==
    LET pos     == Find(data, <<EQ>>, 1)
        wscount == Cardinality({i \in DOMAIN data : \A j \in 1 .. i : isspace(data[j])})
    IN  IF pos = npos THEN cgi
        ELSE [cgi EXCEPT !.fCookies = Append(@, HTTPCookie(SubSeq(data, wscount + 1, pos - 1),
                                                           From(data, pos + 1)))]

parseCookies(cgi, data) ==
    LET parse[old \in 1 .. Len(data) + 1] ==
            LET pos == Find(data, <<SEMI>>, old)
            IN  <<UpTo(data, old, pos)>> \o (IF pos = npos THEN <<>> ELSE parse[pos + 1])
    IN  IF data = <<>> \/ cgi.threw THEN cgi ELSE FoldLeft(parseCookie, cgi, parse[1])

\* The constructor: posted data first, then the query string, then cookies.
Cgicc(query, cookie, data, type) ==
    parseCookies(parseFormInput(parseFormInput(Nothing, data, type), query, <<>>), cookie)

\* Lookups ignore the case of the name; the first entry of a name counts, and
\* the end of the vector is Len + 1.
FE_nameCompare(name, entry)   == stringsAreEqual(name, entry.fName)

FE_valueCompare(value, entry) == stringsAreEqual(value, entry.fValue)

FF_compare(name, file)        == stringsAreEqual(name, file.fName)

\* std::find_if
findIf(entries, Matches(_)) ==
    Min({i \in DOMAIN entries : Matches(entries[i])} \cup {Len(entries) + 1})

getElement(cgi, name) == findIf(cgi.fFormData, LAMBDA e : FE_nameCompare(name, e))

getElementByValue(cgi, value) == findIf(cgi.fFormData, LAMBDA e : FE_valueCompare(value, e))

getFile(cgi, name) == findIf(cgi.fFormFiles, LAMBDA f : FF_compare(name, f))

findEntries(cgi, param, byName) ==
    SelectSeq(cgi.fFormData,
        LAMBDA e : IF byName THEN FE_nameCompare(param, e) ELSE FE_valueCompare(param, e))

\* operator(): the value of the first entry of a name, or the empty string.
ValueOf(cgi, name) ==
    LET i == getElement(cgi, name)
    IN  IF i <= Len(cgi.fFormData) THEN cgi.fFormData[i].fValue ELSE <<>>

-----------------------------------------------------------------------------
(* mucgi/main.cpp *)

to_lower_copy(s) == [i \in DOMAIN s |-> tolower(s[i])]

\* Faulty variant: a later entry of a name replaces an earlier one.
InsertLast(map, key, value) == (key :> value) @@ map

\* std::map::insert leaves a key that is there alone.
Insert(map, key, value) == map @@ (key :> value)

\* What onRequest hands the backend: the entries under their names in lower
\* case, then the files; the parameters of the request, then the cookies.
onRequest(params, cgi) ==
    [qmap   |-> FoldLeft(LAMBDA m, f : Insert(m, f.fName, f.fData),
                         FoldLeft(LAMBDA m, e : Insert(m, to_lower_copy(e.fName), e.fValue),
                                  <<>>, cgi.fFormData),
                         cgi.fFormFiles),
     header |-> FoldLeft(LAMBDA m, k : (k.fName :> k.fValue) @@ m, params, cgi.fCookies)]
==============================================================================
