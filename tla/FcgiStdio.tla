------------------------------ MODULE FcgiStdio ------------------------------
(***************************************************************************)
(* The wrappers around libfcgi's streams: the FILE of                      *)
(* fastcgi_lib/fcgi_stdio.cpp, which is a C stream when the program runs   *)
(* as CGI and a stream of libfcgi when it runs as FastCGI, and the         *)
(* streambuf of fastcgi_lib/fcgio.cpp.  A call is an operator that gives   *)
(* the stream or file after it, s or f, and what it returns, ret.          *)
(***************************************************************************)
EXTENDS Integers, Sequences, SequencesExt, FiniteSetsExt

EOF  == -1
NULL == [kind |-> "null"]
LF   == 10

Returns(s, ret) == [s |-> s, ret |-> ret]

-----------------------------------------------------------------------------
(* Streams of libfcgi.  A reader's bytes come in fragments: cur is what is *)
(* left of the one in the buffer, back how many of it were taken.  A       *)
(* writer collects bufflen bytes before it sends them.                     *)

FcgxReader(frags) ==
    [kind |-> "reader", frags |-> frags, cur |-> <<>>, back |-> 0, isClosed |-> FALSE]

FcgxWriter(bufflen) ==
    [kind |-> "writer", sent |-> <<>>, buf |-> <<>>, bufflen |-> bufflen, isClosed |-> FALSE]

Filled(s) ==
    IF s.frags = <<>> THEN [s EXCEPT !.isClosed = TRUE]
    ELSE [s EXCEPT !.cur = Head(s.frags), !.frags = Tail(@), !.back = 0]

Take(s, n) == [s EXCEPT !.cur = SubSeq(@, n + 1, Len(@)), !.back = @ + n]

FCGX_GetChar(s) ==
    LET f == IF s.cur = <<>> THEN Filled(s) ELSE s
    IN  CASE s.isClosed -> Returns(s, EOF)
          [] ~s.isClosed /\ f.isClosed -> Returns(f, EOF)
          [] OTHER -> Returns(Take(f, 1), Head(f.cur))

RECURSIVE GetMore(_, _)
GetMore(s, n) ==
    LET m == Min({n, Len(s.cur)})
        t == Take(s, m)
        f == Filled(t)
        g == GetMore(f, n - m)
    IN  IF m = n THEN Returns(t, SubSeq(s.cur, 1, m))
        ELSE IF f.isClosed THEN Returns(f, s.cur)
        ELSE Returns(g.s, s.cur \o g.ret)

FCGX_GetStr(s, n) == IF s.isClosed \/ n <= 0 THEN Returns(s, <<>>) ELSE GetMore(s, n)

\* At most n - 1 characters, up to and with a line feed; NULL is <<>> here and
\* is told from a line by n > 1.
RECURSIVE FCGX_GetLine(_, _)
FCGX_GetLine(s, n) ==
    LET c    == FCGX_GetChar(s)
        more == FCGX_GetLine(c.s, n - 1)
    IN  CASE n <= 1 -> Returns(s, <<>>)
          [] n > 1 /\ c.ret = EOF -> Returns(c.s, <<>>)
          [] n > 1 /\ c.ret = LF  -> Returns(c.s, <<LF>>)
          [] OTHER -> Returns(more.s, <<c.ret>> \o more.ret)

FCGX_UnGetChar(s, c) ==
    IF s.isClosed \/ s.back = 0 THEN Returns(s, EOF)
    ELSE Returns([s EXCEPT !.cur = <<c>> \o @, !.back = @ - 1], c)

EmptyBuff(s) == [s EXCEPT !.sent = @ \o s.buf, !.buf = <<>>]

FCGX_PutChar(s, c) ==
    IF s.isClosed THEN Returns(s, EOF)
    ELSE LET e == IF Len(s.buf) = s.bufflen THEN EmptyBuff(s) ELSE s
         IN  Returns([e EXCEPT !.buf = Append(@, c)], c)

\* FCGX_PutStr, and FCGX_PutS and FCGX_VFPrintF through it.
FCGX_PutStr(s, str) ==
    IF s.isClosed /\ str # <<>> THEN Returns(s, -1)
    ELSE Returns(FoldLeft(LAMBDA t, c : FCGX_PutChar(t, c).s, s, str), Len(str))

FCGX_FFlush(s) ==
    IF s.isClosed \/ s.kind = "reader" THEN Returns(s, 0) ELSE Returns(EmptyBuff(s), 0)

FCGX_FClose(s) ==
    Returns([(IF s.kind = "writer" /\ ~s.isClosed THEN EmptyBuff(s) ELSE s) EXCEPT !.isClosed = TRUE], 0)

FCGX_HasSeenEOF(s) == IF s.isClosed THEN EOF ELSE 0

-----------------------------------------------------------------------------
(* Streams of the C library *)

CReader(rest)  == [kind |-> "stdio", rest |-> rest, out |-> <<>>, eof |-> FALSE, open |-> TRUE]
CWriter        == CReader(<<>>)

C_fgetc(s) ==
    IF s.rest = <<>> THEN Returns([s EXCEPT !.eof = TRUE], EOF)
    ELSE Returns([s EXCEPT !.rest = Tail(@)], Head(s.rest))

C_ungetc(s, c) == Returns([s EXCEPT !.rest = <<c>> \o @, !.eof = FALSE], c)

C_fread(s, n) ==
    Returns([s EXCEPT !.rest = SubSeq(@, n + 1, Len(@)), !.eof = @ \/ Len(s.rest) < n],
            SubSeq(s.rest, 1, Min({n, Len(s.rest)})))

C_fgets(s, n) ==
    LET ends == {i \in 1 .. n - 1 : i <= Len(s.rest) /\ s.rest[i] = LF}
    IN  C_fread(s, IF ends = {} THEN n - 1 ELSE Min(ends))

C_fputs(s, str) == Returns([s EXCEPT !.out = @ \o str], Len(str))

C_fflush(s) == Returns(s, 0)

C_fclose(s) == Returns([s EXCEPT !.open = FALSE], 0)

-----------------------------------------------------------------------------
(* fcgi_stdio.cpp.  A FILE has a C stream, a stream of libfcgi or neither. *)

File(stdio, fcgx) == [stdio_stream |-> stdio, fcgx_stream |-> fcgx]

\* The shape of every wrapper: the C library's call, libfcgi's, or neither.
Through(f, stdio(_), fcgx(_), neither) ==
    IF f.stdio_stream # NULL
    THEN LET r == stdio(f.stdio_stream) IN [f |-> [f EXCEPT !.stdio_stream = r.s], ret |-> r.ret]
    ELSE IF f.fcgx_stream # NULL
    THEN LET r == fcgx(f.fcgx_stream) IN [f |-> [f EXCEPT !.fcgx_stream = r.s], ret |-> r.ret]
    ELSE [f |-> f, ret |-> neither]

\* FCGI_fopen, and the tmpfile, fdopen and popen that follow: a file that gets
\* no FILE is closed again.
FCGI_OpenFromFILE(stream, memory) ==
    IF stream = NULL \/ ~memory THEN NULL ELSE File(stream, NULL)

FCGI_fopen(file, memory) ==
    LET fp == FCGI_OpenFromFILE(file, memory)
    IN  [fp |-> fp, file |-> IF file # NULL /\ fp = NULL THEN C_fclose(file).s ELSE file]

\* What it closed is kept in closed; a FILE other than the three
\* standard ones is freed.
FCGI_fclose(f) ==
    LET n == Through(f, C_fclose, FCGX_FClose, EOF)
    IN  [f |-> File(NULL, NULL), closed |-> n.f, ret |-> n.ret]

\* pclose of a stream of libfcgi is refused.
FCGI_pclose(f) ==
    IF f.stdio_stream = NULL /\ f.fcgx_stream # NULL THEN [f |-> f, closed |-> File(NULL, NULL), ret |-> EOF]
    ELSE FCGI_fclose(f)

FCGI_fflush(f) == Through(f, C_fflush, FCGX_FFlush, EOF)

\* file is what opening the path gives, perhaps NULL.
FCGI_freopen(f, file) ==
    IF f.stdio_stream # NULL
    THEN [f |-> [f EXCEPT !.stdio_stream = IF file = NULL THEN C_fclose(@).s ELSE file], null |-> file = NULL]
    ELSE IF f.fcgx_stream = NULL THEN [f |-> f, null |-> TRUE]
    ELSE [f |-> File(file, IF file = NULL THEN FCGX_FClose(f.fcgx_stream).s ELSE NULL), null |-> file = NULL]

\* fseek, ftell, rewind, fgetpos and fsetpos: a stream has no position.  The C
\* library's position is not modelled.
FCGI_fseek(f) == [f |-> f, errno |-> IF f.stdio_stream # NULL THEN "0" ELSE "ESPIPE"]

FCGI_setvbuf(f) == [f |-> f, ret |-> IF f.stdio_stream # NULL THEN 0 ELSE -1]

\* The descriptor of a C stream is some number.
FCGI_fileno(f) == IF f.stdio_stream # NULL THEN 0 ELSE -1

FCGI_fgetc(f) == Through(f, C_fgetc, FCGX_GetChar, EOF)

FCGI_ungetc(c, f) == Through(f, LAMBDA s : C_ungetc(s, c), LAMBDA s : FCGX_UnGetChar(s, c), EOF)

FCGI_fgets(n, f) == Through(f, LAMBDA s : C_fgets(s, n), LAMBDA s : FCGX_GetLine(s, n), <<>>)

\* A line without its line feed, of any length.
RECURSIVE FCGI_gets(_)
FCGI_gets(f) ==
    LET c    == FCGI_fgetc(f)
        more == FCGI_gets(c.f)
    IN  IF c.ret \in {LF, EOF} THEN [f |-> c.f, ret |-> <<>>]
        ELSE [f |-> more.f, ret |-> <<c.ret>> \o more.ret]

FCGI_fputc(c, f) == Through(f, LAMBDA s : C_fputs(s, <<c>>), LAMBDA s : FCGX_PutChar(s, c), EOF)

FCGI_fputs(str, f) == Through(f, LAMBDA s : C_fputs(s, str), LAMBDA s : FCGX_PutStr(s, str), EOF)

FCGI_puts(str, f) ==
    LET n == FCGI_fputs(str, f) IN IF n.ret < 0 THEN n ELSE FCGI_fputc(LF, n.f)

FCGI_perror(words, f) == FoldLeft(LAMBDA g, str : FCGI_fputs(str, g).f, f, words)

\* fprintf returns 0 where vfprintf and printf return EOF.
FCGI_fprintf(text, f) == Through(f, LAMBDA s : C_fputs(s, text), LAMBDA s : FCGX_PutStr(s, text), 0)

FCGI_vfprintf(text, f) == FCGI_fputs(text, f)

\* Items of size bytes: the count is that of the whole items.  A failure's
\* negative int becomes a size_t larger than any count.
Huge == 2147483647

FCGI_fread(size, nmemb, f) ==
    LET r == Through(f, LAMBDA s : C_fread(s, size * nmemb), LAMBDA s : FCGX_GetStr(s, size * nmemb), <<>>)
    IN  [f |-> r.f, bytes |-> r.ret,
         ret |-> IF f = File(NULL, NULL) THEN Huge
                 ELSE IF size * nmemb = 0 THEN 0 ELSE Len(r.ret) \div size]

FCGI_fwrite(str, size, f) ==
    LET r == FCGI_fputs(str, f)
    IN  [f |-> r.f, ret |-> IF r.ret < 0 THEN Huge ELSE IF str = <<>> THEN 0 ELSE r.ret \div size]

FCGI_feof(f) ==
    IF f.stdio_stream # NULL THEN f.stdio_stream.eof
    ELSE f.fcgx_stream # NULL => FCGX_HasSeenEOF(f.fcgx_stream) # 0

-----------------------------------------------------------------------------
(* fcgio.cpp.  The put area and the get area share the buffer b of bufsize *)
(* characters; over counts how far gbump has moved past the get area.      *)

Streambuf(fcgx, bufsize) == [fcgx |-> fcgx, bufsize |-> bufsize, put |-> <<>>, get |-> <<>>, over |-> 0]

\* attach and reset: what was in the areas is forgotten.
attach(b, fcgx) == Streambuf(fcgx, b.bufsize)

\* setbuf is refused once there is a buffer.
setbuf(b, bs) == IF b.bufsize # 0 THEN b ELSE Streambuf(b.fcgx, bs)

\* Faulty variant: the character overtakes the buffer.
overflowFirst(b, c) ==
    LET p == IF c # EOF THEN FCGX_PutChar(b.fcgx, c).s ELSE b.fcgx
    IN  [b EXCEPT !.fcgx = FCGX_PutStr(p, b.put).s, !.put = <<>>]

\* The put area, then the character that did not fit.
overflow(b, c) ==
    LET p == FCGX_PutStr(b.fcgx, b.put)
    IN  IF p.ret # Len(b.put) THEN b
        ELSE [b EXCEPT !.put = <<>>, !.fcgx = IF c # EOF THEN FCGX_PutChar(p.s, c).s ELSE p.s]

sync(b) == [overflow(b, EOF) EXCEPT !.fcgx = FCGX_FFlush(@).s]

\* std::streambuf::sputc; xsputn of a buffer does it for each character.
sputc(b, c) == IF Len(b.put) < b.bufsize THEN [b EXCEPT !.put = Append(@, c)] ELSE overflow(b, c)

xsputn(b, str) ==
    IF b.bufsize # 0 THEN FoldLeft(sputc, b, str) ELSE [b EXCEPT !.fcgx = FCGX_PutStr(@, str).s]

\* Some character of the buffer, or behind it.
Stale == -2

\* egptr() - gptr(), and showmanyc(), which is 0, when they are equal.
in_avail(b) == Len(b.get) - b.over

\* The character stays in the get area; without one it is gone.  Once gbump has
\* moved past the get area in_avail() is not 0, and nothing is read any more.
underflow(b) ==
    IF b.bufsize = 0 THEN LET r == FCGX_GetChar(b.fcgx) IN Returns([b EXCEPT !.fcgx = r.s], r.ret)
    ELSE IF in_avail(b) # 0 THEN Returns(b, IF b.get = <<>> THEN Stale ELSE Head(b.get))
    ELSE LET r == FCGX_GetStr(b.fcgx, b.bufsize)
             t == [b EXCEPT !.fcgx = r.s]
         IN  IF r.ret = <<>> THEN Returns(t, EOF)
             ELSE Returns([t EXCEPT !.get = r.ret], Head(r.ret))

uflow(b) ==
    LET r == underflow(b)
    IN  IF b.bufsize = 0 THEN r
        ELSE IF r.s.get = <<>> THEN Returns([r.s EXCEPT !.over = @ + 1], r.ret)
        ELSE Returns([r.s EXCEPT !.get = Tail(@)], r.ret)

\* std::streambuf::xsgetn takes what the get area has and goes on with uflow;
\* behind the end of the get area what it copies is as stale.
RECURSIVE Gets(_, _)
Gets(b, n) ==
    LET r == uflow(b)
        m == Gets(r.s, n - 1)
    IN  IF n = 0 THEN Returns(b, <<>>)
        ELSE IF r.ret = EOF THEN Returns(r.s, <<>>)
        ELSE Returns(m.s, <<r.ret>> \o m.ret)

xsgetn(b, n) ==
    IF b.bufsize # 0 THEN Gets(b, n)
    ELSE LET r == FCGX_GetStr(b.fcgx, n) IN Returns([b EXCEPT !.fcgx = r.s], r.ret)
==============================================================================
