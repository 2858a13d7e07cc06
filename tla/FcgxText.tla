------------------------------ MODULE FcgxText ------------------------------
(***************************************************************************)
(* Text of libfcgi (fastcgi/fastcgi_lib/fcgiapp.cpp): formatted output and *)
(* the array of parameters.                                                *)
(*                                                                         *)
(* Of formatted output only lengths count.  A conversion is [op, modifier, *)
(* flags, width, precision, arg]: flags is how many there are; width and   *)
(* precision are [by, n, value], where by is "none", "digits" (n of them)  *)
(* or "star"; arg is what decides the length of the argument's text: the   *)
(* characters of a number or string, the binary exponent of an f.          *)
(***************************************************************************)
EXTENDS Integers, Sequences, SequencesExt, FiniteSets, FiniteSetsExt

CONSTANTS PRINTF_BUFFLEN   \* 100, the buffer on the stack

None   == [by |-> "none", n |-> 0, value |-> 0]

Absent == -1     \* the precision of a conversion that has none
Error  == -1

Abs(n) == IF n < 0 THEN -n ELSE n

-----------------------------------------------------------------------------
(* FCGX_VFPrintF *)

Integral == {"d", "i", "u", "o", "x", "X"}
Floating == {"e", "E", "g", "G"}

\* Without flags, width and precision the first look at a conversion is enough,
\* unless it is an f or no conversion at all.
FastPath(c) ==
    /\ c.flags = 0 /\ c.width.by = "none" /\ c.precision.by = "none"
    /\ c.op \in Integral \cup Floating \cup {"c", "s", "p", "n", "%"}

\* The slow path's scan; a field it cannot scan is an error.
Scans(c) ==
    /\ c.flags <= 5
    /\ c.width.by = "digits" => c.width.n <= 6
    /\ c.width.by = "star" => Abs(c.width.value) <= 999999
    /\ c.precision.by = "digits" => c.precision.n <= 6
    /\ c.precision.by = "star" => c.precision.value <= 999999

minWidth(c) == c.width.value

precision(c) ==
    CASE c.precision.by = "none"   -> Absent
      [] c.precision.by = "digits" -> c.precision.value
      [] c.precision.by = "star"   -> Max({c.precision.value, 0})

OrSix(p) == IF p = Absent THEN 6 ELSE p

DBL_MAX_EXP == 1024

\* What frexp stores in exp.  A long double goes through (double), and is then
\* perhaps infinite, for which the library stores 0.
frexp(c) == IF c.modifier = "L" /\ c.arg > DBL_MAX_EXP THEN 0 ELSE c.arg


\* The bound on the text of the conversion proper.
TextRequired(c) ==
    CASE c.op \in Integral \cup {"c", "p"} -> Max({precision(c), 46})
      [] c.op = "s"        -> IF precision(c) = Absent THEN c.arg ELSE Min({precision(c), c.arg})
      [] c.op = "f"        -> OrSix(precision(c)) + 3 + Max({frexp(c), 0}) \div 3
      [] c.op \in Floating -> OrSix(precision(c)) + 8

buffReqd(c) == Max({TextRequired(c) + 10, minWidth(c)})

\* The conversions for which the slow path finds a bound.
Bounded(c) ==
    \/ c.op \in Integral \cup Floating \cup {"c", "p", "s"}
    \/ c.op = "f" /\ c.modifier \in {" ", "L"}

\* The modifiers the conversions are carried out with.
Performed(c) ==
    \/ c.op \in Integral \cup {"n"} /\ c.modifier \in {" ", "l", "h"}
    \/ c.op \in {"c", "s", "p", "%"} /\ c.modifier = " "
    \/ c.op \in Floating \cup {"f"} /\ c.modifier \in {" ", "L"}

\* What sprintf makes of the conversion: an integer has at least precision
\* digits and perhaps a sign and a prefix; an f one digit or more.
sprintf(c) ==
    LET text == CASE c.op \in Integral -> Max({precision(c), c.arg}) + 2
                  [] c.op = "c"        -> 1
                  [] c.op = "p"        -> Max({precision(c), c.arg}) + 2
                  [] c.op = "s"        -> IF precision(c) = Absent THEN c.arg
                                          ELSE Min({precision(c), c.arg})
                  [] c.op = "f"        -> 1 + (Max({c.arg, 0}) \div 3 + 1) + 1 + OrSix(precision(c))
                  [] c.op \in Floating -> 3 + OrSix(precision(c)) + 5
    IN  Max({text, Abs(minWidth(c))})

\* The slow path's buffer, and the auxiliary one it leaves for the next
\* conversion, which is replaced by a larger one when it does not do.
Buffer(c, auxBuffLen) ==
    IF buffReqd(c) <= PRINTF_BUFFLEN THEN [buffLen |-> PRINTF_BUFFLEN, aux |-> auxBuffLen]
    ELSE LET len == Max({buffReqd(c), auxBuffLen}) IN [buffLen |-> len, aux |-> len]

\* One conversion: the characters it puts into a buffer of buffLen.  A string
\* on the fast path needs no buffer; %n and %% write at most one character.
Convert(c, auxBuffLen) ==
    LET count  == CASE c.op = "n" -> 0 [] c.op = "%" -> 1 [] OTHER -> sprintf(c)
        buffer == IF ~FastPath(c) THEN Buffer(c, auxBuffLen)
                  ELSE [buffLen |-> IF c.op = "s" THEN count + 1 ELSE PRINTF_BUFFLEN, aux |-> auxBuffLen]
    IN  IF ~Performed(c) \/ (~FastPath(c) /\ ~(Scans(c) /\ Bounded(c)))
        THEN [ok |-> FALSE, buffCount |-> Error, buffLen |-> 0, aux |-> auxBuffLen]
        ELSE [ok |-> TRUE, buffCount |-> count, aux |-> buffer.aux, buffLen |-> buffer.buffLen]

\* The whole format, literal text being [op |-> "text", arg |-> length].  The
\* count is that of the characters written, or Error after the first failure.
FCGX_VFPrintF(format) ==
    FoldLeft(LAMBDA r, c :
               IF r.streamCount = Error THEN r
               ELSE IF c.op = "text" THEN [r EXCEPT !.streamCount = @ + c.arg]
               ELSE LET v == Convert(c, r.aux)
                    IN  [streamCount |-> IF v.ok THEN r.streamCount + v.buffCount ELSE Error,
                         aux         |-> v.aux,
                         done        |-> IF v.ok THEN Append(r.done, [c |-> c, v |-> v]) ELSE r.done],
             [streamCount |-> 0, aux |-> 0, done |-> <<>>], format)

-----------------------------------------------------------------------------
(* Params: vec has length elements, of which NULL, at cur, is one.  A      *)
(* parameter is the text name=value, a sequence of characters.             *)

NULL == <<>>

NewParams(length) == [vec |-> <<>>, length |-> length]

PutParam(p, nameValue) ==
    LET size == Len(p.vec) + 1
    IN  [vec |-> Append(p.vec, nameValue), length |-> IF size >= p.length THEN p.length * 2 ELSE p.length]

\* strncmp(name, *p, len) == 0 && (*p)[len] == '='
IsParam(name, nameValue) ==
    /\ SubSeq(nameValue, 1, Len(name)) = name
    /\ Len(nameValue) > Len(name) /\ nameValue[Len(name) + 1] = "="

FCGX_GetParam(name, p) ==
    LET at == {i \in DOMAIN p.vec : IsParam(name, p.vec[i])}
    IN  IF at = {} THEN NULL
        ELSE SubSeq(p.vec[Min(at)], Len(name) + 2, Len(p.vec[Min(at)]))
==============================================================================
