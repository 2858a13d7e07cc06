------------------------------ MODULE Calendar ------------------------------
(***************************************************************************)
(* Dates and time zones of muduo_base (Date.cc, TimeZone.cc).  / of C++ is *)
(* \div here: every operand is positive in the years the code documents,   *)
(* except in toUtcTime, where the remainder's sign matters.                *)
(***************************************************************************)
EXTENDS Integers, Sequences, FiniteSets, FiniteSetsExt

CONSTANTS kSecondsPerDay,   \* 24*60*60
          SecondsPerHour    \* 3600

kDaysPerWeek == 7

getJulianDayNumber(year, month, day) ==
    LET a == (14 - month) \div 12
        y == year + 4800 - a
        m == month + 12 * a - 3
    IN  day + (153 * m + 2) \div 5 + y * 365 + y \div 4 - y \div 100 + y \div 400 - 32045

getYearMonthDay(julianDayNumber) ==
    LET a == julianDayNumber + 32044
        b == (4 * a + 3) \div 146097
        c == a - (b * 146097) \div 4
        d == (4 * c + 3) \div 1461
        e == c - (1461 * d) \div 4
        m == (5 * e + 2) \div 153
    IN  [year  |-> b * 100 + d - 4800 + m \div 10,
         month |-> m + 3 - 12 * (m \div 10),
         day   |-> e - (153 * m + 2) \div 5 + 1]

kJulianDayOf1970_01_01 == getJulianDayNumber(1970, 1, 1)

\* [0 .. 6] for Sunday .. Saturday
weekDay(julianDayNumber) == (julianDayNumber + 1) % kDaysPerWeek

\* The quotient and remainder of C++ round towards zero.
Quotient(a, b)  == IF a >= 0 THEN a \div b ELSE -((-a) \div b)

Remainder(a, b) == a - b * Quotient(a, b)

toUtcTime(secondsSinceEpoch) ==
    LET r       == Remainder(secondsSinceEpoch, kSecondsPerDay)
        q       == Quotient(secondsSinceEpoch, kSecondsPerDay)
        seconds == IF r < 0 THEN r + kSecondsPerDay ELSE r
        days    == IF r < 0 THEN q - 1 ELSE q
        date    == days + kJulianDayOf1970_01_01
        ymd     == getYearMonthDay(date)
    IN  [date |-> ymd, inDay |-> seconds, tm_wday |-> weekDay(date),
         tm_yday |-> date - getJulianDayNumber(ymd.year, 1, 1)]

fromUtcTime(utc) ==
    (getJulianDayNumber(utc.date.year, utc.date.month, utc.date.day) - kJulianDayOf1970_01_01)
        * kSecondsPerDay + utc.inDay

-----------------------------------------------------------------------------
(* TimeZone.  A zone is [transitions, localtimes]: transitions is a        *)
(* sequence of [gmttime, localtime, localtimeIdx] in the order of the      *)
(* file, localtimes one of [gmtOffset, isDst].                             *)

\* The zone readTimeZoneFile builds from the times and types of a file.
readTimeZoneFile(times, types, localtimes) ==
    [transitions |-> [i \in DOMAIN times |->
        [gmttime |-> times[i], localtime |-> times[i] + localtimes[types[i]].gmtOffset,
         localtimeIdx |-> types[i]]],
     localtimes  |-> localtimes]

\* Comp(gmt): the time of a transition that is compared.
Compared(transition, gmt) == IF gmt THEN transition.gmttime ELSE transition.localtime

\* The local time type in force: the first one before the first transition,
\* else that of the transition lower_bound finds or of the one before it.
findLocaltime(data, time, gmt) ==
    LET ts    == data.transitions
        lower == Min({i \in DOMAIN ts : Compared(ts[i], gmt) >= time} \cup {Len(ts) + 1})
        trans == IF lower <= Len(ts) /\ Compared(ts[lower], gmt) = time THEN lower ELSE lower - 1
    IN  IF ts = <<>> \/ (ts # <<>> /\ time < Compared(ts[1], gmt))
        THEN data.localtimes[1]
        ELSE data.localtimes[ts[trans].localtimeIdx]

\* A broken-down local time is the second it would be in UTC and tm_isdst.
toLocalTime(data, seconds) ==
    LET local == findLocaltime(data, seconds, TRUE)
    IN  [seconds |-> seconds + local.gmtOffset, tm_isdst |-> local.isDst]

\* Faulty variant: tm_isdst is not looked at.
fromLocalTimeIgnoringDst(data, localTm) ==
    localTm.seconds - findLocaltime(data, localTm.seconds, FALSE).gmtOffset

\* A daylight saving time the zone would read as standard time is an hour
\* earlier.
fromLocalTime(data, localTm) ==
    LET local == findLocaltime(data, localTm.seconds, FALSE)
        tryTm == toLocalTime(data, localTm.seconds - local.gmtOffset)
        hack  == /\ localTm.tm_isdst /\ ~tryTm.tm_isdst
                 /\ (tryTm.seconds - localTm.seconds) % kSecondsPerDay = 0
    IN  localTm.seconds - (IF hack THEN SecondsPerHour ELSE 0) - local.gmtOffset
==============================================================================
