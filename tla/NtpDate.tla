------------------------------- MODULE NtpDate -------------------------------
(***************************************************************************)
(* NTPClient::getFormattedDate (lib/NTPClient-master/NTPClient.cpp): the   *)
(* date of the time that getEpochTime() returns, whose days since          *)
(* 1970-01-01 are counted off year by year and then month by month.        *)
(*                                                                         *)
(* getEpochTime() adds an offset that the program sets.  Here the offset   *)
(* also stands for the years that the short era of NtpClient leaves out.   *)
(***************************************************************************)
EXTENDS NtpClient

CONSTANTS
    Day,     \* seconds in a day: 86400
    Offsets  \* values of _timeOffset

ASSUME DayAssumption == Day \in Nat \ {0} /\ Offsets \subseteq Nat

\* Without the rule of the centuries.
LEAP_YEAR_Julian(y) == y % 4 = 0

LEAP_YEAR(y) == y > 0 /\ y % 4 = 0 /\ (y % 100 # 0 \/ y % 400 = 0)

YearDays(y) == IF LEAP_YEAR(y) THEN 366 ELSE 365

monthDays == <<31, 28, 31, 30, 31, 30, 31, 31, 30, 31, 30, 31>>

MonthDays(y, m) == IF m = 2 THEN (IF LEAP_YEAR(y) THEN 29 ELSE 28) ELSE monthDays[m]

\* The first loop: the year and the day in it, counted from 0, of the nth day from the
\* first of a year on.
InYear[n \in Nat] ==
    [y \in Nat |-> IF n < YearDays(y) THEN [year |-> y, day |-> n]
                                      ELSE InYear[n - YearDays(y)][y + 1]]

\* The second: the first month of which no more days are left than it has.
InMonth(y, n) ==
    LET left[m \in 1 .. 13] == IF m = 1 THEN n ELSE left[m - 1] - MonthDays(y, m - 1)
        Here(m) == m = 13 \/ left[m] < MonthDays(y, m)
        month   == CHOOSE m \in 1 .. 13 : Here(m) /\ \A k \in 1 .. m - 1 : ~Here(k)
    IN  [month |-> month, day |-> left[month]]

\* What the loops leave in year, month and rawTime.
CountedOff(rawTime) ==
    LET y == InYear[rawTime \div Day][1970]
        m == InMonth(y.year, y.day)
    IN [year |-> y.year, month |-> m.month, day |-> m.day + 1]

\* "0" + (month) adds to the address of "0": what is printed for a month below 10
\* begins that many characters behind it.
Misplaced == "misplaced"
MonthText(m) == IF m < 10 THEN Misplaced ELSE m

getFormattedDate(rawTime) == [CountedOff(rawTime) EXCEPT !.month = MonthText(@)]
-----------------------------------------------------------------------------
\* Days from the first one of the year 1 to a date, by the Gregorian rule.
Ordinal(y, m, d) ==
    LET p    == y - 1
        leap == (y % 4 = 0 /\ y % 100 # 0) \/ y % 400 = 0
    IN 365 * p + (p \div 4) - (p \div 100) + (p \div 400) + ((367 * m - 362) \div 12)
       + (IF m <= 2 THEN 0 ELSE IF leap THEN -1 ELSE -2) + d

FirstOf(y, m) == IF m = 13 THEN Ordinal(y + 1, 1, 1) ELSE Ordinal(y, m, 1)

DaysOf(y, m) == FirstOf(y, m + 1) - FirstOf(y, m)

\* NTPClient.cpp:174-192: whenever the program can ask, and whatever the offset, the
\* year, the month and the day that the loops count off are the calendar's, and that
\* year and that day are printed.  Of the month this says what is counted and not what
\* is printed: for a month below 10 line 193 prints something else, contrary to
\* NTPClient.h:92-93, "formatted to ISO 8601 like `2004-02-12T15:19:21+00:00`".
DateIsCounted ==
    pc = "idle" =>
        \A offset \in Offsets :
            LET time  == offset + getEpochTime
                month == CountedOff(time).month
                date  == getFormattedDate(time)
            IN /\ month \in 1 .. 12
               /\ Ordinal(date.year, month, date.day) = Ordinal(1970, 1, 1) + time \div Day
               /\ date.day \in 1 .. DaysOf(date.year, month)
=============================================================================
