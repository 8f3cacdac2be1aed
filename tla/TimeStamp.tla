------------------------------- MODULE TimeStamp -------------------------------
(***************************************************************************)
(* getTimestamp (device/std/utils.cpp) beside a calendar that is walked    *)
(* day by day.  The seconds of a day are added to the days at the end, by  *)
(* the obvious polynomial, and are left out.                               *)
(***************************************************************************)
EXTENDS Integers

CONSTANTS
  FirstYear, LastYear   \* bounds: the years that are walked

ASSUME YearAssumption ==
  FirstYear \in Int /\ LastYear \in Int /\ FirstYear >= 1970

VARIABLES
  year, mon, mday,  \* today
  elapsed           \* days since the first of January of FirstYear

timeVars == <<year, mon, mday, elapsed>>
-----------------------------------------------------------------------------
(* The code.  Division of int rounds towards zero, that of TLA+ down. *)

IntDiv(a, b) == IF a >= 0 THEN a \div b ELSE -((-a) \div b)

ytd == <<0, 31, 59, 90, 120, 151, 181, 212, 243, 273, 304, 334>>

leapyears(y) ==
  IntDiv((y - 1) - 1968, 4) - IntDiv((y - 1) - 1900, 100)
    + IntDiv((y - 1) - 1600, 400)

IsLeapYear(y) == y % 4 = 0 /\ (y % 100 # 0 \/ y % 400 = 0)

(* With the leap day counted before it has come *)
days_with_early_leap_day(y, m, d) ==
  (y - 1970) * 365 + leapyears(y) + ytd[m] + d - 1
    + (IF m >= 2 /\ IsLeapYear(y) THEN 1 ELSE 0)

days_since_1970(y, m, d) ==
  (y - 1970) * 365 + leapyears(y) + ytd[m] + d - 1
    + (IF m > 2 /\ IsLeapYear(y) THEN 1 ELSE 0)
-----------------------------------------------------------------------------
(* The calendar, by its rules *)

DaysOf(y, m) ==
  CASE m \in {4, 6, 9, 11} -> 30
    [] m = 2 -> IF y % 4 = 0 /\ ~(y % 100 = 0 /\ y % 400 # 0) THEN 29 ELSE 28
    [] OTHER -> 31

TimeInit == year = FirstYear /\ mon = 1 /\ mday = 1 /\ elapsed = 0

NextDay ==
  /\ mday < DaysOf(year, mon)
  /\ mday' = mday + 1 /\ elapsed' = elapsed + 1
  /\ UNCHANGED <<year, mon>>

NextMonth ==
  /\ mday = DaysOf(year, mon) /\ mon < 12
  /\ mday' = 1 /\ mon' = mon + 1 /\ elapsed' = elapsed + 1
  /\ UNCHANGED year

NextYear ==
  /\ mday = 31 /\ mon = 12 /\ year < LastYear
  /\ mday' = 1 /\ mon' = 1 /\ year' = year + 1 /\ elapsed' = elapsed + 1

TimeNext == NextDay \/ NextMonth \/ NextYear

TimeSpec == TimeInit /\ [][TimeNext]_timeVars
-----------------------------------------------------------------------------
(* Two time stamps differ by the days between them, from 1970 on: no day   *)
(* is skipped or counted twice, at the ends of months and centuries too.   *)
CountsDays ==
  /\ days_since_1970(year, mon, mday) = days_since_1970(FirstYear, 1, 1) + elapsed
  /\ days_since_1970(1970, 1, 1) = 0
=============================================================================
