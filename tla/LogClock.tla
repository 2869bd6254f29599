------------------------------- MODULE LogClock -------------------------------
(***************************************************************************)
(* The time stamp of a log line: unixtime_to_cstr in                       *)
(* platform/osal/posix_src/osal.c turns seconds since 1970 into a date and *)
(* an hour utcoffset hours ahead of it.  Months and days count from 0, as  *)
(* they do there before they are printed.                                  *)
(***************************************************************************)
EXTENDS Integers, Sequences, FiniteSetsExt

CONSTANTS FirstYear, LastYear,    \* the years the clock passes through
          Instants                \* the seconds of a day at which it logs

utcoffset == 2

VARIABLES days,       \* since 1970
          today,      \* history: the date by the calendar
          second,     \* of the day, when a line was logged; -1 before
          shown       \* the stamp of that line

clockVars == <<days, today, second, shown>>

SECONDS_PER_MINUTE == 60
SECONDS_PER_HOUR == 60 * SECONDS_PER_MINUTE
SECONDS_PER_DAY == 24 * SECONDS_PER_HOUR

ASSUME ClockAssumption == /\ FirstYear \in Nat /\ 1970 <= FirstYear
                          /\ LastYear \in Nat /\ FirstYear <= LastYear
                          /\ \A instant \in Instants :
                               instant \in Nat /\ instant < SECONDS_PER_DAY

is_leap_year(year) == (year % 4 = 0 /\ year % 100 # 0) \/ year % 400 = 0
DaysPerYear(year) == IF is_leap_year(year) THEN 366 ELSE 365
days_per_month == <<31, 28, 31, 30, 31, 30, 31, 31, 30, 31, 30, 31>>

YearStarts[year \in 1970 .. LastYear + 1] ==
  IF year = 1970 THEN 0
  ELSE YearStarts[year - 1] + DaysPerYear(year - 1) * SECONDS_PER_DAY
----------------------------------------------------------------------------
(* unixtime_to_cstr                                                        *)

\* Mutant of SecondsPerMonth: no month is longer in a leap year.
SecondsPerMonth_NoLeapDay(month, year) == SECONDS_PER_DAY * days_per_month[month + 1]

(* With months that count from 0 it is March that gets the leap day.       *)
SecondsPerMonth(month, year) ==
  SECONDS_PER_DAY * (days_per_month[month + 1]
                       + IF month = 2 /\ is_leap_year(year) THEN 1 ELSE 0)

(* What is left of the seconds of a year behind each month, up to the one  *)
(* in which the loop ends; below zero they wrap around, and the loop goes  *)
(* on behind the end of the table.                                         *)
Left(ut, year) ==
  LET left[month \in 0 .. 11] ==
        IF month = 0 THEN ut ELSE left[month - 1] - SecondsPerMonth(month - 1, year)
  IN  left
Ends(left, month, year) ==
  left[month] <= days_per_month[month + 1] * SECONDS_PER_DAY
                   + IF is_leap_year(year) THEN 1 ELSE 0

(* How often a unit is taken away while more than one is left.             *)
Times(ut, unit) == IF ut = 0 THEN 0 ELSE (ut - 1) \div unit

NoDate == <<>>

(* The year, the month, and what the rest of the seconds make of them.     *)
YearOf(now) == CHOOSE y \in 1970 .. LastYear : YearStarts[y] <= now /\ now < YearStarts[y + 1]
MonthOf(left, year) == Min({m \in 0 .. 11 : Ends(left, m, year)})
Stamp(year, month, rest) ==
  LET day == Times(rest, SECONDS_PER_DAY)
      ofDay == rest - day * SECONDS_PER_DAY
      hour == Times(ofDay, SECONDS_PER_HOUR)
      ofHour == ofDay - hour * SECONDS_PER_HOUR
      minute == Times(ofHour, SECONDS_PER_MINUTE)
  IN  <<year, month, day, (hour + utcoffset) % 24, minute, ofHour - minute * SECONDS_PER_MINUTE>>

UnixtimeToCstr(now) ==
  LET year == YearOf(now)
      left == Left(now - YearStarts[year], year)
      month == MonthOf(left, year)
  IN  IF left[month] < 0 THEN NoDate ELSE Stamp(year, month, left[month])
----------------------------------------------------------------------------
ClockInit == /\ today = <<FirstYear, 0, 0>>
             /\ days = YearStarts[FirstYear] \div SECONDS_PER_DAY
             /\ second = -1 /\ shown = NoDate

(* The calendar, in which it is February that gets the leap day.           *)
DaysIn(month, year) == days_per_month[month + 1]
                         + IF month = 1 /\ is_leap_year(year) THEN 1 ELSE 0
DayAfter(date) ==
  LET year == date[1]
      month == date[2]
  IN  IF date[3] + 1 < DaysIn(month, year) THEN <<year, month, date[3] + 1>>
      ELSE IF month < 11 THEN <<year, month + 1, 0>>
      ELSE <<year + 1, 0, 0>>

Midnight == /\ DayAfter(today)[1] <= LastYear
            /\ today' = DayAfter(today)
            /\ days' = days + 1
            /\ second' = -1 /\ shown' = NoDate

do_sys_log(instant) == /\ second = -1
                       /\ second' = instant
                       /\ shown' = UnixtimeToCstr(days * SECONDS_PER_DAY + instant)
                       /\ UNCHANGED <<days, today>>

ClockNext == Midnight \/ \E instant \in Instants : do_sys_log(instant)

ClockSpec == ClockInit /\ [][ClockNext]_clockVars

DaysBefore(month, year) ==
  LET before[m \in 0 .. 11] == IF m = 0 THEN 0 ELSE before[m - 1] + DaysIn(m - 1, year)
  IN  before[month]

(* What a stamp says: the days before it and its time of day, added up.    *)
Denotes(date) ==
  YearStarts[date[1]] + (DaysBefore(date[2], date[1]) + date[3]) * SECONDS_PER_DAY
    + date[4] * SECONDS_PER_HOUR + date[5] * SECONDS_PER_MINUTE + date[6]

(* A date and a time of day; the code writes ":60" for the next ":00".     *)
OnCalendar(date) == /\ date[3] < DaysIn(date[2], date[1])
                    /\ date[4] < 24 /\ date[5] < 60 /\ date[6] <= 60

(* The errors of unixtime_to_cstr.  In the last hours of a UTC day the     *)
(* local day has begun, but (hour+utcoffset)%24 changes the hour only, and *)
(* the day before is printed.  The first second of a day is taken for the  *)
(* last one of the day before - but where the walk leaves nothing at all.  *)
NothingLeft == /\ second = 0 /\ today[3] = 0
               /\ today[2] = 0 \/ (today[2] = 3 /\ is_leap_year(today[1]))
DayBehind == \/ second > (24 - utcoffset) * SECONDS_PER_HOUR
             \/ second = 0 /\ ~NothingLeft

(* From the third second of February 29th to the end of March 31st months  *)
(* begin a day early, and on that last day the loop over them has no end.  *)
DayAhead == \/ today[2] = 1 /\ today[3] = 28 /\ second >= 2
            \/ is_leap_year(today[1]) /\ today[2] = 2
NoMonth == is_leap_year(today[1]) /\ today[2] = 2 /\ today[3] = 30 /\ second >= 2

(* In a leap year, second one of a month may be called a day too many of   *)
(* the month before: January 32nd.                                         *)
SecondOne == is_leap_year(today[1]) /\ second = 1

(* A stamp is a date and the local time, utcoffset hours ahead of UTC, at  *)
(* which the line was logged, except for the errors above: these put it a  *)
(* whole day behind, or ahead, or make it no date.                         *)
StampIsLocalTime ==
  second >= 0 =>
    LET local == days * SECONDS_PER_DAY + second + utcoffset * SECONDS_PER_HOUR
        ahead == IF DayAhead THEN SECONDS_PER_DAY ELSE 0
        behind == IF DayBehind THEN SECONDS_PER_DAY ELSE 0
    IN  IF NoMonth THEN shown = NoDate
        ELSE /\ Denotes(shown) = local + ahead - behind
             /\ SecondOne \/ OnCalendar(shown)
=============================================================================
