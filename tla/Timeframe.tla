------------------------------ MODULE Timeframe ------------------------------
(***************************************************************************)
(* resolve_timeframe() of app/services/timeframe.py: a phrase and today's  *)
(* date become a half-open range of dates, or TimeframeError, or an        *)
(* exception nobody expects if a date leaves the calendar.  A date is its  *)
(* proleptic Gregorian ordinal, as in Python's datetime.                   *)
(***************************************************************************)
EXTENDS Integers

CONSTANTS MinYear, MaxYear   \* datetime.MINYEAR and MAXYEAR, 1 and 9999

ASSUME CalendarAssumption == MinYear \in Nat \ {0} /\ MaxYear \in Nat /\ MinYear <= MaxYear

Units == {"day", "week", "month", "quarter", "year"}

-----------------------------------------------------------------------------
\* The calendar.
Leap(year) == year % 4 = 0 /\ (year % 100 # 0 \/ year % 400 = 0)

DaysInMonth(year, month) ==
    CASE month = 2 -> IF Leap(year) THEN 29 ELSE 28
      [] month \in {4, 6, 9, 11} -> 30
      [] OTHER -> 31

DaysBeforeYear(year) ==
    365 * (year - 1) + (year - 1) \div 4 - (year - 1) \div 100 + (year - 1) \div 400

DaysBeforeMonth(year, month) ==
    <<0, 31, 59, 90, 120, 151, 181, 212, 243, 273, 304, 334>>[month]
        + IF month > 2 /\ Leap(year) THEN 1 ELSE 0

\* date(year, month, day)
Date(year, month, day) == DaysBeforeYear(year) + DaysBeforeMonth(year, month) + day

FirstDate == Date(MinYear, 1, 1)   \* date.min and date.max
LastDate  == Date(MaxYear, 12, 31)

InCalendar(date) == FirstDate <= date /\ date <= LastDate

Calendar == FirstDate..LastDate

\* The parts of a date of the calendar.
Year ==
    [date \in Calendar |->
        CHOOSE y \in MinYear..MaxYear : DaysBeforeYear(y) < date /\ date <= DaysBeforeYear(y + 1)]

Month ==
    [date \in Calendar |->
        LET year == Year[date]
        IN  CHOOSE m \in 1..12 :
                Date(year, m, 1) <= date /\ date < Date(year, m, 1) + DaysInMonth(year, m)]

Day(date) == date - Date(Year[date], Month[date], 1) + 1

\* Monday is 0.
Weekday(date) == (date + 6) % 7

-----------------------------------------------------------------------------
QuarterStart(date) == Date(Year[date], 3 * ((Month[date] - 1) \div 3) + 1, 1)

\* Mutation of AddMonths: months are counted from 1.
AddMonthsFromOne(date, months) ==
    LET total == Year[date] * 12 + Month[date] + months
    IN  Date(total \div 12, (total % 12) + 1, 1)

\* _add_months(): the first of a month.
AddMonths(date, months) ==
    LET total == Year[date] * 12 + (Month[date] - 1) + months
    IN  Date(total \div 12, (total % 12) + 1, 1)

\* week_start, month_start, quarter_start, year_start
Start(unit, today) ==
    CASE unit = "week"    -> today - Weekday(today)
      [] unit = "month"   -> Date(Year[today], Month[today], 1)
      [] unit = "quarter" -> QuarterStart(today)
      [] unit = "year"    -> Date(Year[today], 1, 1)
      [] unit = "day"     -> today

\* The start of the n-th unit after the one that starts at `start`.
Shifted(unit, start, n) ==
    CASE unit = "day"     -> start + n
      [] unit = "week"    -> start + 7 * n
      [] unit = "month"   -> AddMonths(start, n)
      [] unit = "quarter" -> AddMonths(start, 3 * n)
      [] unit = "year"    -> Date(Year[start] + n, 1, 1)

TimeRange(start, end, grain) == [start |-> start, end |-> end, grain |-> grain]

\* The phrases of the dictionary; "today" and "yesterday" are this and last day.
This(unit, today) == TimeRange(Start(unit, today), Shifted(unit, Start(unit, today), 1), unit)

Last(unit, today) == TimeRange(Shifted(unit, Start(unit, today), -1), Start(unit, today), unit)

ToDate(today) == TimeRange(Start("year", today), today + 1, "day")

Fixed(today) ==
    {This(u, today) : u \in Units} \cup {Last(u, today) : u \in Units} \cup {ToDate(today)}

\* "last 30 days", "past 6 months": up to and including today.
LastCount(unit, count, today) ==
    LET end == today + 1
    IN  TimeRange(CASE unit = "day"   -> end - count
                [] unit = "week"  -> end - 7 * count
                [] unit = "month" -> AddMonths(end, -count)
                [] unit = "year"  -> AddMonths(end, -12 * count), end, unit)

-----------------------------------------------------------------------------
\* What a phrase says: "this u", "last u", "year to date", "last n us", or
\* something else.
Phrases(Counts) ==
    [says : {"this", "last"}, unit : Units] \cup
    [says : {"last count"}, unit : Units \ {"quarter"}, count : Counts] \cup
    [says : {"to date", "other"}]

Refused == [status |-> "refused"]   \* TimeframeError
Raised  == [status |-> "raised"]    \* ValueError, OverflowError

\* TimeRange.__post_init__, and the dates themselves.
Resolved(range) ==
    IF ~(InCalendar(range.start) /\ InCalendar(range.end)) THEN Raised
    ELSE IF range.end <= range.start THEN Refused
    ELSE [status |-> "range", range |-> range]

\* The whole dictionary is made whatever the phrase is.
ResolveTimeframe(phrase, today) ==
    IF \E range \in Fixed(today) : Resolved(range) = Raised THEN Raised
    ELSE CASE phrase.says = "this"    -> Resolved(This(phrase.unit, today))
           [] phrase.says = "last"    -> Resolved(Last(phrase.unit, today))
           [] phrase.says = "to date" -> Resolved(ToDate(today))
           [] phrase.says = "other"   -> Refused
           [] phrase.says = "last count" ->
                IF phrase.count < 1 THEN Refused
                ELSE Resolved(LastCount(phrase.unit, phrase.count, today))

-----------------------------------------------------------------------------
\* Properties of one call.

\* The same day n months before, or the last day of a shorter month.
SameDayBefore(date, months) ==
    LET total == Year[date] * 12 + Month[date] - 1 - months
        last  == DaysInMonth(total \div 12, (total % 12) + 1)
    IN  Date(total \div 12, (total % 12) + 1, IF Day(date) <= last THEN Day(date) ELSE last)

WholeUnitsAgo(unit, date, n) ==
    CASE unit = "day"   -> date - n
      [] unit = "week"  -> date - 7 * n
      [] unit = "month" -> SameDayBefore(date, n)
      [] unit = "year"  -> SameDayBefore(date, 12 * n)

\* Ranges hold the periods they name, to the day.  "This u" holds today; "last u"
\* ends where it begins, and is what "this u" was the day before, so that no row is
\* in both and none in neither; "last n us" ends with today and leaves out nothing
\* of the last n whole us.
RangeIsWhole(range, phrase, today) ==
    LET Current(day) == ResolveTimeframe([says |-> "this", unit |-> phrase.unit], day)
    IN  CASE phrase.says = "this" -> today \in range.start..(range.end - 1)
          [] phrase.says = "last" ->
               /\ range.end = Current(today).range.start
               /\ Current(range.end - 1) \in {[status |-> "range", range |-> range], Raised}
          [] phrase.says = "last count" ->
               /\ range.end = today + 1
               /\ range.start <= WholeUnitsAgo(phrase.unit, today + 1, phrase.count)
          [] phrase.says = "to date" -> range.end = today + 1 /\ Year[range.start] = Year[today]
=============================================================================
