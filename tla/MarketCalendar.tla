--------------------------- MODULE MarketCalendar ---------------------------
(***************************************************************************)
(* The exchange calendar (src/market/calendar.cpp): the trading sessions of *)
(* a range of years, made from the holiday rules, and the look-ups on them. *)
(* A date is the number of days since 1 January 2000, as the calendar of    *)
(* the standard library counts them (exact up to 2099); an instant is a     *)
(* number of half hours since then, in UTC.                                 *)
(***************************************************************************)
EXTENDS Integers, Sequences, FiniteSets

CONSTANTS Exceptions,   \* CalendarSpec::exceptions: records [date, kind]
          YearRanges,   \* pairs of first and last year, asked for
          AskedAt       \* half hours of a day at which questions are asked

VARIABLES years,        \* the range built, or none
          question,     \* the last instant asked about: [year, month, day, at]
          found         \* what the calendar answered

calendarVars == <<years, question, found>>

NoAnswer == [kind |-> "none"]

-----------------------------------------------------------------------------
(* Dates (std::chrono).                                                    *)

MonthDays(y, m) ==
  IF m = 2 THEN (IF y % 4 = 0 THEN 29 ELSE 28) ELSE IF m \in {4, 6, 9, 11} THEN 30 ELSE 31

DaysBefore(y, m) == <<0, 31, 59, 90, 120, 151, 181, 212, 243, 273, 304, 334>>[m]
                    + (IF m > 2 /\ y % 4 = 0 THEN 1 ELSE 0)

DateOf(y, m, d) == 365 * (y - 2000) + ((y - 2000 + 3) \div 4) + DaysBefore(y, m) + d - 1

\* 1 is Monday; 1 January 2000 was a Saturday.
Weekday(date) == ((date + 5) % 7) + 1

YearOf(date, near) == IF date < DateOf(near, 1, 1) THEN near - 1
                      ELSE IF date >= DateOf(near + 1, 1, 1) THEN near + 1 ELSE near

-----------------------------------------------------------------------------
(* The rules.                                                              *)

Easter(y) ==
  LET a == y % 19        b == y \div 100       c == y % 100
      g == (b - ((b + 8) \div 25) + 1) \div 3
      h == ((19 * a) + b - (b \div 4) - g + 15) % 30
      l == (32 + 2 * (b % 4) + 2 * (c \div 4) - h - (c % 4)) % 7
      m == (a + (11 * h) + (22 * l)) \div 451
      n == h + l - (7 * m) + 114
  IN  DateOf(y, n \div 31, (n % 31) + 1)

NthWeekday(y, month, weekday, n) ==
  LET first == DateOf(y, month, 1)
      last == first + MonthDays(y, month) - 1
  IN  IF n > 0 THEN first + ((weekday + 7 - Weekday(first)) % 7) + 7 * (n - 1)
      ELSE last - ((Weekday(last) + 7 - weekday) % 7) - 7 * (-n - 1)

Observed(date) ==
  CASE Weekday(date) = 6 -> date - 1 [] Weekday(date) = 7 -> date + 1 [] OTHER -> date

\* Compared by date: the switch is on a Sunday, when nothing trades.
IsDaylightTime(date, y) ==
  date >= NthWeekday(y, 3, 7, 2) /\ date < NthWeekday(y, 11, 7, 1)

RegularHolidays(y) ==
  {Observed(DateOf(y, 1, 1)), NthWeekday(y, 1, 1, 3), NthWeekday(y, 2, 1, 3), Easter(y) - 2,
   NthWeekday(y, 5, 1, -1), Observed(DateOf(y, 7, 4)), NthWeekday(y, 9, 1, 1),
   NthWeekday(y, 11, 4, 4), Observed(DateOf(y, 12, 25))}
  \cup (IF y >= 2022 THEN {Observed(DateOf(y, 6, 19))} ELSE {})

\* Slip: the next New Year belongs to the next year.
HolidaysOfTheYear(y) == RegularHolidays(y)

\* The next New Year, when it is observed in this year.
FullHolidays(y) ==
  RegularHolidays(y) \cup {date \in {Observed(DateOf(y + 1, 1, 1))} : YearOf(date, y) = y}

HalfDays(y) ==
  LET july3 == DateOf(y, 7, 3)
      eve == DateOf(y, 12, 24)
      weekday(date) == Weekday(date) <= 5
  IN  {NthWeekday(y, 11, 4, 4) + 1}
      \cup {date \in {july3} : weekday(date) /\ weekday(date + 1) /\ date \notin FullHolidays(y)}
      \cup {date \in {eve} : weekday(date) /\ date \notin FullHolidays(y)}

-----------------------------------------------------------------------------
(* Calendar::build, one date at a time, and the look-ups.                  *)

KindOf(date, y) ==
  IF \E e \in Exceptions : e.date = date
  THEN (CHOOSE e \in Exceptions : e.date = date).kind
  ELSE IF Weekday(date) >= 6 \/ date \in FullHolidays(y) THEN "closed"
  ELSE IF date \in HalfDays(y) THEN "half_day" ELSE "regular"

\* 9:30 to 16:00 or 13:00 in New York.
SessionOf(date, y) ==
  LET kind == KindOf(date, y)
      utc == 48 * date + (IF IsDaylightTime(date, y) THEN 8 ELSE 10)
  IN  IF kind = "closed" THEN [date |-> date, kind |-> kind]
      ELSE [date |-> date, kind |-> kind, open |-> utc + 19,
            close |-> utc + (IF kind = "half_day" THEN 26 ELSE 32)]

RangeBegin == DateOf(years[1], 1, 1)
RangeEnd == DateOf(years[2], 12, 31)

\* find_by_date(): none outside the range.
SessionOn(date, y) ==
  IF date \in RangeBegin..RangeEnd THEN SessionOf(date, YearOf(date, y)) ELSE NoAnswer

SessionContains(session, instant) ==
  session.kind \in {"regular", "half_day"} /\ session.open <= instant /\ instant < session.close

\* The date of an instant in UTC need not be its date at the exchange.
SessionContaining(instant, y) ==
  LET near == {SessionOn(instant \div 48 + offset, y) : offset \in {-1, 0, 1}}
      containing == {session \in near : SessionContains(session, instant)}
  IN  IF containing = {} THEN NoAnswer ELSE CHOOSE session \in containing : TRUE

\* The nearest open session on a later or an earlier date.
OpenSessionFrom(date, step, y) ==
  LET Search[d \in (RangeBegin - 1)..(RangeEnd + 1)] ==
        IF d \notin RangeBegin..RangeEnd THEN NoAnswer
        ELSE IF SessionOn(d, y).kind # "closed" THEN SessionOn(d, y) ELSE Search[d + step]
  IN  Search[date]

-----------------------------------------------------------------------------
\* A range that runs backwards, or begins before the daylight rule of 2007, is refused.
BuildCalendar(range) ==
  /\ years = <<>>
  /\ years' = IF range[2] < range[1] \/ range[1] < 2008 THEN <<>> ELSE range
  /\ UNCHANGED <<question, found>>

Ask(y, month, day, at) ==
  LET date == DateOf(y, month, day)
      instant == 48 * date + at
  IN  /\ years # <<>> /\ question = <<>>
      /\ question' = <<y, month, day, at>>
      /\ found' = [on |-> SessionOn(date, y),
                   containing |-> SessionContaining(instant, y),
                   after |-> OpenSessionFrom(date + 1, 1, y),
                   before |-> OpenSessionFrom(date - 1, -1, y)]
      /\ UNCHANGED years

CalendarInit == years = <<>> /\ question = <<>> /\ found = <<>>

CalendarNext ==
  \/ \E range \in YearRanges : BuildCalendar(range)
  \/ /\ years # <<>>
     /\ \E y \in years[1]..years[2], month \in 1..12, at \in AskedAt :
          \E day \in 1..MonthDays(y, month) : Ask(y, month, day, at)

CalendarSpec == CalendarInit /\ [][CalendarNext]_calendarVars

-----------------------------------------------------------------------------
\* The calendar agrees with the exchange's own statement of its rules, which names
\* the day of the month a holiday falls on instead of counting weeks, moves one off
\* the weekend by looking at the neighbouring days, over the end of a year too, and
\* takes Easter from the tabular full moon: exactly those dates are closed.  The
\* sessions before and after a date leave out no trading day between them, sessions
\* never overlap, and an instant is in a session of its own date in New York.
CalendarFollowsRules ==
  LET y == question[1]       m == question[2]       d == question[3]
      date == DateOf(y, m, d)
      wd == Weekday(date)
      Fixed == {<<1, 1>>, <<7, 4>>, <<12, 25>>} \cup (IF y >= 2022 THEN {<<6, 19>>} ELSE {})
      neighbours == (IF wd \in 1..5 THEN {<<m, d>>} ELSE {})
                    \cup (IF wd = 1 THEN {<<m, d - 1>>} ELSE {})
                    \cup (IF wd = 5 THEN {IF m = 12 /\ d = 31 THEN <<1, 1>> ELSE <<m, d + 1>>} ELSE {})
      moon == 21 + ((225 - 11 * (y % 19) - 21) % 30)
      fullMoon == IF moon > 48 THEN moon - 1 ELSE moon
      easterInMarch == fullMoon + 7 - ((y + (y \div 4) + fullMoon + 1) % 7)
      isGoodFriday == date + 2 = DateOf(y, 3, 1) + easterInMarch - 1
      isMonday == wd = 1 /\ \/ m \in {1, 2} /\ d \in 15..21
                            \/ m = 5 /\ d \in 25..31
                            \/ m = 9 /\ d \in 1..7
      isThanksgiving == wd = 4 /\ m = 11 /\ d \in 22..28
      excepted == {e \in Exceptions : e.date = date}
      shut == \/ wd \in {6, 7} \/ neighbours \cap Fixed # {}
              \/ isGoodFriday \/ isMonday \/ isThanksgiving
      opens == found.on.kind \in {"regular", "half_day"}
  IN  question # <<>> =>
        /\ excepted = {} => (opens <=> ~shut)
        /\ found.containing # NoAnswer =>
             /\ SessionContains(found.containing, 48 * date + question[4])
             /\ found.containing.date = (48 * date + question[4] - 8) \div 48
        /\ found.containing = NoAnswer /\ opens =>
             ~(found.on.open <= 48 * date + question[4] /\ 48 * date + question[4] < found.on.close)
        /\ found.after # NoAnswer /\ found.before # NoAnswer =>
             /\ found.before.date < date /\ date < found.after.date
             /\ \A between \in (found.before.date + 1)..(found.after.date - 1) :
                  between # date => SessionOn(between, y).kind = "closed"
             /\ opens => found.before.close < found.on.open /\ found.on.close < found.after.open
=============================================================================
