---------------------------- MODULE ChronoValues -----------------------------
(***************************************************************************)
(* What the members of ClockTime, TimeSpan, Date, DateTime and Timestamp   *)
(* (core/chrono) compute.  Durations are counted in ticks of the system    *)
(* clock, of which a millisecond has several.                              *)
(***************************************************************************)
EXTENDS Integers, FiniteSetsExt

(***************************************************************************)
(* The civil calendar below nex::chrono: what std::chrono promises of      *)
(* year_month_day and sys_days, and the helpers of chrono_base.h.  A date  *)
(* is a record; sys_days is a number of days since 1 January 1970.         *)
(***************************************************************************)

(* The years that occur; a calculation never leaves them. *)
CONSTANT Years

ASSUME YearsAssumption == Years \subseteq 1 .. 9999

IsLeap(y) == y % 4 = 0 /\ (y % 100 # 0 \/ y % 400 = 0)

YearLength(y) == IF IsLeap(y) THEN 366 ELSE 365

IsValidYear(y) == y \in 1 .. 9999

IsValidMonth(m) == m \in 1 .. 12

(* daysInMonth(): 0 for a year or a month there is not *)
DaysInMonth(y, m) ==
  IF ~ IsValidYear(y) \/ ~ IsValidMonth(m) THEN 0
  ELSE IF m = 2 THEN IF IsLeap(y) THEN 29 ELSE 28
  ELSE IF m \in {4, 6, 9, 11} THEN 30 ELSE 31

Date(y, m, d) == [year |-> y, month |-> m, day |-> d]

(* Date::isValidDate *)
IsValidDate(date) ==
  /\ IsValidYear(date.year)
  /\ IsValidMonth(date.month)
  /\ date.day \in 1 .. DaysInMonth(date.year, date.month)

-----------------------------------------------------------------------------
(* std::chrono: sys_days{year_month_day} and back *)

DaysBeforeYear(y) ==
  365 * (y - 1970) + (y - 1) \div 4 - (y - 1) \div 100 + (y - 1) \div 400 - 477

DaysBeforeMonth(y, m) ==
  <<0, 31, 59, 90, 120, 151, 181, 212, 243, 273, 304, 334>>[m]
    + IF m > 2 /\ IsLeap(y) THEN 1 ELSE 0

SysDays(date) ==
  DaysBeforeYear(date.year) + DaysBeforeMonth(date.year, date.month) + date.day - 1

InYears(n) == \E y \in Years : n - DaysBeforeYear(y) \in 0 .. YearLength(y) - 1

CalendarDate(n) ==
  LET y == CHOOSE y \in Years : n - DaysBeforeYear(y) \in 0 .. YearLength(y) - 1
      dayOfYear == n - DaysBeforeYear(y)
      m == Max({k \in 1 .. 12 : DaysBeforeMonth(y, k) <= dayOfYear})
  IN Date(y, m, dayOfYear - DaysBeforeMonth(y, m) + 1)

(* year_month + months *)
MonthsLater(date, n) ==
  LET months == 12 * date.year + date.month - 1 + n
  IN [year |-> months \div 12, month |-> (months % 12) + 1]

-----------------------------------------------------------------------------

CONSTANTS HoursPerDay, MinutesPerHour, SecondsPerMinute, MillisPerSecond, TicksPerMilli

ASSUME ClockAssumption ==
  /\ {HoursPerDay, MinutesPerHour, SecondsPerMinute, MillisPerSecond, TicksPerMilli}
       \subseteq Nat \ {0}
  /\ HoursPerDay % 2 = 0

Milli == TicksPerMilli
Second == MillisPerSecond * Milli
Minute == SecondsPerMinute * Second
Hour == MinutesPerHour * Minute
Day == HoursPerDay * Hour

Size == [hour |-> Hour, minute |-> Minute, second |-> Second, milli |-> Milli]

(* What a component is the remainder of. *)
Whole == [hour |-> Day, minute |-> Hour, second |-> Minute, milli |-> Second]

Components == DOMAIN Size

Count(u) == Whole[u] \div Size[u]

(* duration_cast and % truncate towards zero, floor<Days> does not. *)
Quot(a, b) == IF a >= 0 THEN a \div b ELSE - ((- a) \div b)

Rem(a, b) == a - b * Quot(a, b)

FloorDays(t) == t \div Day

Sum(f) == MapThenSumSet(LAMBDA u : f[u] * Size[u], Components)

(* getHours() and the others, the same in ClockTime and DateTime *)
Component(t, u) == Quot(Rem(t, Whole[u]), Size[u])

ComponentsOf(t) == [u \in Components |-> Component(t, u)]

(* Mutated form: setting a component clears the smaller ones. *)
RecombineAbove(t, u, n) ==
  Sum([v \in Components |-> IF v = u THEN n
                            ELSE IF Size[v] < Size[u] THEN 0 ELSE Component(t, v)])

Recombine(t, u, n) == Sum([ComponentsOf(t) EXCEPT ![u] = n])

-----------------------------------------------------------------------------
(* ClockTime: ticks since midnight *)

WrapAround(t) == Rem(Rem(t, Day) + Day, Day)

ClockAdd(c, x) == WrapAround(c + x)

ClockSet(c, u, n) == WrapAround(Recombine(c, u, n))

(* ClockTime(TimePoint) *)
ClockOf(t) == WrapAround(t - Day * FloorDays(t))

-----------------------------------------------------------------------------
(* TimeSpan: a duration; days() is the whole of it, hours() and the others *)
(* are remainders of totals.                                               *)

Total(d, u) == Quot(d, Size[u])

SpanDays(d) == Quot(d, Day)

SpanComponent(d, u) == Rem(Total(d, u), Count(u))

-----------------------------------------------------------------------------
(* Date *)

IncreaseDays(date, n) == CalendarDate(SysDays(date) + n)

(* += TimeSpan *)
DateAdd(date, x) == CalendarDate(SysDays(date) + FloorDays(x))

(* -= TimeSpan rounds the negated span, so that it goes back by the days   *)
(* that the span has begun.                                                *)
DateSubtract(date, x) == CalendarDate(SysDays(date) + FloorDays(- x))

Elapsed(later, earlier) == (SysDays(later) - SysDays(earlier)) * Day

Clamped(y, m, d) == Date(y, m, Min({d, DaysInMonth(y, m)}))

IncreaseMonths(date, n) ==
  LET target == MonthsLater(date, n) IN Clamped(target.year, target.month, date.day)

(* Mutated form: the day is clamped to the month it was in. *)
IncreaseYearsUnclamped(date, n) ==
  Date(date.year + n, date.month, Min({date.day, DaysInMonth(date.year, date.month)}))

IncreaseYears(date, n) == Clamped(date.year + n, date.month, date.day)

-----------------------------------------------------------------------------
(* DateTime and Timestamp: ticks since the epoch *)

GetDate(t) == CalendarDate(FloorDays(t))

(* getClockTime() is built from hour(), minute(), second(), millisecond(). *)
GetClockTime(t) == WrapAround(Sum(ComponentsOf(t)))

Instant(date, ticks) == SysDays(date) * Day + ticks

SetDate(t, date) == Instant(date, t - Day * FloorDays(t))

SetClockTime(t, c) == Day * FloorDays(t) + c

SetComponent(t, u, n) == Day * FloorDays(t) + Recombine(t, u, n)
==============================================================================
