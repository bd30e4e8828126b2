------------------------------- MODULE Chrono -------------------------------
(***************************************************************************)
(* An object of one of the chrono classes and its mutating members.        *)
(* NEX_ASSERT states the preconditions of the members; callers keep them.  *)
(***************************************************************************)
EXTENDS ChronoText

CONSTANTS
  Spans,      \* durations that are added and subtracted, in ticks
  DaySteps,   \* numbers of days, months and years that move a date
  MonthSteps,
  YearSteps,
  DayWindow,  \* bound: the days (since the epoch) that a DateTime lies on
  MaxSpan     \* bound on the duration of a TimeSpan, in ticks

VARIABLES class, value
ChronoVars == <<class, value>>

Classes == {"ClockTime", "TimeSpan", "Date", "DateTime"}

InWindow(t) == FloorDays(t) \in DayWindow

Bounded(d) == d \in - MaxSpan .. MaxSpan

ChronoInit ==
  /\ class \in Classes
  /\ value \in IF class = "Date" THEN {Date(y, 1, 1) : y \in Years} ELSE {0}

Become(c, v) == class = c /\ value' = v /\ UNCHANGED class

(* += and -=, ++ and --, increaseHours() and the others *)
MoveClock(x) == Become("ClockTime", ClockAdd(value, x))

SetClock(u, n) == Become("ClockTime", ClockSet(value, u, n))

RereadClock(withMillis, twelveHours) ==
  Become("ClockTime", ClockFromString(ClockToString(value, withMillis, twelveHours)))

MoveSpan(x) ==
  /\ class = "TimeSpan"
  /\ Bounded(value + x)
  /\ Become("TimeSpan", value + x)

RereadSpan(f) == Become("TimeSpan", SpanFromString(SpanToString(value, f)))

MoveDays(n) ==
  /\ class = "Date"
  /\ InYears(SysDays(value) + n)
  /\ Become("Date", IncreaseDays(value, n))

MoveDateBy(x) ==
  /\ class = "Date"
  /\ InYears(SysDays(value) + FloorDays(x))
  /\ Become("Date", DateAdd(value, x))

MoveDateBackBy(x) ==
  /\ class = "Date"
  /\ InYears(SysDays(value) + FloorDays(- x))
  /\ Become("Date", DateSubtract(value, x))

MoveMonths(n) ==
  /\ class = "Date"
  /\ MonthsLater(value, n).year \in Years
  /\ Become("Date", IncreaseMonths(value, n))

MoveYears(n) ==
  /\ class = "Date"
  /\ value.year + n \in Years
  /\ Become("Date", IncreaseYears(value, n))

(* setYear(), setMonth(), setDay(), of a date that has such a day *)
SetDatePart(part, n) ==
  /\ class = "Date"
  /\ IsValidDate([value EXCEPT ![part] = n])
  /\ Become("Date", [value EXCEPT ![part] = n])

RereadDate(order) == Become("Date", DateFromString(DateToString(value, order)))

MoveInstant(x) ==
  /\ class = "DateTime"
  /\ InWindow(value + x)
  /\ Become("DateTime", value + x)

SetInstantDate(n) == Become("DateTime", SetDate(value, CalendarDate(n)))

SetInstantDatePart(part, n) ==
  /\ class = "DateTime"
  /\ IsValidDate([GetDate(value) EXCEPT ![part] = n])
  /\ InWindow(SetDate(value, [GetDate(value) EXCEPT ![part] = n]))
  /\ Become("DateTime", SetDate(value, [GetDate(value) EXCEPT ![part] = n]))

SetInstantClock(c) == Become("DateTime", SetClockTime(value, c))

SetInstantComponent(u, n) ==
  /\ class = "DateTime"
  /\ InWindow(SetComponent(value, u, n))
  /\ Become("DateTime", SetComponent(value, u, n))

RereadInstant(f) == Become("DateTime", InstantFromString(InstantToString(value, f)))

ClockNext ==
  \/ \E x \in Spans : MoveClock(x)
  \/ \E u \in Components : \E n \in 0 .. Count(u) - 1 : SetClock(u, n)
  \/ \E withMillis, twelveHours \in BOOLEAN : RereadClock(withMillis, twelveHours)

SpanNext ==
  \/ \E x \in Spans : MoveSpan(x)
  \/ \E f \in SpanFormats : RereadSpan(f)

DateNext ==
  \/ \E n \in DaySteps : MoveDays(n)
  \/ \E x \in Spans : MoveDateBy(x) \/ MoveDateBackBy(x)
  \/ \E n \in MonthSteps : MoveMonths(n)
  \/ \E n \in YearSteps : MoveYears(n)
  \/ \E y \in Years : SetDatePart("year", y)
  \/ \E m \in 1 .. 12 : SetDatePart("month", m)
  \/ \E d \in 1 .. 31 : SetDatePart("day", d)
  \/ \E order \in {"iso", "us", "compact"} : RereadDate(order)

InstantNext ==
  \/ \E x \in Spans : MoveInstant(x)
  \/ \E n \in DayWindow : SetInstantDate(n)
  \/ \E y \in Years : SetInstantDatePart("year", y)
  \/ \E m \in 1 .. 12 : SetInstantDatePart("month", m)
  \/ \E d \in 1 .. 31 : SetInstantDatePart("day", d)
  \/ \E c \in 0 .. Day - 1 : SetInstantClock(c)
  \/ \E u \in Components : \E n \in 0 .. Count(u) - 1 : SetInstantComponent(u, n)
  \/ \E f \in InstantFormats : RereadInstant(f)

ChronoNext == ClockNext \/ SpanNext \/ DateNext \/ InstantNext

-----------------------------------------------------------------------------
(* Properties *)

(* What is left of a value written in multiples of a unit. *)
WholeUnits(t, unit) == t - (t % unit)

ValueOfClass ==
  /\ class \in Classes
  /\ class = "ClockTime" => value \in 0 .. Day - 1
  /\ class = "TimeSpan" => Bounded(value)
  /\ class = "Date" => IsValidDate(value) /\ value.year \in Years
  /\ class = "DateTime" => InWindow(value)

(* increaseYears() and increaseMonths(), which clamp the day each in its   *)
(* own way, agree; moving by months and back returns to the day, or to an  *)
(* earlier one where the month between is shorter; the order of two days   *)
(* is kept, and a month has 28 to 31 days.                                 *)
CalendarAgrees ==
  class = "Date" =>
    /\ \A n \in YearSteps : value.year + n \in Years =>
         IncreaseYears(value, n) = IncreaseMonths(value, 12 * n)
    /\ \A n \in MonthSteps : MonthsLater(value, n).year \in Years =>
         LET there == IncreaseMonths(value, n)
             back == IncreaseMonths(there, - n)
             next == IncreaseDays(value, 1)
         IN /\ n >= 0 => SysDays(there) - SysDays(value) \in 28 * n .. 31 * n
            /\ IF value.day <= 28 THEN back = value ELSE SysDays(value) - SysDays(back) \in 0 .. 3
            /\ InYears(SysDays(value) + 1) /\ MonthsLater(next, n).year \in Years =>
                 SysDays(there) <= SysDays(IncreaseMonths(next, n))

(* A time of day stays between midnight and midnight, whatever is added,   *)
(* subtracted or set, a date is a day that the calendar has, and a text    *)
(* that toString() wrote makes a value of its class again.  Setting one    *)
(* component changes it and no other, down to the millisecond; a DateTime  *)
(* keeps its date, or its time of day when the date is set; before 1970    *)
(* this is not so.  The classes measure the same time: a TimeSpan is the   *)
(* sum of its components, whatever its sign; the difference of two times or*)
(* dates leads from one to the other; the date and the time of day of a    *)
(* DateTime make it up again, also before 1970, and move when it moves.    *)
TimeIsConsistent ==
  /\ ValueOfClass
  /\ class = "ClockTime" => \A u \in Components : \A n \in 0 .. Count(u) - 1 :
       ComponentsOf(ClockSet(value, u, n)) = [ComponentsOf(value) EXCEPT ![u] = n]
  /\ class = "DateTime" /\ value >= 0 =>
       /\ \A u \in Components : \A n \in 0 .. Count(u) - 1 :
            LET set == SetComponent(value, u, n)
            IN /\ ComponentsOf(set) = [ComponentsOf(value) EXCEPT ![u] = n]
               /\ GetDate(set) = GetDate(value)
       /\ \A n \in DayWindow :
            LET set == SetDate(value, CalendarDate(n))
            IN GetDate(set) = CalendarDate(n) /\ ClockOf(set) = ClockOf(value)
  /\ class = "TimeSpan" =>
       value = SpanDays(value) * Day + Sum([u \in Components |-> SpanComponent(value, u)])
                 + Rem(value, Milli)
  /\ class = "ClockTime" => \A other \in 0 .. Day - 1 :
       ClockAdd(other, value - other) = value
  /\ class = "Date" => \A y \in Years :
       DateAdd(Date(y, 1, 1), Elapsed(value, Date(y, 1, 1))) = value
  /\ class = "DateTime" =>
       /\ value % Milli = 0 => Instant(GetDate(value), GetClockTime(value)) = value
       /\ Instant(GetDate(value), ClockOf(value)) = value
       /\ \A x \in Spans : InWindow(value + x) =>
            /\ ClockOf(value + x) = ClockAdd(ClockOf(value), x)
            /\ x % Day = 0 => GetDate(value + x) = DateAdd(GetDate(value), x)

(* fromString() reads what toString() wrote: a time of day and a DateTime  *)
(* from 1970 on, to the precision that was written, in every format; a     *)
(* Date in every format; a TimeSpan that is not negative, in words only    *)
(* where no part is zero.                                                  *)
TextRoundTrips ==
  /\ class = "ClockTime" => \A withMillis, twelve \in BOOLEAN :
       ClockFromString(ClockToString(value, withMillis, twelve))
         = WholeUnits(value, IF withMillis THEN Milli ELSE Second)
  /\ class = "Date" => \A order \in {"iso", "us", "compact"} :
       DateFromString(DateToString(value, order)) = value
  /\ class = "DateTime" /\ value >= 0 => \A f \in InstantFormats :
       InstantFromString(InstantToString(value, f))
         = WholeUnits(value, IF f.millis THEN Milli ELSE Second)
  /\ class = "TimeSpan" /\ value >= 0 => \A f \in SpanFormats :
       f # "default" \/ Len(Words(value)) = 4 =>
         SpanFromString(SpanToString(value, f))
           = WholeUnits(value, IF f = "compact_ms" THEN Milli ELSE Second)
=============================================================================
