----------------------------- MODULE ChronoText -----------------------------
(***************************************************************************)
(* toString() and fromString() of the chrono classes.  A text is a record  *)
(* of what fromString()'s expressions tell apart: which notation it is,    *)
(* the number in each place, and how many digits it has where that         *)
(* matters.  Numbers are negative where toString() prints a minus sign;    *)
(* the expressions match no such text.                                     *)
(***************************************************************************)
EXTENDS ChronoValues, Sequences

(* Stands for a place that a notation does not have. *)
Absent == -1

Digits(n) == IF n < 10 THEN 1 ELSE IF n < 100 THEN 2 ELSE IF n < 1000 THEN 3 ELSE 4

-----------------------------------------------------------------------------
(* The time of day: hours, minutes, seconds, a fraction or none, and AM or *)
(* PM or neither.                                                          *)

HalfDay == HoursPerDay \div 2

(* Milliseconds are padded to three digits; a fraction that is shorter     *)
(* counts tenths or hundredths.                                            *)
Fraction(ms) ==
  [digits |-> Digits(ms) + (IF ms < 10 THEN 2 ELSE IF ms < 100 THEN 1 ELSE 0), number |-> ms]

NoFraction == [digits |-> 0, number |-> 0]

FractionValue(f) == f.number * (<<1, 100, 10, 1>>[f.digits + 1])

(* c is a function from Components to numbers. *)
ClockText(c, withMillis, twelveHours) ==
  [hour |-> IF ~ twelveHours THEN c["hour"]
            ELSE IF Rem(c["hour"], HalfDay) = 0 THEN HalfDay ELSE Rem(c["hour"], HalfDay),
   minute |-> c["minute"], second |-> c["second"],
   fraction |-> IF withMillis THEN Fraction(c["milli"]) ELSE NoFraction,
   half |-> IF ~ twelveHours THEN "" ELSE IF c["hour"] < HalfDay THEN "AM" ELSE "PM"]

(* Mutated form: 12 AM is read as noon. *)
HourOfBlind(text) == IF text.half = "PM" /\ text.hour # HalfDay THEN text.hour + HalfDay
                     ELSE text.hour

HourOf(text) ==
  IF text.half = "PM" /\ text.hour # HalfDay THEN text.hour + HalfDay
  ELSE IF text.half = "AM" /\ text.hour = HalfDay THEN 0
  ELSE text.hour

Matches(text) == text.hour >= 0 /\ text.minute >= 0 /\ text.second >= 0

ReadClock(text) ==
  [hour |-> HourOf(text), minute |-> text.minute, second |-> text.second,
   milli |-> FractionValue(text.fraction)]

IsValidTime(c) == \A u \in Components : c[u] \in 0 .. Count(u) - 1

ClockToString(c, withMillis, twelveHours) ==
  ClockText(ComponentsOf(c), withMillis, twelveHours)

(* Midnight where the text is none of the notations. *)
ClockFromString(text) ==
  IF Matches(text) /\ IsValidTime(ReadClock(text)) THEN Sum(ReadClock(text)) ELSE 0

-----------------------------------------------------------------------------
(* Dates: ISO (year first), US (month first), compact (no separators).     *)
(* Date pads a year to four digits, DateTime does not, and both read four. *)

DateText(date, order, digits) == [order |-> order, digits |-> digits, date |-> date]

DateToString(date, order) == DateText(date, order, Max({4, Digits(date.year)}))

(* An empty Date where the text is none. *)
NoDate == Date(0, 0, 0)

DateFromString(text) ==
  IF text.digits = 4 /\ IsValidDate(text.date) THEN text.date ELSE NoDate

(* default, iso (with or without milliseconds), us and us_12h *)
InstantFormats ==
  [order : {"iso"}, millis : BOOLEAN, twelve : {FALSE}]
    \cup [order : {"us"}, millis : {FALSE}, twelve : BOOLEAN]

InstantToString(t, f) ==
  [date |-> DateText(GetDate(t), f.order, Digits(GetDate(t).year)),
   clock |-> ClockText(ComponentsOf(t), f.millis, f.twelve)]

(* The epoch where the text is none of the notations. *)
InstantFromString(text) ==
  IF /\ text.date.digits = 4
     /\ Matches(text.clock)
     /\ IsValidDate(text.date.date)
     /\ IsValidTime(ReadClock(text.clock))
  THEN Instant(text.date.date, Sum(ReadClock(text.clock))) ELSE 0

-----------------------------------------------------------------------------
(* Durations: HH:MM:SS with or without milliseconds, PTnHnMnS, or words,   *)
(* which leave out a part that is zero.                                    *)

SpanFormats == {"compact", "compact_ms", "iso", "default"}

(* The parts that are printed in words, largest first. *)
Words(d) ==
  LET parts == <<SpanDays(d), SpanComponent(d, "hour"), SpanComponent(d, "minute"),
                 SpanComponent(d, "second")>>
      shown == SelectSeq(<<1, 2, 3, 4>>, LAMBDA i : parts[i] # 0)
  IN IF shown = <<>> THEN <<<<4, 0>>>>
     ELSE [k \in 1 .. Len(shown) |-> <<shown[k], parts[shown[k]]>>]

SpanToString(d, f) ==
  [format |-> f,
   hour |-> Total(d, "hour"), minute |-> SpanComponent(d, "minute"),
   second |-> SpanComponent(d, "second"),
   fraction |-> IF f = "compact_ms" THEN Fraction(SpanComponent(d, "milli")) ELSE NoFraction,
   words |-> IF f = "default" THEN Words(d) ELSE <<>>]

(* What is left when no notation matches is the number in front of the     *)
(* text: seconds.                                                          *)
LeadingSeconds(text) == IF text.format = "default" THEN text.words[1][2] ELSE 0

AllWords(text) == Len(text.words) = 4 /\ \A i \in 1 .. 4 : text.words[i][2] >= 0

SpanFromString(text) ==
  IF text.format = "default" THEN
    IF AllWords(text)
    THEN text.words[1][2] * Day + text.words[2][2] * Hour + text.words[3][2] * Minute
           + text.words[4][2] * Second
    ELSE LeadingSeconds(text) * Second
  ELSE IF Matches(text)
       THEN text.hour * Hour + text.minute * Minute + text.second * Second
              + FractionValue(text.fraction) * Milli
       ELSE LeadingSeconds(text) * Second
=============================================================================
