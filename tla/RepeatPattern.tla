--------------------------- MODULE RepeatPattern ---------------------------
(***************************************************************************)
(* nex::RepeatPattern (core/repeat_pattern.h): an immutable value whose    *)
(* with...() members return an edited copy.  The frequency is derived from *)
(* the days, and the days from the frequency, depending on the edit.       *)
(***************************************************************************)
EXTENDS Integers, FiniteSets

CONSTANTS
  DaysPerWeek,                    \* kDaysPerWeek
  MinSnooze, MaxSnooze,           \* kMinSnoozeSeconds, kMaxSnoozeSeconds
  DefaultSnooze,                  \* kDefaultSnoozeSeconds
  Numbers                         \* intervals, counts and seconds passed to a call

ASSUME PatternAssumption ==
  /\ {MinSnooze, MaxSnooze} \cup Numbers \subseteq Int
  /\ DefaultSnooze \in MinSnooze .. MaxSnooze

AllDays == 0 .. DaysPerWeek - 1   \* kAllDaysMask
Frequencies == {"None", "Daily", "Weekly", "Monthly", "Yearly"}
DayBased == {"None", "Daily", "Weekly"}
Dates == {"a day", "no such day"}
NoEnd == "none"

VARIABLE pattern

DeriveFrequency(enabled, days) ==
  IF ~ enabled THEN "None" ELSE IF days = AllDays THEN "Daily" ELSE "Weekly"

Pattern(enabled, days) ==
  [enabled |-> enabled, activeDays |-> days, frequency |-> DeriveFrequency(enabled, days),
   allowsSnooze |-> FALSE, snooze |-> DefaultSnooze, interval |-> 1, count |-> 0, endDate |-> NoEnd]

(* Mutated form: the frequency stays as it was. *)
RederivedNever(p) == p

Rederived(p) ==
  IF p.enabled /\ p.frequency \in DayBased
  THEN [p EXCEPT !.frequency = DeriveFrequency(TRUE, p.activeDays)] ELSE p

WithActiveDays(p, days) == Rederived([p EXCEPT !.activeDays = days])
WithDayActive(p, day, active) ==
  IF day \notin AllDays THEN p
  ELSE WithActiveDays(p, IF active THEN p.activeDays \cup {day} ELSE p.activeDays \ {day})
IsActiveOnDay(p, day) == p.enabled /\ day \in p.activeDays

WithFrequency(p, frequency) ==
  [p EXCEPT !.frequency = frequency, !.enabled = frequency # "None",
            !.activeDays = IF frequency = "Daily" THEN AllDays ELSE @]

SnoozeClamped(n) == IF n < MinSnooze THEN MinSnooze ELSE IF n > MaxSnooze THEN MaxSnooze ELSE n
WithSnooze(p, allowed, n) == [p EXCEPT !.allowsSnooze = allowed, !.snooze = SnoozeClamped(n)]
WithInterval(p, n) == [p EXCEPT !.interval = IF n < 1 THEN 1 ELSE n]
WithCount(p, n) == [p EXCEPT !.count = IF n < 0 THEN 0 ELSE n]
WithEndDate(p, date) == [p EXCEPT !.endDate = IF date = "a day" THEN date ELSE NoEnd]
WithoutEndDate(p) == [p EXCEPT !.endDate = NoEnd]

PatternInit ==
  pattern \in {Pattern(enabled, days) : enabled \in BOOLEAN, days \in SUBSET AllDays}

PatternNext ==
  \/ \E days \in SUBSET AllDays : pattern' = WithActiveDays(pattern, days)
  \/ \E day \in 0 .. DaysPerWeek, active \in BOOLEAN : pattern' = WithDayActive(pattern, day, active)
  \/ \E frequency \in Frequencies : pattern' = WithFrequency(pattern, frequency)
  \/ \E n \in Numbers, allowed \in BOOLEAN : pattern' = WithSnooze(pattern, allowed, n)
  \/ \E n \in Numbers : pattern' = WithInterval(pattern, n)
  \/ \E n \in Numbers : pattern' = WithCount(pattern, n)
  \/ \E date \in Dates : pattern' = WithEndDate(pattern, date)
  \/ pattern' = WithoutEndDate(pattern)

PatternSpec == PatternInit /\ [][PatternNext]_pattern

-----------------------------------------------------------------------------
(* Whatever is edited in whatever order: a pattern is enabled exactly when *)
(* it has a frequency, "daily" means all days and only a pattern with a    *)
(* frequency is active on any; the numbers are in their ranges; editing    *)
(* two days in either order, or all at once, makes the same pattern; and   *)
(* an edit that is undone leaves no trace but in a frequency that was set. *)
PatternAgrees ==
  /\ pattern.enabled <=> pattern.frequency # "None"
  /\ pattern.frequency = "Daily" => pattern.activeDays = AllDays
  /\ pattern.snooze \in MinSnooze .. MaxSnooze /\ pattern.interval >= 1 /\ pattern.count >= 0
  /\ pattern.endDate # "no such day"
  /\ \A d, e \in AllDays : \A on, off \in BOOLEAN :
       LET first == WithDayActive(pattern, d, on)
           both == WithDayActive(first, e, off)
       IN /\ d # e => both = WithDayActive(WithDayActive(pattern, e, off), d, on)
          /\ both = WithActiveDays(pattern, both.activeDays)
          /\ IsActiveOnDay(both, e) <=> pattern.enabled /\ off
          /\ WithDayActive(first, d, d \in pattern.activeDays)
               = WithActiveDays(pattern, pattern.activeDays)
  /\ pattern.frequency # "Weekly" \/ pattern.activeDays # AllDays =>
       WithActiveDays(pattern, pattern.activeDays) = pattern
=============================================================================
