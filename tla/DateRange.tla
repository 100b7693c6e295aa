------------------------------ MODULE DateRange ------------------------------
(***************************************************************************)
(* DateRangeResolver: "today", "this week", "next month" and so on become  *)
(* a pair of instants, both inclusive, with which the task repository      *)
(* selects deadlines.  The resolver is a pure function of the expression   *)
(* and the current time; here the current time runs through the calendar,  *)
(* so that what it answers can be compared from one instant to the next.   *)
(*                                                                         *)
(* An instant counts ticks, of which a day has DayTicks; one tick stands   *)
(* for a microsecond.  Days are counted as Python's date.toordinal does.   *)
(***************************************************************************)
EXTENDS Integers, Sequences

CONSTANTS
  DayTicks,     \* ticks of a day (a bound: a day has 86 400 000 000 microseconds)
  Starts,       \* dates at which the clock may start, with a four-digit year
  MaxDays       \* a bound on how many days the clock runs

(***************************************************************************)
(* The last year of the model, a bound: in December 9999 the next month    *)
(* has no datetime.                                                        *)
(***************************************************************************)
MaxYear == 9998

ASSUME DateRangeAssumption ==
  /\ DayTicks \in Nat \ {0}
  /\ Starts \subseteq [year : 1..MaxYear, month : 1..12, day : 1..28]
  /\ MaxDays \in Nat

VARIABLES
  today,        \* the current date in UTC
  tick,         \* the time of day
  days          \* days since the start

vars == <<today, tick, days>>

-----------------------------------------------------------------------------
(***************************************************************************)
(* The proleptic Gregorian calendar of Python's datetime and calendar.     *)
(***************************************************************************)
IsLeap(year) == year % 4 = 0 /\ (year % 100 # 0 \/ year % 400 = 0)

MonthLength(year, month) ==
  CASE month = 2                -> IF IsLeap(year) THEN 29 ELSE 28
    [] month \in {4, 6, 9, 11}  -> 30
    [] OTHER                    -> 31

DaysBefore == <<0, 31, 59, 90, 120, 151, 181, 212, 243, 273, 304, 334>>

Ordinal(year, month, day) ==
  LET y    == year - 1
      leap == IF month > 2 /\ IsLeap(year) THEN 1 ELSE 0
  IN  (y * 365) + (y \div 4) - (y \div 100) + (y \div 400) + DaysBefore[month] + leap + day

Weekday(ordinal) == (ordinal + 6) % 7   \* Monday is 0

OrdinalOf(date) == Ordinal(date.year, date.month, date.day)

-----------------------------------------------------------------------------
(***************************************************************************)
(* The resolver.                                                           *)
(***************************************************************************)
Range(start, end) == [start |-> start, end |-> end]

DayStart(ordinal) == ordinal * DayTicks

(***************************************************************************)
(* The last microsecond of the day; and the first one of the next day.     *)
(***************************************************************************)
DayEndExclusive(ordinal) == ordinal * DayTicks + DayTicks
DayEnd(ordinal) == ordinal * DayTicks + DayTicks - 1

DayRange(ordinal) == Range(DayStart(ordinal), DayEnd(ordinal))

(***************************************************************************)
(* Monday to Sunday; and a week that starts on Sunday.                     *)
(***************************************************************************)
WeekRangeFromSunday(ordinal, offset) ==
  LET monday == ordinal - ((Weekday(ordinal) + 1) % 7) + 7 * offset
  IN  Range(DayStart(monday), DayEnd(monday + 6))

WeekRange(ordinal, offset) ==
  LET monday == ordinal - Weekday(ordinal) + 7 * offset
  IN  Range(DayStart(monday), DayEnd(monday + 6))

(***************************************************************************)
(* The first to the last day of a month, which may be in the next year.    *)
(* (The variant takes the length of the current month.)                    *)
(***************************************************************************)
MonthRangeOfRef(date, offset) ==
  LET months == date.month - 1 + offset
      year   == date.year + (months \div 12)
      month  == (months % 12) + 1
  IN  Range(DayStart(Ordinal(year, month, 1)),
            DayEnd(Ordinal(year, month, MonthLength(date.year, date.month))))

MonthRange(date, offset) ==
  LET months == date.month - 1 + offset
      year   == date.year + (months \div 12)
      month  == (months % 12) + 1
  IN  Range(DayStart(Ordinal(year, month, 1)),
            DayEnd(Ordinal(year, month, MonthLength(year, month))))

(***************************************************************************)
(* resolve for the expressions that depend on the current time: the one    *)
(* for the current period and the one for the next.                        *)
(***************************************************************************)
Periods == {"DAY", "WEEK", "MONTH"}

Resolve(period, offset, date) ==
  CASE period = "DAY"   -> DayRange(OrdinalOf(date) + offset)
    [] period = "WEEK"  -> WeekRange(OrdinalOf(date), offset)
    [] period = "MONTH" -> MonthRange(date, offset)

This(period) == Resolve(period, 0, today)   \* TODAY, THIS_WEEK, THIS_MONTH
Next(period) == Resolve(period, 1, today)   \* TOMORROW, NEXT_WEEK, NEXT_MONTH

(***************************************************************************)
(* find_by_deadline_range: deadline >= start AND deadline <= end.          *)
(***************************************************************************)
Selects(range, instant) == range.start =< instant /\ instant =< range.end

-----------------------------------------------------------------------------
(***************************************************************************)
(* Time.                                                                   *)
(***************************************************************************)
Now == DayStart(OrdinalOf(today)) + tick

Tomorrow ==
  IF today.day < MonthLength(today.year, today.month)
    THEN [today EXCEPT !.day = @ + 1]
  ELSE IF today.month < 12
    THEN [year |-> today.year, month |-> today.month + 1, day |-> 1]
  ELSE [year |-> today.year + 1, month |-> 1, day |-> 1]

Init ==
  /\ today \in Starts
  /\ tick = 0
  /\ days = 0

PassTick ==
  /\ tick < DayTicks - 1
  /\ tick' = tick + 1
  /\ UNCHANGED <<today, days>>

Midnight ==
  /\ tick = DayTicks - 1
  /\ days < MaxDays
  /\ Tomorrow.year =< MaxYear
  /\ today' = Tomorrow
  /\ tick' = 0
  /\ days' = days + 1

Spec == Init /\ [][PassTick \/ Midnight]_vars

-----------------------------------------------------------------------------
TypeOK ==
  /\ today \in [year : 1..MaxYear, month : 1..12, day : 1..31]
  /\ today.day =< MonthLength(today.year, today.month)
  /\ tick \in 0..(DayTicks - 1)
  /\ days \in 0..MaxDays

(***************************************************************************)
(* A deadline is selected by exactly one of "this" and "next" whenever it  *)
(* lies between the start of the one and the end of the other: none falls  *)
(* between two weeks or months, and none is in both.                       *)
(***************************************************************************)
NothingBetween ==
  \A period \in Periods :
    \A deadline \in This(period).start..Next(period).end :
      Selects(This(period), deadline) # Selects(Next(period), deadline)

(***************************************************************************)
(* What "this" selects does not change until the period is over, and then  *)
(* it is what "next" selected before.                                      *)
(***************************************************************************)
NextBecomesThis ==
  [][\A period \in Periods :
       This(period)' = IF Selects(This(period), Now') THEN This(period) ELSE Next(period)]_vars

(***************************************************************************)
(* "This" period is the one that contains the current time; weeks start on *)
(* Monday and have seven days, months start on their first day.            *)
(***************************************************************************)
ThisIsNow ==
  /\ \A period \in Periods : Selects(This(period), Now)
  /\ \A week \in {This("WEEK"), Next("WEEK")} :
       /\ Weekday(week.start \div DayTicks) = 0
       /\ week.end + 1 - week.start = 7 * DayTicks
  /\ This("MONTH").start = DayStart(OrdinalOf([today EXCEPT !.day = 1]))
=============================================================================
