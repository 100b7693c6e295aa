--------------------------- MODULE DateRangeProofs ---------------------------
(***************************************************************************)
(* Proofs, for every date and every length of the day, that the periods of *)
(* the resolver contain the current time and follow each other without a   *)
(* gap or an overlap.                                                      *)
(***************************************************************************)
EXTENDS DateRange, TLAPS

(***************************************************************************)
(* Ordinals: integers, which count the days of a month, go on from one     *)
(* month to the next, and from one year to the next.                       *)
(***************************************************************************)
LEMMA LeapYears ==
  ASSUME NEW y \in Int
  PROVE  /\ y \div 4 - (y - 1) \div 4 = IF y % 4 = 0 THEN 1 ELSE 0
         /\ y \div 100 - (y - 1) \div 100 = IF y % 100 = 0 THEN 1 ELSE 0
         /\ y \div 400 - (y - 1) \div 400 = IF y % 400 = 0 THEN 1 ELSE 0
         /\ y \div 4 \in Int /\ (y - 1) \div 4 \in Int
         /\ y \div 100 \in Int /\ (y - 1) \div 100 \in Int
         /\ y \div 400 \in Int /\ (y - 1) \div 400 \in Int
  OBVIOUS

LEMMA DaysBeforeType == \A m \in 1..12 : DaysBefore[m] \in Nat
  BY DEF DaysBefore

LEMMA OrdinalType ==
  ASSUME NEW y \in Int, NEW m \in 1..12, NEW d \in Int
  PROVE  /\ Ordinal(y, m, d) \in Int
         /\ Ordinal(y, m, d) = Ordinal(y, m, 1) + d - 1
<1>1. DaysBefore[m] \in Nat
  BY DaysBeforeType
<1>2. (y - 1) \div 4 \in Int /\ (y - 1) \div 100 \in Int /\ (y - 1) \div 400 \in Int
  BY LeapYears
<1>. QED
  BY <1>1, <1>2 DEF Ordinal

LEMMA MonthLengthType ==
  ASSUME NEW y \in Int, NEW m \in 1..12
  PROVE  MonthLength(y, m) \in Nat /\ MonthLength(y, m) >= 28 /\ MonthLength(y, m) =< 31
  BY DEF MonthLength

LEMMA MonthEndsType ==
  \A y \in Int, m \in 1..12 :
    Ordinal(y, m, 1) \in Int /\ Ordinal(y, m, MonthLength(y, m)) \in Int
<1>. SUFFICES ASSUME NEW y \in Int, NEW m \in 1..12
              PROVE  Ordinal(y, m, 1) \in Int /\ Ordinal(y, m, MonthLength(y, m)) \in Int
  OBVIOUS
<1>1. MonthLength(y, m) \in Nat
  BY MonthLengthType
<1>2. MonthLength(y, m) \in Int
  BY <1>1
<1>3. \A d \in Int : Ordinal(y, m, d) \in Int
  BY OrdinalType
<1>. QED
  BY <1>2, <1>3

(***************************************************************************)
(* Within a year the table DaysBefore adds up the lengths of the months.   *)
(***************************************************************************)
LEMMA DaysAddUp ==
  ASSUME NEW y \in Int, NEW m \in 1..11
  PROVE  DaysBefore[m] + (IF m > 2 /\ IsLeap(y) THEN 1 ELSE 0) + MonthLength(y, m)
           = DaysBefore[m + 1] + (IF m + 1 > 2 /\ IsLeap(y) THEN 1 ELSE 0)
<1>1. CASE m = 1
  BY <1>1 DEF DaysBefore, MonthLength
<1>2. CASE m = 2
  BY <1>2 DEF DaysBefore, MonthLength
<1>3. CASE m \in {3, 5, 7, 8, 10}
  BY <1>3 DEF DaysBefore, MonthLength
<1>4. CASE m \in {4, 6, 9, 11}
  BY <1>4 DEF DaysBefore, MonthLength
<1>. QED
  BY <1>1, <1>2, <1>3, <1>4

(***************************************************************************)
(* Every four-hundredth year is a hundredth one, every hundredth a fourth. *)
(***************************************************************************)
LEMMA Centuries ==
  ASSUME NEW y \in Int
  PROVE  /\ y % 400 = 0 => y % 100 = 0
         /\ y % 100 = 0 => y % 4 = 0
<1>1. y = 400 * (y \div 400) + (y % 400) /\ y \div 400 \in Int
  OBVIOUS
<1>2. y = 100 * (y \div 100) + (y % 100) /\ y \div 100 \in Int
  OBVIOUS
<1>3. \A k \in Int : (100 * k) % 100 = 0 /\ (4 * k) % 4 = 0
  OBVIOUS
<1>4. ASSUME y % 400 = 0 PROVE y % 100 = 0
  <2>. DEFINE k == 4 * (y \div 400)
  <2>1. k \in Int /\ y = 100 * k
    BY <1>1, <1>4
  <2>. QED
    BY <1>3, <2>1
<1>5. ASSUME y % 100 = 0 PROVE y % 4 = 0
  <2>. DEFINE k == 25 * (y \div 100)
  <2>1. k \in Int /\ y = 4 * k
    BY <1>2, <1>5
  <2>. QED
    BY <1>3, <2>1
<1>. QED
  BY <1>4, <1>5

(***************************************************************************)
(* The leap days of the years before y + 1 and before y differ by the leap *)
(* day of y.                                                               *)
(***************************************************************************)
LEMMA LeapDays ==
  ASSUME NEW y \in Int
  PROVE  (y \div 4) - ((y - 1) \div 4) + ((y - 1) \div 100) - (y \div 100)
           + (y \div 400) - ((y - 1) \div 400)
           = IF IsLeap(y) THEN 1 ELSE 0
<1>. DEFINE fours == (y \div 4) - ((y - 1) \div 4)
            hundreds == (y \div 100) - ((y - 1) \div 100)
            fourHundreds == (y \div 400) - ((y - 1) \div 400)
<1>1. /\ fours = IF y % 4 = 0 THEN 1 ELSE 0
      /\ hundreds = IF y % 100 = 0 THEN 1 ELSE 0
      /\ fourHundreds = IF y % 400 = 0 THEN 1 ELSE 0
  BY LeapYears
<1>2. (y \div 4) - ((y - 1) \div 4) + ((y - 1) \div 100) - (y \div 100)
        + (y \div 400) - ((y - 1) \div 400) = fours - hundreds + fourHundreds
  BY LeapYears
<1>3. /\ y % 400 = 0 => y % 100 = 0
      /\ y % 100 = 0 => y % 4 = 0
  BY Centuries
<1>4. fours - hundreds + fourHundreds = IF IsLeap(y) THEN 1 ELSE 0
  <2>. HIDE DEF fours, hundreds, fourHundreds
  <2>. QED
    BY <1>1, <1>3 DEF IsLeap
<1>. QED
  BY <1>2, <1>4

(***************************************************************************)
(* The day after the last of a month is the first of the next month.       *)
(***************************************************************************)
LEMMA MonthsTile ==
  ASSUME NEW y \in Int, NEW m \in 1..12
  PROVE  Ordinal(y, m, MonthLength(y, m)) + 1
           = IF m < 12 THEN Ordinal(y, m + 1, 1) ELSE Ordinal(y + 1, 1, 1)
<1>1. MonthLength(y, m) \in Nat
  BY MonthLengthType
<1>2. DaysBefore[m] \in Nat
  BY DaysBeforeType
<1>3. /\ (y - 1) \div 4 \in Int /\ (y - 1) \div 100 \in Int /\ (y - 1) \div 400 \in Int
      /\ y \div 4 \in Int /\ y \div 100 \in Int /\ y \div 400 \in Int
  BY LeapYears
<1>4. CASE m < 12
  <2>1. m \in 1..11 /\ m + 1 \in 1..12
    BY <1>4
  <2>2. DaysBefore[m + 1] \in Nat
    BY <2>1, DaysBeforeType
  <2>3. DaysBefore[m] + (IF m > 2 /\ IsLeap(y) THEN 1 ELSE 0) + MonthLength(y, m)
          = DaysBefore[m + 1] + (IF m + 1 > 2 /\ IsLeap(y) THEN 1 ELSE 0)
    BY <2>1, DaysAddUp
  <2>. DEFINE before == DaysBefore[m]  after == DaysBefore[m + 1]
              this == IF m > 2 /\ IsLeap(y) THEN 1 ELSE 0
              next == IF m + 1 > 2 /\ IsLeap(y) THEN 1 ELSE 0
              length == MonthLength(y, m)
              years == ((y - 1) * 365) + ((y - 1) \div 4) - ((y - 1) \div 100) + ((y - 1) \div 400)
  <2>4. Ordinal(y, m, length) = years + before + this + length
    BY DEF Ordinal
  <2>5. Ordinal(y, m + 1, 1) = years + after + next + 1
    BY DEF Ordinal
  <2>6. before + this + length = after + next
    BY <2>3
  <2>7. /\ before \in Int /\ after \in Int /\ this \in Int /\ next \in Int
        /\ length \in Int /\ years \in Int
    BY <1>1, <1>2, <1>3, <2>2
  <2>. HIDE DEF before, after, this, next, length, years
  <2>8. years + before + this + length + 1 = years + after + next + 1
    BY <2>6, <2>7
  <2>. QED
    BY <1>4, <2>4, <2>5, <2>8 DEF length
<1>5. CASE m = 12
  <2>1. DaysBefore[12] = 334 /\ DaysBefore[1] = 0 /\ MonthLength(y, 12) = 31
    BY DEF DaysBefore, MonthLength
  <2>2. (y \div 4) - ((y - 1) \div 4) + ((y - 1) \div 100) - (y \div 100)
           + (y \div 400) - ((y - 1) \div 400) = IF IsLeap(y) THEN 1 ELSE 0
    BY LeapDays
  <2>3. y + 1 - 1 = y
    OBVIOUS
  <2>. QED
    BY <1>3, <1>5, <2>1, <2>2, <2>3 DEF Ordinal
<1>. QED
  BY <1>4, <1>5

-----------------------------------------------------------------------------
LEMMA MaxYearType == MaxYear \in Nat
  BY DEF MaxYear

(***************************************************************************)
(* The current date is always a date of the calendar.                      *)
(***************************************************************************)
LEMMA TypeInit == Init => TypeOK
<1>. SUFFICES ASSUME Init PROVE TypeOK
  OBVIOUS
<1>1. today \in [year : 1..MaxYear, month : 1..12, day : 1..28]
  BY DateRangeAssumption DEF Init
<1>. today.year \in Int /\ today.month \in 1..12
  BY <1>1, MaxYearType
<1>2. MonthLength(today.year, today.month) >= 28 /\ MonthLength(today.year, today.month) \in Nat
  BY <1>1, MonthLengthType
<1>. QED
  BY <1>1, <1>2, DateRangeAssumption DEF Init, TypeOK

LEMMA TypeNext == TypeOK /\ [PassTick \/ Midnight]_vars => TypeOK'
<1>. SUFFICES ASSUME TypeOK, [PassTick \/ Midnight]_vars PROVE TypeOK'
  OBVIOUS
<1>1. CASE PassTick
  BY <1>1, DateRangeAssumption DEF TypeOK, PassTick
<1>2. CASE Midnight
  <2>. DEFINE y == today.year  m == today.month  d == today.day
  <2>1. y \in 1..MaxYear /\ m \in 1..12 /\ d \in 1..31 /\ today = [year |-> y, month |-> m, day |-> d]
    BY DEF TypeOK
  <2>2. MonthLength(y, m) \in Nat /\ MonthLength(y, m) =< 31
    BY <2>1, MonthLengthType
  <2>3. Tomorrow.year =< MaxYear /\ today' = Tomorrow /\ tick' = 0 /\ days' \in 0..MaxDays
    BY <1>2, DateRangeAssumption DEF Midnight, TypeOK
  <2>4. tick' \in 0..(DayTicks - 1)
    BY <2>3, DateRangeAssumption
  <2>5. CASE d < MonthLength(y, m)
    <3>1. today' = [year |-> y, month |-> m, day |-> d + 1]
      BY <2>1, <2>3, <2>5 DEF Tomorrow
    <3>. QED
      BY <2>1, <2>2, <2>3, <2>4, <2>5, <3>1 DEF TypeOK
  <2>6. CASE ~ (d < MonthLength(y, m)) /\ m < 12
    <3>1. today' = [year |-> y, month |-> m + 1, day |-> 1]
      BY <2>3, <2>6 DEF Tomorrow
    <3>2. MonthLength(y, m + 1) \in Nat /\ 1 =< MonthLength(y, m + 1)
      BY <2>1, <2>6, MonthLengthType
    <3>. QED
      BY <2>1, <2>3, <2>4, <2>6, <3>1, <3>2 DEF TypeOK
  <2>7. CASE ~ (d < MonthLength(y, m)) /\ ~ (m < 12)
    <3>1. today' = [year |-> y + 1, month |-> 1, day |-> 1]
      BY <2>3, <2>7 DEF Tomorrow
    <3>2. MonthLength(y + 1, 1) \in Nat /\ 1 =< MonthLength(y + 1, 1)
      BY <2>1, MonthLengthType
    <3>3. y + 1 =< MaxYear
      BY <2>3, <3>1
    <3>4. today' \in [year : 1..MaxYear, month : 1..12, day : 1..31]
      BY <2>1, <3>1, <3>3, MaxYearType
    <3>. QED
      BY <2>3, <2>4, <3>1, <3>2, <3>4 DEF TypeOK
  <2>. QED
    BY <2>5, <2>6, <2>7
<1>3. CASE UNCHANGED vars
  BY <1>3 DEF TypeOK, vars
<1>. QED
  BY <1>1, <1>2, <1>3

(***************************************************************************)
(* The type invariant of DateRange.                                        *)
(***************************************************************************)
THEOREM TypeCorrect == Spec => []TypeOK
  BY TypeInit, TypeNext, PTL DEF Spec

-----------------------------------------------------------------------------
(***************************************************************************)
(* The last instant of a day is the one before the first of the next day.  *)
(***************************************************************************)
LEMMA DaysTile ==
  ASSUME NEW o \in Int
  PROVE  DayStart(o) \in Int /\ DayEnd(o) \in Int /\ DayEnd(o) + 1 = DayStart(o + 1)
  BY DateRangeAssumption DEF DayStart, DayEnd

(***************************************************************************)
(* The next period begins where this one ends, for each kind of period.    *)
(***************************************************************************)
LEMMA WeekStartType == \A o \in Int : Weekday(o) \in Int
  BY DEF Weekday

LEMMA PeriodsTile ==
  ASSUME TypeOK, NEW period \in Periods
  PROVE  /\ This(period).end \in Int
         /\ Next(period).start \in Int
         /\ This(period).start \in Int
         /\ Next(period).end \in Int
         /\ This(period).end + 1 = Next(period).start
<1>. DEFINE y == today.year  m == today.month  o == OrdinalOf(today)
<1>1. y \in 1..MaxYear /\ m \in 1..12 /\ today.day \in 1..31
  BY DEF TypeOK
<1>0. y \in Int /\ today.day \in Int
  BY <1>1, MaxYearType
<1>2. o \in Int
  BY <1>0, <1>1, OrdinalType DEF OrdinalOf
<1>3. CASE period = "DAY"
  <2>1. This(period) = DayRange(o + 0) /\ Next(period) = DayRange(o + 1)
    BY <1>3 DEF This, Next, Resolve
  <2>2. This(period) = Range(DayStart(o), DayEnd(o)) /\ Next(period) = Range(DayStart(o + 1), DayEnd(o + 1))
    BY <1>2, <2>1 DEF DayRange
  <2>. HIDE DEF o
  <2>. QED
    BY <1>2, <2>2, DaysTile DEF Range
<1>4. CASE period = "WEEK"
  <2>. DEFINE monday == o - Weekday(o)
  <2>1. monday \in Int
    BY <1>2, WeekStartType
  <2>2. /\ o - Weekday(o) + 7 * 0 = monday
        /\ o - Weekday(o) + 7 * 1 = monday + 7
    BY <1>2, WeekStartType
  <2>3. /\ This(period) = Range(DayStart(monday), DayEnd(monday + 6))
        /\ Next(period) = Range(DayStart(monday + 7), DayEnd(monday + 7 + 6))
    BY <1>4, <2>2 DEF This, Next, Resolve, WeekRange
  <2>. HIDE DEF monday
  <2>4. monday + 6 \in Int /\ monday + 7 \in Int /\ monday + 7 + 6 \in Int /\ monday + 6 + 1 = monday + 7
    BY <2>1
  <2>. QED
    BY <2>1, <2>3, <2>4, DaysTile DEF Range
<1>5. CASE period = "MONTH"
  <2>. DEFINE y1 == IF m < 12 THEN y ELSE y + 1
              m1 == IF m < 12 THEN m + 1 ELSE 1
  <2>1. \A k \in 1..12 :
          /\ (k - 1 + 0) \div 12 = 0 /\ ((k - 1 + 0) % 12) + 1 = k
          /\ (k - 1 + 1) \div 12 = (IF k < 12 THEN 0 ELSE 1)
          /\ ((k - 1 + 1) % 12) + 1 = (IF k < 12 THEN k + 1 ELSE 1)
    OBVIOUS
  <2>2. /\ y + ((m - 1 + 0) \div 12) = y /\ ((m - 1 + 0) % 12) + 1 = m
        /\ y + ((m - 1 + 1) \div 12) = y1 /\ ((m - 1 + 1) % 12) + 1 = m1
    BY <1>0, <1>1, <2>1
  <2>3. /\ This(period) = Range(DayStart(Ordinal(y, m, 1)), DayEnd(Ordinal(y, m, MonthLength(y, m))))
        /\ Next(period) = Range(DayStart(Ordinal(y1, m1, 1)), DayEnd(Ordinal(y1, m1, MonthLength(y1, m1))))
    BY <1>5, <2>2 DEF This, Next, Resolve, MonthRange
  <2>4. y1 \in Int /\ m1 \in 1..12
    BY <1>0, <1>1
  <2>5. Ordinal(y, m, MonthLength(y, m)) + 1 = Ordinal(y1, m1, 1)
    BY <1>0, <1>1, MonthsTile
  <2>. HIDE DEF y1, m1
  <2>6. \A k \in Int, l \in 1..12 :
          Ordinal(k, l, 1) \in Int /\ Ordinal(k, l, MonthLength(k, l)) \in Int
    BY MonthEndsType
  <2>7. /\ Ordinal(y, m, 1) \in Int /\ Ordinal(y, m, MonthLength(y, m)) \in Int
        /\ Ordinal(y1, m1, 1) \in Int /\ Ordinal(y1, m1, MonthLength(y1, m1)) \in Int
    BY <1>0, <1>1, <2>4, <2>6
  <2>. QED
    BY <2>3, <2>5, <2>7, DaysTile DEF Range
<1>. QED
  BY <1>3, <1>4, <1>5 DEF Periods

(***************************************************************************)
(* No deadline between this period and the next is missed or selected by   *)
(* both, whatever the date: NothingBetween.                                *)
(***************************************************************************)
THEOREM DeadlinesSelectedOnce == Spec => []NothingBetween
<1>1. TypeOK => NothingBetween
  <2>. SUFFICES ASSUME TypeOK, NEW period \in Periods,
                       NEW deadline \in This(period).start..Next(period).end
                PROVE  Selects(This(period), deadline) # Selects(Next(period), deadline)
    BY DEF NothingBetween
  <2>. DEFINE this == This(period)  next == Next(period)
  <2>1. /\ this.end \in Int /\ next.start \in Int /\ this.start \in Int /\ next.end \in Int
        /\ this.end + 1 = next.start
    BY PeriodsTile
  <2>2. deadline \in Int /\ this.start =< deadline /\ deadline =< next.end
    BY <2>1
  <2>. HIDE DEF this, next
  <2>3. Selects(this, deadline) <=> ~ Selects(next, deadline)
    BY <2>1, <2>2 DEF Selects
  <2>. QED
    BY <2>3, Zenon DEF this, next, Selects
<1>. QED
  BY <1>1, TypeCorrect, PTL

-----------------------------------------------------------------------------
(***************************************************************************)
(* Days are in the order of their first instants, and the day of a first   *)
(* instant is found by division.                                           *)
(***************************************************************************)
LEMMA DaysOrdered ==
  ASSUME NEW a \in Int, NEW b \in Int, a =< b
  PROVE  DayStart(a) =< DayStart(b) /\ DayEnd(a) =< DayEnd(b)
<1>. DEFINE T == DayTicks  gap == b - a
<1>1. T \in Nat
  BY DateRangeAssumption
<1>2. gap \in Nat
  OBVIOUS
<1>3. gap * T \in Nat
  <2>. HIDE DEF gap, T
  <2>. QED
    BY <1>1, <1>2
<1>4. b * T = (a * T) + (gap * T)
  <2>. HIDE DEF T
  <2>. QED
    BY <1>1
<1>5. a * T \in Int
  BY <1>1
<1>. HIDE DEF gap, T
<1>6. (a * T) + T - 1 =< (b * T) + T - 1 /\ a * T =< b * T
  BY <1>1, <1>3, <1>4, <1>5
<1>. QED
  BY <1>6 DEF DayStart, DayEnd, T

LEMMA DayOfStart ==
  ASSUME NEW o \in Int
  PROVE  DayStart(o) \div DayTicks = o
<1>. DEFINE T == DayTicks  q == (o * T) \div T  r == (o * T) % T
<1>1. T \in Nat \ {0} /\ o * T \in Int
  BY DateRangeAssumption
<1>2. q \in Int /\ r \in 0..(T - 1) /\ o * T = (T * q) + r
  BY <1>1
<1>. HIDE DEF T, q, r
<1>3. (o - q) * T = r
  BY <1>1, <1>2
<1>4. ~(o - q >= 1)
  <2>1. o - q >= 1 => (o - q) * T >= T
    BY <1>1, <1>2
  <2>. QED
    BY <1>1, <1>2, <1>3, <2>1
<1>5. ~(o - q =< -1)
  <2>1. o - q =< -1 => (o - q) * T =< -T
    BY <1>1, <1>2
  <2>. QED
    BY <1>1, <1>2, <1>3, <2>1
<1>6. o - q \in Int /\ ~(o - q >= 1) /\ ~(o - q =< -1)
        => o - q = 0
  OBVIOUS
<1>7. o - q \in Int
  BY <1>2
<1>8. o - q = 0 => o = q
  BY <1>2
<1>9. o = q
  BY <1>4, <1>5, <1>6, <1>7, <1>8
<1>. QED
  BY <1>9 DEF DayStart, T, q

(***************************************************************************)
(* The days of this week and of this month.                                *)
(***************************************************************************)
LEMMA WeekdayBounds ==
  ASSUME NEW o \in Int
  PROVE  /\ Weekday(o) \in 0..6
         /\ Weekday(o - Weekday(o)) = 0 /\ Weekday(o - Weekday(o) + 7) = 0
  BY DEF Weekday

LEMMA ThisMonth ==
  ASSUME TypeOK
  PROVE  This("MONTH") =
           Range(DayStart(Ordinal(today.year, today.month, 1)),
                 DayEnd(Ordinal(today.year, today.month, MonthLength(today.year, today.month))))
<1>. DEFINE y == today.year  m == today.month
<1>1. y \in Int /\ m \in 1..12
  BY MaxYearType DEF TypeOK
<1>2. \A k \in 1..12 : (k - 1 + 0) \div 12 = 0 /\ ((k - 1 + 0) % 12) + 1 = k
  OBVIOUS
<1>3. y + ((m - 1 + 0) \div 12) = y /\ ((m - 1 + 0) % 12) + 1 = m
  BY <1>1, <1>2
<1>. QED
  BY <1>3 DEF This, Resolve, MonthRange, Periods

(***************************************************************************)
(* "This" is the period that contains the current time, whatever the date. *)
(***************************************************************************)
THEOREM CurrentPeriod == Spec => []ThisIsNow
<1>1. TypeOK => ThisIsNow
  <2>. SUFFICES ASSUME TypeOK PROVE ThisIsNow
    OBVIOUS
  <2>. DEFINE y == today.year  m == today.month  d == today.day  o == OrdinalOf(today)
              monday == o - Weekday(o)
              first == Ordinal(y, m, 1)  last == Ordinal(y, m, MonthLength(y, m))
  <2>1. /\ y \in Int /\ m \in 1..12 /\ d \in Int /\ d >= 1 /\ d =< MonthLength(y, m)
        /\ MonthLength(y, m) \in Int
    <3>1. y \in 1..MaxYear /\ m \in 1..12 /\ d \in 1..31 /\ d =< MonthLength(y, m)
      BY DEF TypeOK
    <3>2. y \in Int /\ d \in Int /\ d >= 1
      BY <3>1, MaxYearType
    <3>. HIDE DEF y, m, d
    <3>3. MonthLength(y, m) \in Nat
      BY <3>1, <3>2, MonthLengthType
    <3>. QED
      BY <3>1, <3>2, <3>3
  <2>2. o \in Int /\ first \in Int /\ last \in Int /\ first =< o /\ o =< last
    <3>1. o = Ordinal(y, m, d)
      BY DEF OrdinalOf
    <3>2. /\ first \in Int /\ o = first + d - 1 /\ last = first + MonthLength(y, m) - 1
      <4>. HIDE DEF y, m, d, o
      <4>1. Ordinal(y, m, 1) \in Int
        BY <2>1, MonthEndsType
      <4>2. Ordinal(y, m, d) = Ordinal(y, m, 1) + d - 1
        BY <2>1, OrdinalType
      <4>3. Ordinal(y, m, MonthLength(y, m)) = Ordinal(y, m, 1) + MonthLength(y, m) - 1
        BY <2>1, OrdinalType
      <4>. QED
        BY <3>1, <4>1, <4>2, <4>3
    <3>. HIDE DEF first, last, o, y, m, d
    <3>. QED
      BY <2>1, <3>2
  <2>3. monday \in Int /\ monday =< o /\ o =< monday + 6
    BY <2>2, WeekdayBounds
  <2>4. Selects(DayRange(o), Now)
    <3>1. tick \in Int /\ 0 =< tick /\ tick =< DayTicks - 1 /\ DayTicks \in Int /\ o * DayTicks \in Int
      BY <2>2, DateRangeAssumption DEF TypeOK
    <3>. HIDE DEF o
    <3>2. DayStart(o) =< DayStart(o) + tick /\ DayStart(o) + tick =< DayEnd(o)
      BY <3>1 DEF DayStart, DayEnd
    <3>. QED
      BY <3>2 DEF DayRange, Range, Selects, Now, o
  <2>5. ASSUME NEW a \in Int, NEW b \in Int, a =< o, o =< b
        PROVE  Selects(Range(DayStart(a), DayEnd(b)), Now)
    <3>1. DayStart(a) =< DayStart(o) /\ DayEnd(o) =< DayEnd(b)
      BY <2>2, <2>5, DaysOrdered
    <3>2. DayStart(o) =< Now /\ Now =< DayEnd(o)
      BY <2>4 DEF Selects, DayRange, Range
    <3>3. /\ DayStart(a) \in Int /\ DayStart(o) \in Int /\ DayEnd(o) \in Int /\ DayEnd(b) \in Int
          /\ Now \in Int
      BY <2>2, <2>5, DaysTile DEF Now, TypeOK
    <3>. HIDE DEF o
    <3>4. DayStart(a) =< Now /\ Now =< DayEnd(b)
      BY <3>1, <3>2, <3>3
    <3>. QED
      BY <3>4 DEF Selects, Range
  <2>6. Selects(This("DAY"), Now)
    <3>1. This("DAY") = DayRange(o + 0) /\ o + 0 = o
      BY <2>2 DEF This, Resolve
    <3>. QED
      BY <2>4, <3>1
  <2>7. /\ This("WEEK") = Range(DayStart(monday), DayEnd(monday + 6))
        /\ Next("WEEK") = Range(DayStart(monday + 7), DayEnd(monday + 13))
    <3>1. o - Weekday(o) + 7 * 0 = monday /\ o - Weekday(o) + 7 * 1 = monday + 7
          /\ monday + 7 + 6 = monday + 13
      BY <2>2, <2>3, WeekdayBounds
    <3>. QED
      BY <3>1 DEF This, Next, Resolve, WeekRange
  <2>8. Selects(This("WEEK"), Now)
    <3>1. monday + 6 \in Int
      BY <2>3
    <3>. QED
      BY <2>3, <2>5, <2>7, <3>1
  <2>9. Selects(This("MONTH"), Now)
    BY <2>2, <2>5, ThisMonth
  <2>10. ASSUME NEW a \in Int, Weekday(a) = 0
         PROVE  LET week == Range(DayStart(a), DayEnd(a + 6)) IN
                Weekday(week.start \div DayTicks) = 0 /\ week.end + 1 - week.start = 7 * DayTicks
    <3>1. DayStart(a) \div DayTicks = a
      BY DayOfStart
    <3>2. DayEnd(a + 6) + 1 - DayStart(a) = 7 * DayTicks
      BY DateRangeAssumption DEF DayStart, DayEnd
    <3>. QED
      BY <2>10, <3>1, <3>2 DEF Range
  <2>11. /\ Weekday(monday) = 0 /\ Weekday(monday + 7) = 0 /\ monday + 7 \in Int
         /\ monday + 7 + 6 = monday + 13
    BY <2>2, <2>3, WeekdayBounds
  <2>12. \A week \in {This("WEEK"), Next("WEEK")} :
           Weekday(week.start \div DayTicks) = 0 /\ week.end + 1 - week.start = 7 * DayTicks
    <3>. HIDE DEF monday
    <3>. QED
      BY <2>3, <2>7, <2>10, <2>11
  <2>13. This("MONTH").start = DayStart(OrdinalOf([today EXCEPT !.day = 1]))
    <3>1. [today EXCEPT !.day = 1] = [year |-> y, month |-> m, day |-> 1]
      BY DEF TypeOK
    <3>. QED
      BY <3>1, ThisMonth DEF Range, OrdinalOf
  <2>14. \A period \in Periods : Selects(This(period), Now)
    BY <2>6, <2>8, <2>9 DEF Periods
  <2>. QED
    BY <2>12, <2>13, <2>14 DEF ThisIsNow
<1>. QED
  BY <1>1, TypeCorrect, PTL

-----------------------------------------------------------------------------
(***************************************************************************)
(* The three kinds of "this" and "next", for any date.                     *)
(***************************************************************************)
LEMMA WeekRanges ==
  ASSUME NEW o \in Int
  PROVE  /\ WeekRange(o, 0) = Range(DayStart(o - Weekday(o)), DayEnd(o - Weekday(o) + 6))
         /\ WeekRange(o, 1) = Range(DayStart(o - Weekday(o) + 7), DayEnd(o - Weekday(o) + 7 + 6))
<1>. DEFINE monday == o - Weekday(o)
<1>1. monday \in Int
  BY WeekStartType
<1>2. o - Weekday(o) + 7 * 0 = monday /\ o - Weekday(o) + 7 * 1 = monday + 7
  BY <1>1
<1>. QED
  BY <1>2 DEF WeekRange

LEMMA MonthRanges ==
  ASSUME NEW date, date.year \in Int, date.month \in 1..12
  PROVE  LET y == date.year  m == date.month
             y1 == IF m < 12 THEN y ELSE y + 1
             m1 == IF m < 12 THEN m + 1 ELSE 1
         IN  /\ MonthRange(date, 0) = Range(DayStart(Ordinal(y, m, 1)),
                                            DayEnd(Ordinal(y, m, MonthLength(y, m))))
             /\ MonthRange(date, 1) = Range(DayStart(Ordinal(y1, m1, 1)),
                                            DayEnd(Ordinal(y1, m1, MonthLength(y1, m1))))
<1>. DEFINE y == date.year  m == date.month
            y1 == IF m < 12 THEN y ELSE y + 1
            m1 == IF m < 12 THEN m + 1 ELSE 1
<1>1. \A k \in 1..12 :
        /\ (k - 1 + 0) \div 12 = 0 /\ ((k - 1 + 0) % 12) + 1 = k
        /\ (k - 1 + 1) \div 12 = (IF k < 12 THEN 0 ELSE 1)
        /\ ((k - 1 + 1) % 12) + 1 = (IF k < 12 THEN k + 1 ELSE 1)
  OBVIOUS
<1>2. /\ y + ((m - 1 + 0) \div 12) = y /\ ((m - 1 + 0) % 12) + 1 = m
      /\ y + ((m - 1 + 1) \div 12) = y1 /\ ((m - 1 + 1) % 12) + 1 = m1
  BY <1>1
<1>. QED
  BY <1>2 DEF MonthRange

(***************************************************************************)
(* At midnight the ordinal of the date goes up by one, also at the end of  *)
(* a month, of a year and of February.                                     *)
(***************************************************************************)
LEMMA TomorrowIsNextDay ==
  ASSUME TypeOK
  PROVE  OrdinalOf(Tomorrow) = OrdinalOf(today) + 1
<1>. DEFINE y == today.year  m == today.month  d == today.day  length == MonthLength(y, m)
<1>1. /\ y \in 1..MaxYear /\ m \in 1..12 /\ d \in 1..31 /\ d =< length
      /\ today = [year |-> y, month |-> m, day |-> d]
  BY DEF TypeOK
<1>2. y \in Int /\ d \in Int
  BY <1>1, MaxYearType
<1>3. length \in Int
  BY <1>1, <1>2, MonthLengthType
<1>4. Ordinal(y, m, 1) \in Int /\ \A k \in Int : Ordinal(y, m, k) = Ordinal(y, m, 1) + k - 1
  <2>. HIDE DEF y, m, d
  <2>1. Ordinal(y, m, 1) \in Int
    BY <1>1, <1>2, MonthEndsType
  <2>2. ASSUME NEW k \in Int PROVE Ordinal(y, m, k) = Ordinal(y, m, 1) + k - 1
    BY <1>1, <1>2, OrdinalType
  <2>. QED
    BY <2>1, <2>2
<1>5. OrdinalOf(today) = Ordinal(y, m, d)
  BY DEF OrdinalOf
<1>6. CASE d < length
  <2>1. OrdinalOf(Tomorrow) = Ordinal(y, m, d + 1)
    BY <1>1, <1>6 DEF Tomorrow, OrdinalOf
  <2>2. Ordinal(y, m, d + 1) = Ordinal(y, m, 1) + (d + 1) - 1 /\ Ordinal(y, m, d) = Ordinal(y, m, 1) + d - 1
    BY <1>2, <1>4
  <2>. QED
    BY <1>2, <1>4, <1>5, <2>1, <2>2
<1>7. CASE ~ (d < length)
  <2>1. d = length
    BY <1>1, <1>2, <1>3, <1>7
  <2>2. Ordinal(y, m, length) + 1 = IF m < 12 THEN Ordinal(y, m + 1, 1) ELSE Ordinal(y + 1, 1, 1)
    BY <1>1, <1>2, MonthsTile
  <2>3. OrdinalOf(Tomorrow) = IF m < 12 THEN Ordinal(y, m + 1, 1) ELSE Ordinal(y + 1, 1, 1)
    BY <1>7 DEF Tomorrow, OrdinalOf
  <2>. QED
    BY <1>5, <2>1, <2>2, <2>3
<1>. QED
  BY <1>6, <1>7

(***************************************************************************)
(* A step of the clock leaves "this" as it is or makes it what "next" was. *)
(***************************************************************************)
LEMMA ThisGoesOn ==
  ASSUME TypeOK, [PassTick \/ Midnight]_vars, NEW period \in Periods
  PROVE  This(period)' = This(period) \/ This(period)' = Next(period)
<1>1. CASE today' = today
  BY <1>1 DEF This
<1>2. CASE today' = Tomorrow
  <2>. DEFINE y == today.year  m == today.month  d == today.day  o == OrdinalOf(today)
  <2>1. y \in 1..MaxYear /\ m \in 1..12 /\ d \in 1..31
    BY DEF TypeOK
  <2>2. y \in Int /\ d \in Int
    BY <2>1, MaxYearType
  <2>3. o \in Int
    BY <2>1, <2>2, OrdinalType DEF OrdinalOf
  <2>4. OrdinalOf(today') = o + 1
    BY <1>2, TomorrowIsNextDay
  <2>5. CASE period = "DAY"
    <3>1. This(period)' = DayRange(o + 1 + 0) /\ Next(period) = DayRange(o + 1)
      BY <2>4, <2>5 DEF This, Next, Resolve
    <3>2. o + 1 + 0 = o + 1
      BY <2>3
    <3>. QED
      BY <3>1, <3>2
  <2>6. CASE period = "WEEK"
    <3>1. /\ This(period)' = WeekRange(o + 1, 0)
          /\ This(period) = WeekRange(o, 0) /\ Next(period) = WeekRange(o, 1)
      BY <2>4, <2>6 DEF This, Next, Resolve
    <3>. HIDE DEF o
    <3>2. /\ WeekRange(o, 0) = Range(DayStart(o - Weekday(o)), DayEnd(o - Weekday(o) + 6))
          /\ WeekRange(o, 1) = Range(DayStart(o - Weekday(o) + 7), DayEnd(o - Weekday(o) + 7 + 6))
      BY <2>3, WeekRanges
    <3>. DEFINE o1 == o + 1
    <3>3. o1 \in Int /\ o1 = o + 1
      BY <2>3
    <3>. HIDE DEF o1
    <3>4. WeekRange(o1, 0) = Range(DayStart(o1 - Weekday(o1)), DayEnd(o1 - Weekday(o1) + 6))
      BY <3>3, WeekRanges
    <3>5. o1 - Weekday(o1) = o - Weekday(o) \/ o1 - Weekday(o1) = o - Weekday(o) + 7
      BY <2>3, <3>3 DEF Weekday
    <3>. QED
      BY <3>1, <3>2, <3>3, <3>4, <3>5
  <2>7. CASE period = "MONTH"
    <3>1. /\ This(period)' = MonthRange(today', 0)
          /\ This(period) = MonthRange(today, 0) /\ Next(period) = MonthRange(today, 1)
      BY <2>7 DEF This, Next, Resolve
    <3>2. CASE d < MonthLength(y, m)
      <4>1. today'.year = y /\ today'.month = m
        BY <1>2, <3>2 DEF Tomorrow, TypeOK
      <4>. QED
        BY <2>1, <2>2, <3>1, <4>1, MonthRanges
    <3>3. CASE ~ (d < MonthLength(y, m))
      <4>. DEFINE y1 == IF m < 12 THEN y ELSE y + 1
                  m1 == IF m < 12 THEN m + 1 ELSE 1
      <4>1. today'.year = y1 /\ today'.month = m1
        BY <1>2, <3>3 DEF Tomorrow
      <4>2. y1 \in Int /\ m1 \in 1..12
        BY <2>1, <2>2
      <4>3. MonthRange(today, 1) = Range(DayStart(Ordinal(y1, m1, 1)),
                                         DayEnd(Ordinal(y1, m1, MonthLength(y1, m1))))
        BY <2>1, <2>2, MonthRanges
      <4>. HIDE DEF y1, m1
      <4>4. MonthRange(today', 0) = Range(DayStart(Ordinal(y1, m1, 1)),
                                          DayEnd(Ordinal(y1, m1, MonthLength(y1, m1))))
        BY <4>1, <4>2, MonthRanges
      <4>. QED
        BY <3>1, <4>3, <4>4
    <3>. QED
      BY <3>2, <3>3
  <2>. QED
    BY <2>5, <2>6, <2>7 DEF Periods
<1>. QED
  BY <1>1, <1>2 DEF PassTick, Midnight, vars

(***************************************************************************)
(* What "this" selects stays the same until the period is over, and is     *)
(* then what "next" selected before it was over, whatever the date: the    *)
(* action property NextBecomesThis.                                        *)
(***************************************************************************)
THEOREM NextIsThisLater == Spec => NextBecomesThis
<1>1. ASSUME TypeOK, TypeOK', ThisIsNow', [PassTick \/ Midnight]_vars, NEW period \in Periods
      PROVE  This(period)' = IF Selects(This(period), Now') THEN This(period) ELSE Next(period)
  <2>. DEFINE this == This(period)  next == Next(period)  now == Now'
  <2>1. Selects(This(period)', now)
    BY <1>1 DEF ThisIsNow, Selects
  <2>2. This(period)' = this \/ This(period)' = next
    BY <1>1, ThisGoesOn
  <2>3. CASE This(period)' = this
    BY <2>1, <2>3
  <2>4. CASE This(period)' = next
    <3>1. this.end \in Int /\ next.start \in Int /\ this.end + 1 = next.start
      BY <1>1, PeriodsTile
    <3>2. now \in Int
      <4>1. today'.year \in 1..MaxYear /\ today'.month \in 1..12 /\ today'.day \in 1..31
            /\ tick' \in 0..(DayTicks - 1)
        BY <1>1 DEF TypeOK
      <4>2. today'.year \in Int /\ today'.day \in Int /\ tick' \in Int
        BY <4>1, MaxYearType, DateRangeAssumption
      <4>3. OrdinalOf(today') \in Int
        BY <4>1, <4>2, OrdinalType DEF OrdinalOf
      <4>. QED
        BY <4>2, <4>3, DaysTile DEF Now
    <3>3. next.start =< now
      BY <2>1, <2>4 DEF Selects
    <3>. HIDE DEF this, next, now
    <3>4. ~ (now =< this.end)
      BY <3>1, <3>2, <3>3
    <3>5. ~ Selects(this, now)
      BY <3>4 DEF Selects
    <3>. QED
      BY <2>4, <3>5 DEF this, next, now
  <2>. QED
    BY <2>2, <2>3, <2>4
<1>2. TypeOK /\ TypeOK' /\ ThisIsNow' /\ [PassTick \/ Midnight]_vars
        => [\A period \in Periods :
              This(period)' = IF Selects(This(period), Now') THEN This(period) ELSE Next(period)]_vars
  BY <1>1
<1>. QED
  BY <1>2, TypeCorrect, CurrentPeriod, PTL DEF Spec, NextBecomesThis
=============================================================================
