---------------------------- MODULE FinanceProofs ----------------------------
(***************************************************************************)
(* Proofs about the finance module of the API and the calendar it shares   *)
(* with the licenses: BillingPeriod, Dashboard and Finance.                *)
(*                                                                         *)
(* The calendar, for any years: months are numbered in one sequence, Start *)
(* is the first day of each, and every later fact follows from how far two *)
(* of them lie apart. That Start grows, and that every day lies in a       *)
(* month, is shown of the least number that would refute it, since there   *)
(* is no induction to cite. The invariant of a term says in which month it *)
(* ends.                                                                   *)
(*                                                                         *)
(* The movements, for any operators, requests and movements: a version     *)
(* number stands for one content of the row, so a row fetched earlier      *)
(* either has an older version than the table or is the row of the table;  *)
(* updateMany({id, version}) then writes only on the row its author saw,   *)
(* and that row was not voided when the handler read it.                   *)
(***************************************************************************)
EXTENDS Finance, Dashboard, FiniteSetTheorems, WellFoundedInduction, TLAPS

-----------------------------------------------------------------------------
(* The calendar *)

\* The months in one sequence: the first day of month n % 12 of year n \div 12.
Start(n) == FirstDay(n \div 12, n % 12)
Number(t) == 12 * Year(t) + Month(t)

LeapYears(year) == {y \in FirstYear..(year - 1) : Leap(y)}
LeapDay(year) == IF Leap(year) THEN 1 ELSE 0

LEMMA FirstDayIs ==
  ASSUME NEW year, NEW month
  PROVE  FirstDay(year, month) =
           365 * (year - FirstYear) + Cardinality(LeapYears(year))
             + DaysBefore[month + 1]
             + (IF month > 1 THEN LeapDay(year) ELSE 0)
BY DEF FirstDay, LeapYears, LeapDay

\* One more year has passed, and one more leap year if it was one.
LEMMA LeapCount ==
  ASSUME NEW year \in Int
  PROVE  /\ Cardinality(LeapYears(year)) \in Nat
         /\ year <= FirstYear => Cardinality(LeapYears(year)) = 0
         /\ year >= FirstYear =>
              Cardinality(LeapYears(year + 1))
                = Cardinality(LeapYears(year)) + LeapDay(year)
<1> USE CalendarAssumption
<1>1. IsFiniteSet(FirstYear..(year - 1))
  BY FS_Interval
<1>2. IsFiniteSet(LeapYears(year))
  BY <1>1, FS_Subset DEF LeapYears
<1>3. Cardinality(LeapYears(year)) \in Nat
  BY <1>2, FS_CardinalityType
<1>4. ASSUME year <= FirstYear PROVE Cardinality(LeapYears(year)) = 0
  <2>1. LeapYears(year) = {}
    BY <1>4 DEF LeapYears
  <2> QED
    BY <2>1, FS_EmptySet
<1>5. ASSUME year >= FirstYear
      PROVE  Cardinality(LeapYears(year + 1))
               = Cardinality(LeapYears(year)) + LeapDay(year)
  <2>1. CASE Leap(year)
    <3>1. LeapYears(year + 1) = LeapYears(year) \cup {year}
      BY <1>5, <2>1 DEF LeapYears
    <3>2. year \notin LeapYears(year)
      BY DEF LeapYears
    <3>3. Cardinality(LeapYears(year) \cup {year})
            = Cardinality(LeapYears(year)) + 1
      BY <1>2, <3>2, FS_AddElement
    <3> QED
      BY <2>1, <3>1, <3>3 DEF LeapDay
  <2>2. CASE ~Leap(year)
    <3>1. LeapYears(year + 1) = LeapYears(year)
      BY <1>5, <2>2 DEF LeapYears
    <3> QED
      BY <1>3, <2>2, <3>1 DEF LeapDay
  <2> QED
    BY <2>1, <2>2
<1> QED
  BY <1>3, <1>4, <1>5

\* A year has 365 days or 366.
LEMMA YearLength ==
  ASSUME NEW year \in Int, year >= FirstYear
  PROVE  /\ FirstDay(year, 0) \in Nat
         /\ FirstDay(year + 1, 0) \in Nat
         /\ FirstDay(year + 1, 0) = FirstDay(year, 0) + 365 + LeapDay(year)
<1> USE CalendarAssumption
<1> DEFINE n == Cardinality(LeapYears(year))
           s == Cardinality(LeapYears(year + 1))
<1>1. n \in Nat /\ s = n + LeapDay(year) /\ LeapDay(year) \in 0..1
  BY LeapCount DEF LeapDay
<1>2. FirstDay(year, 0) = 365 * (year - FirstYear) + n
  BY FirstDayIs, <1>1 DEF DaysBefore
<1>3. FirstDay(year + 1, 0) = 365 * (year + 1 - FirstYear) + s
  BY FirstDayIs, <1>1 DEF DaysBefore
<1> HIDE DEF n, s
<1> QED
  BY <1>1, <1>2, <1>3

\* The twelve entries of the table.
LEMMA MonthTable ==
  ASSUME NEW m \in 0..11
  PROVE  DaysBefore[m + 1] \in 0..334
<1>1. \/ m = 0 \/ m = 1 \/ m = 2 \/ m = 3 \/ m = 4 \/ m = 5
      \/ m = 6 \/ m = 7 \/ m = 8 \/ m = 9 \/ m = 10 \/ m = 11
  OBVIOUS
<1> QED
  BY <1>1 DEF DaysBefore

\* Eleven steps of the table, and the step from December to the next year.
LEMMA MonthLength ==
  ASSUME NEW year \in Int, year >= FirstYear, NEW month \in 0..10
  PROVE  /\ FirstDay(year, month) \in Nat
         /\ FirstDay(year, month + 1) \in Nat
         /\ FirstDay(year, month + 1) - FirstDay(year, month) \in 28..31
         /\ FirstDay(year + 1, 0) - FirstDay(year, 11) = 31
<1> USE CalendarAssumption
<1> DEFINE n == Cardinality(LeapYears(year))
           base == 365 * (year - FirstYear) + n
<1>1. n \in Nat /\ LeapDay(year) \in 0..1 /\ base \in Nat
  BY LeapCount DEF LeapDay
<1>2. ASSUME NEW m \in 0..11
      PROVE  FirstDay(year, m) = base + DaysBefore[m + 1]
                                   + (IF m > 1 THEN LeapDay(year) ELSE 0)
  BY FirstDayIs
<1>3. FirstDay(year, 0) = base
  BY <1>1, <1>2 DEF DaysBefore
<1>4. FirstDay(year + 1, 0) = base + 365 + LeapDay(year)
  BY <1>3, YearLength
<1> HIDE DEF base
<1>5. FirstDay(year, 11) = base + 334 + LeapDay(year)
  BY <1>1, <1>2 DEF DaysBefore
<1>6. /\ DaysBefore[month + 1] \in Nat /\ DaysBefore[month + 2] \in Nat
      /\ month # 1 =>
           DaysBefore[month + 2] - DaysBefore[month + 1] \in 30..31
      /\ month = 1 =>
           DaysBefore[month + 2] - DaysBefore[month + 1] = 28
  <2>1. \/ month = 0 \/ month = 1 \/ month = 2 \/ month = 3 \/ month = 4
        \/ month = 5 \/ month = 6 \/ month = 7 \/ month = 8 \/ month = 9
        \/ month = 10
    OBVIOUS
  <2> QED
    BY <2>1 DEF DaysBefore
<1>7. FirstDay(year, month) = base + DaysBefore[month + 1]
                                   + (IF month > 1 THEN LeapDay(year) ELSE 0)
  BY <1>2
<1>8. FirstDay(year, month + 1) = base + DaysBefore[month + 2]
                                + (IF month > 0 THEN LeapDay(year) ELSE 0)
  <2>1. month + 1 \in 0..11 /\ month + 1 + 1 = month + 2
        /\ (month + 1 > 1 <=> month > 0)
    OBVIOUS
  <2> QED
    BY <1>2, <2>1
<1> QED
  BY <1>1, <1>4, <1>5, <1>6, <1>7, <1>8

\* What a month past the end of its year carries on.
LEMMA DivMod ==
  ASSUME NEW y \in Int, NEW k \in Int
  PROVE  /\ (12 * y + k) \div 12 = y + (k \div 12)
         /\ (12 * y + k) % 12 = k % 12
         /\ k \div 12 \in Int /\ k % 12 \in 0..11
         /\ k = 12 * (k \div 12) + (k % 12)
OBVIOUS

\* Every month has a year, and only one.
LEMMA MonthHasYear ==
  ASSUME NEW n \in Int
  PROVE  \E y \in Int, m \in 0..11 : n = 12 * y + m
<1>1. n \div 12 \in Int /\ n % 12 \in 0..11 /\ n = 12 * (n \div 12) + (n % 12)
  OBVIOUS
<1> QED
  BY <1>1

LEMMA OneDate ==
  ASSUME NEW y \in Nat, NEW m \in 0..11, NEW z \in Nat, NEW k \in 0..11,
         12 * y + m = 12 * z + k
  PROVE  y = z /\ m = k
OBVIOUS

\* MakeDay counts days from the first of a month, n in all.
LEMMA MakeDayIs ==
  ASSUME NEW y \in Int, NEW k \in Int, NEW d, NEW n \in Int,
         n = 12 * y + k
  PROVE  MakeDay(y, k, d) = Start(n) + d - 1
<1>1. n \div 12 = y + (k \div 12) /\ n % 12 = k % 12
  BY DivMod
<1> QED
  BY <1>1 DEF MakeDay, Start

LEMMA StartIs ==
  ASSUME NEW y \in Int, NEW m \in 0..11
  PROVE  Start(12 * y + m) = FirstDay(y, m)
<1>1. m \div 12 = 0 /\ m % 12 = m
  OBVIOUS
<1> QED
  BY <1>1, DivMod DEF Start

\* A month has 28 to 31 days, whichever year it is in.
LEMMA NextMonth ==
  ASSUME NEW n \in Int, n >= 12 * FirstYear
  PROVE  /\ Start(n) \in Nat /\ Start(n + 1) \in Nat
         /\ Start(n + 1) - Start(n) \in 28..31
<1> USE CalendarAssumption
<1>1. PICK y \in Int, m \in 0..11 : n = 12 * y + m
  BY MonthHasYear
<1>2. y >= FirstYear
  BY <1>1
<1>3. Start(n) = FirstDay(y, m)
  BY <1>1, StartIs
<1>4. CASE m <= 10
  <2>1. n + 1 = 12 * y + (m + 1) /\ m + 1 \in 0..11
    BY <1>1, <1>4
  <2>2. Start(n + 1) = FirstDay(y, m + 1)
    BY <2>1, StartIs
  <2> QED
    BY <1>2, <1>3, <1>4, <2>2, MonthLength
<1>5. CASE m = 11
  <2>1. Start(n + 1) = FirstDay(y + 1, 0)
    <3>1. n + 1 = 12 * (y + 1) + 0
      BY <1>1, <1>5
    <3> QED
      BY <3>1, StartIs
  <2>2. FirstDay(y + 1, 0) - FirstDay(y, 11) = 31
    BY <1>2, MonthLength
  <2>3. FirstDay(y, 11) \in Nat /\ FirstDay(y + 1, 0) \in Nat
    BY <1>2, MonthLength, YearLength
  <2> QED
    BY <1>3, <1>5, <2>1, <2>2, <2>3
<1> QED
  BY <1>1, <1>4, <1>5

\* Twelve months have 365 or 366.
LEMMA NextYear ==
  ASSUME NEW n \in Int, n >= 12 * FirstYear
  PROVE  Start(n + 12) - Start(n) \in 365..366
<1> USE CalendarAssumption
<1>1. PICK y \in Int, m \in 0..11 : n = 12 * y + m
  BY MonthHasYear
<1>2. y >= FirstYear
  BY <1>1
<1>3. Start(n) = FirstDay(y, m) /\ Start(n + 12) = FirstDay(y + 1, m)
  <2>1. n + 12 = 12 * (y + 1) + m /\ y + 1 \in Int
    BY <1>1
  <2>2. Start(12 * (y + 1) + m) = FirstDay(y + 1, m)
    BY <2>1, StartIs
  <2> QED
    BY <1>1, <2>1, <2>2, StartIs
<1>4. /\ Cardinality(LeapYears(y)) \in Nat
      /\ Cardinality(LeapYears(y + 1))
           = Cardinality(LeapYears(y)) + LeapDay(y)
      /\ LeapDay(y) \in 0..1 /\ LeapDay(y + 1) \in 0..1
  BY <1>2, LeapCount DEF LeapDay
<1>5. DaysBefore[m + 1] \in 0..334
  BY MonthTable
<1>6. /\ FirstDay(y, m) = 365 * (y - FirstYear) + Cardinality(LeapYears(y))
           + DaysBefore[m + 1] + (IF m > 1 THEN LeapDay(y) ELSE 0)
      /\ FirstDay(y + 1, m)
           = 365 * (y + 1 - FirstYear) + Cardinality(LeapYears(y + 1))
               + DaysBefore[m + 1] + (IF m > 1 THEN LeapDay(y + 1) ELSE 0)
  BY FirstDayIs
<1> QED
  BY <1>2, <1>3, <1>4, <1>5, <1>6

\* A set of numbers that is not empty has a least one: what stands for
\* induction below.
LEMMA Least ==
  ASSUME NEW T \in SUBSET Nat, T # {}
  PROVE  \E n \in T : \A k \in T : n <= k
<1> DEFINE R == OpToRel(<, Nat)
<1>1. \E n \in T : \A k \in T : ~(<<k, n>> \in R)
  <2>1. IsWellFoundedOn(R, Nat)
    BY NatLessThanWellFounded
  <2> HIDE DEF R
  <2> QED
    BY <2>1, WFMin
<1>2. PICK n \in T : \A k \in T : ~(<<k, n>> \in R)
  BY <1>1
<1>3. \A k \in T : ~(k < n)
  BY <1>2 DEF OpToRel
<1>4. \A k \in T : n <= k
  BY <1>3
<1> QED
  BY <1>4

\* Months follow each other.
LEMMA Later ==
  ASSUME NEW a \in Nat, a >= 12 * FirstYear, NEW b \in Nat, a < b
  PROVE  Start(a) + 28 <= Start(b)
<1> USE CalendarAssumption
<1> DEFINE T == {n \in Nat : a < n /\ ~(Start(a) + 28 <= Start(n))}
<1>1. SUFFICES ASSUME T # {} PROVE FALSE
  OBVIOUS
<1>2. PICK n \in T : \A k \in T : n <= k
  <2>1. T \in SUBSET Nat
    OBVIOUS
  <2> HIDE DEF T
  <2> QED
    BY <1>1, <2>1, Least
<1>3. n \in Nat /\ a < n /\ ~(Start(a) + 28 <= Start(n))
  BY <1>2
<1>4. n - 1 \in Nat /\ n - 1 >= a /\ n - 1 >= 12 * FirstYear
  BY <1>3
<1>5. /\ Start(n - 1) \in Nat /\ Start(n) \in Nat
      /\ Start(n) - Start(n - 1) \in 28..31
  <2>1. (n - 1) + 1 = n
    BY <1>3
  <2> QED
    BY <1>4, <2>1, NextMonth
<1>6. n - 1 # a
  BY <1>3, <1>5
<1>7. n - 1 \notin T
  BY <1>2, <1>3
<1>8. Start(a) + 28 <= Start(n - 1)
  BY <1>4, <1>6, <1>7
<1>9. Start(a) \in Nat
  BY NextMonth
<1> QED
  BY <1>3, <1>5, <1>8, <1>9

LEMMA NotEarlier ==
  ASSUME NEW a \in Nat, a >= 12 * FirstYear, NEW b \in Nat, a <= b
  PROVE  Start(a) \in Nat /\ Start(b) \in Nat /\ Start(a) <= Start(b)
<1> USE CalendarAssumption
<1>1. Start(a) \in Nat /\ Start(b) \in Nat
  BY NextMonth
<1>2. a = b \/ Start(a) + 28 <= Start(b)
  BY Later
<1> QED
  BY <1>1, <1>2

InMonth(t, n) == n >= 12 * FirstYear /\ Start(n) <= t /\ t < Start(n + 1)

\* A day is in one month only,
LEMMA OneMonth ==
  ASSUME NEW t \in Nat, NEW a \in Nat, NEW b \in Nat,
         InMonth(t, a), InMonth(t, b)
  PROVE  a = b
<1> USE CalendarAssumption
<1>1. SUFFICES ASSUME NEW x \in Nat, NEW y \in Nat, x < y,
                      InMonth(t, x), InMonth(t, y)
               PROVE  FALSE
  BY ONLY a \in Nat, b \in Nat, InMonth(t, a), InMonth(t, b), <1>1
<1>2. x + 1 \in Nat /\ x + 1 <= y /\ x + 1 >= 12 * FirstYear
  BY <1>1 DEF InMonth
<1>3. Start(x + 1) \in Nat /\ Start(y) \in Nat /\ Start(x + 1) <= Start(y)
  BY <1>2, NotEarlier
<1> QED
  BY <1>1, <1>3 DEF InMonth

LEMMA ManyDays ==
  ASSUME NEW k \in Nat
  PROVE  FirstDay(FirstYear + k, 0) \in Nat
         /\ FirstDay(FirstYear + k, 0) >= 365 * k
<1> USE CalendarAssumption
<1>1. FirstYear + k \in Int
  OBVIOUS
<1>2. Cardinality(LeapYears(FirstYear + k)) \in Nat
  BY <1>1, LeapCount
<1>3. FirstDay(FirstYear + k, 0)
        = 365 * k + Cardinality(LeapYears(FirstYear + k))
  BY <1>1, <1>2, FirstDayIs DEF DaysBefore
<1> QED
  BY <1>2, <1>3

\* and from the first day on it is in some month.
LEMMA SomeMonth ==
  ASSUME NEW t \in Nat
  PROVE  \E n \in Nat : InMonth(t, n)
<1> USE CalendarAssumption
<1> DEFINE T == {n \in Nat : n >= 12 * FirstYear /\ t < Start(n + 1)}
<1>1. 12 * (FirstYear + t + 1) \in T
  <2>1. /\ FirstDay(FirstYear + (t + 1), 0) \in Nat
        /\ FirstDay(FirstYear + (t + 1), 0) >= 365 * (t + 1)
    BY ManyDays
  <2>2. Start(12 * (FirstYear + (t + 1)) + 0)
          = FirstDay(FirstYear + (t + 1), 0)
    <3>1. FirstYear + (t + 1) \in Int
      OBVIOUS
    <3> QED
      BY <3>1, StartIs
  <2> DEFINE n == 12 * (FirstYear + t + 1)
  <2>3. n \in Nat /\ n >= 12 * FirstYear
        /\ n = 12 * (FirstYear + (t + 1)) + 0
    OBVIOUS
  <2>4. t < Start(n)
    BY <2>1, <2>2, <2>3
  <2>5. Start(n) \in Nat /\ Start(n + 1) \in Nat /\ Start(n) <= Start(n + 1)
    <3>1. n + 1 \in Nat /\ n <= n + 1
      BY <2>3
    <3> HIDE DEF n
    <3> QED
      BY <2>3, <3>1, NotEarlier
  <2> QED
    BY <2>3, <2>4, <2>5
<1>2. PICK n \in T : \A k \in T : n <= k
  <2>1. T \in SUBSET Nat /\ T # {}
    BY <1>1
  <2> HIDE DEF T
  <2> QED
    BY <2>1, Least
<1>3. n \in Nat /\ n >= 12 * FirstYear /\ t < Start(n + 1)
  BY <1>2
<1>4. Start(n) <= t
  <2>1. Start(n) \in Nat
    BY <1>3, NextMonth
  <2>2. CASE n = 12 * FirstYear
    <3>1. Start(12 * FirstYear + 0) = FirstDay(FirstYear, 0)
      BY StartIs
    <3>2. Cardinality(LeapYears(FirstYear)) = 0
      BY LeapCount
    <3>3. FirstDay(FirstYear, 0) = 0
      BY <3>2, FirstDayIs DEF DaysBefore
    <3>4. 12 * FirstYear + 0 = 12 * FirstYear
      OBVIOUS
    <3> QED
      BY <2>2, <3>1, <3>3, <3>4
  <2>3. CASE n > 12 * FirstYear
    <3>1. n - 1 \in Nat /\ n - 1 >= 12 * FirstYear /\ (n - 1) + 1 = n
      BY <1>3, <2>3
    <3>2. n - 1 \notin T
      BY <1>2, <1>3
    <3> QED
      BY <2>1, <3>1, <3>2
  <2> QED
    BY <1>3, <2>2, <2>3
<1> QED
  BY <1>3, <1>4 DEF InMonth

\* What Year and Month compute: the month the day is in.
LEMMA DateOf ==
  ASSUME NEW t \in Nat, NEW n \in Nat, InMonth(t, n)
  PROVE  Year(t) = n \div 12 /\ Month(t) = n % 12
<1> USE CalendarAssumption
<1> DEFINE y == n \div 12
           m == n % 12
<1>1. n = 12 * y + m /\ y \in Nat /\ m \in 0..11 /\ y >= FirstYear
  BY DivMod DEF InMonth
<1> HIDE DEF y, m
<1>2. ASSUME NEW k \in Int PROVE Start(12 * k) = FirstDay(k, 0)
  <2>1. 12 * k + 0 = 12 * k
    OBVIOUS
  <2> QED
    BY <2>1, StartIs
<1>3. FirstDay(y, 0) <= t /\ t < FirstDay(y + 1, 0)
  <2>1. /\ 12 * y \in Nat /\ 12 * y >= 12 * FirstYear /\ 12 * y <= n
        /\ n + 1 \in Nat /\ n + 1 >= 12 * FirstYear
        /\ 12 * (y + 1) \in Nat /\ n + 1 <= 12 * (y + 1)
        /\ y \in Int /\ y + 1 \in Int
    BY <1>1
  <2>2. /\ Start(12 * y) \in Nat /\ Start(n) \in Nat
        /\ Start(12 * y) <= Start(n)
    BY <2>1, NotEarlier
  <2>3. /\ Start(n + 1) \in Nat /\ Start(12 * (y + 1)) \in Nat
        /\ Start(n + 1) <= Start(12 * (y + 1))
    BY <2>1, NotEarlier
  <2> QED
    BY <1>2, <2>1, <2>2, <2>3 DEF InMonth
<1>4. y \in FirstYear..(FirstYear + (t \div 365))
  <2>1. PICK k \in Nat : y = FirstYear + k
    <3>1. y - FirstYear \in Nat /\ y = FirstYear + (y - FirstYear)
      BY <1>1
    <3> QED
      BY <3>1
  <2>2. 365 * k <= t
    BY <1>3, <2>1, ManyDays
  <2>3. k <= t \div 365
    BY <2>2
  <2>4. t \div 365 \in Nat
    OBVIOUS
  <2> QED
    BY <1>1, <2>1, <2>3, <2>4
<1>5. ASSUME NEW z \in FirstYear..(FirstYear + (t \div 365)),
             FirstDay(z, 0) <= t, t < FirstDay(z + 1, 0)
      PROVE  z = y
  <2>1. z \in Nat /\ z >= FirstYear /\ z + 1 \in Nat
    BY <1>1
  <2>2. CASE z < y
    <3>1. /\ 12 * (z + 1) \in Nat /\ 12 * (z + 1) >= 12 * FirstYear
          /\ 12 * y \in Nat /\ 12 * (z + 1) <= 12 * y
      BY <1>1, <2>1, <2>2
    <3>2. /\ Start(12 * (z + 1)) \in Nat /\ Start(12 * y) \in Nat
          /\ Start(12 * (z + 1)) <= Start(12 * y)
      BY <3>1, NotEarlier
    <3> QED
      BY <1>1, <1>2, <1>3, <1>5, <2>1, <3>2
  <2>3. CASE y < z
    <3>1. /\ 12 * (y + 1) \in Nat /\ 12 * (y + 1) >= 12 * FirstYear
          /\ 12 * z \in Nat /\ 12 * (y + 1) <= 12 * z
          /\ y + 1 \in Int
      BY <1>1, <2>1, <2>3
    <3>2. /\ Start(12 * (y + 1)) \in Nat /\ Start(12 * z) \in Nat
          /\ Start(12 * (y + 1)) <= Start(12 * z)
      BY <3>1, NotEarlier
    <3> QED
      BY <1>1, <1>2, <1>3, <1>5, <2>1, <3>1, <3>2
  <2> QED
    BY <1>1, <2>1, <2>2, <2>3
<1>6. Year(t) = y
  BY <1>3, <1>4, <1>5 DEF Year
<1>7. ASSUME NEW k \in 0..11 PROVE Start(12 * y + k) = FirstDay(y, k)
  <2>1. y \in Int
    BY <1>1
  <2> QED
    BY ONLY <2>1, k \in 0..11, StartIs
<1>8. FirstDay(y, m) <= t
  BY <1>1, <1>7 DEF InMonth
<1>9. ASSUME NEW k \in (m + 1)..11 PROVE t < FirstDay(y, k)
  <2>1. /\ k \in 0..11 /\ n + 1 \in Nat /\ n + 1 >= 12 * FirstYear
        /\ 12 * y + k \in Nat /\ n + 1 <= 12 * y + k
    BY <1>1
  <2>2. /\ Start(n + 1) \in Nat /\ Start(12 * y + k) \in Nat
        /\ Start(n + 1) <= Start(12 * y + k)
    BY <2>1, NotEarlier
  <2> QED
    BY <1>7, <2>1, <2>2 DEF InMonth
<1>10. ASSUME NEW k \in 0..11, FirstDay(y, k) <= t,
              \A later \in (k + 1)..11 : t < FirstDay(y, later)
       PROVE  k = m
  <2>1. ~(k < m)
    <3>1. SUFFICES ASSUME k < m PROVE FALSE
      OBVIOUS
    <3>2. m \in (k + 1)..11
      BY <1>1, <3>1
    <3>3. FirstDay(y, m) \in Nat
      BY <1>1, <1>7, NextMonth
    <3> QED
      BY <1>8, <1>10, <3>2, <3>3
  <2>2. ~(m < k)
    <3>1. SUFFICES ASSUME m < k PROVE FALSE
      OBVIOUS
    <3>2. k \in (m + 1)..11
      BY <1>1, <3>1
    <3>3. FirstDay(y, k) \in Nat
      <4>1. 12 * y + k \in Int /\ 12 * y + k >= 12 * FirstYear
        BY <1>1
      <4> QED
        BY <1>7, <4>1, NextMonth
    <3> QED
      BY <1>9, <1>10, <3>2, <3>3
  <2> QED
    BY <1>1, <2>1, <2>2
<1>11. Month(t) = m
  BY <1>1, <1>6, <1>8, <1>9, <1>10 DEF Month
<1> QED
  BY <1>6, <1>11 DEF y, m

\* Every day from the first on is in the month that Year and Month say.
LEMMA NumberIs ==
  ASSUME NEW t \in Nat
  PROVE  /\ Number(t) \in Nat /\ Year(t) \in Nat /\ Month(t) \in 0..11
         /\ InMonth(t, Number(t))
         /\ DayOfMonth(t) = t - Start(Number(t)) + 1
         /\ \A n \in Nat : InMonth(t, n) => n = Number(t)
<1>1. PICK n \in Nat : InMonth(t, n)
  BY SomeMonth
<1>2. Year(t) = n \div 12 /\ Month(t) = n % 12
  BY <1>1, DateOf
<1>3. /\ n = 12 * Year(t) + Month(t)
      /\ Year(t) \in Nat /\ Month(t) \in 0..11
  <2>1. /\ n = 12 * (n \div 12) + (n % 12)
        /\ n \div 12 \in Nat /\ n % 12 \in 0..11
    OBVIOUS
  <2> QED
    BY <1>2, <2>1
<1>4. Start(Number(t)) = FirstDay(Year(t), Month(t))
  <2>1. Year(t) \in Int /\ Month(t) \in 0..11
    BY <1>3
  <2> QED
    BY ONLY <2>1, StartIs DEF Number
<1> QED
  BY <1>1, <1>3, <1>4, OneMonth DEF Number, DayOfMonth

\* DayOfMonth counts from the first of the month.
LEMMA DayInMonth ==
  ASSUME NEW t \in Nat
  PROVE  /\ Start(Number(t)) \in Nat /\ Start(Number(t) + 1) \in Nat
         /\ DayOfMonth(t) \in 1..31
         /\ t = Start(Number(t)) + DayOfMonth(t) - 1
<1>1. /\ Number(t) \in Nat /\ InMonth(t, Number(t))
      /\ DayOfMonth(t) = t - Start(Number(t)) + 1
  BY NumberIs
<1>2. /\ Start(Number(t)) \in Nat /\ Start(Number(t) + 1) \in Nat
      /\ Start(Number(t) + 1) - Start(Number(t)) \in 28..31
  BY <1>1, NextMonth DEF InMonth
<1> HIDE DEF Number
<1> QED
  BY <1>1, <1>2 DEF InMonth

\* MakeDay counts months and days from those of a date: the cases of AddDays
\* and AddBillingPeriod.
LEMMA ShiftedByDays ==
  ASSUME NEW t \in Nat, NEW d \in Int
  PROVE  MakeDay(Year(t), Month(t), d) = Start(Number(t)) + d - 1
<1> DEFINE a == Year(t)
           b == Month(t)
           n == Number(t)
<1>1. a \in Int /\ b \in Int /\ n \in Int /\ n = 12 * a + b
  <2>1. Year(t) \in Nat /\ Month(t) \in 0..11
    BY NumberIs
  <2> QED
    BY <2>1 DEF Number
<1> HIDE DEF a, b, n
<1>2. MakeDay(a, b, d) = Start(n) + d - 1
  BY ONLY <1>1, MakeDayIs
<1> QED
  BY <1>2 DEF a, b, n

LEMMA ShiftedByMonth ==
  ASSUME NEW t \in Nat, NEW d \in Int
  PROVE  MakeDay(Year(t), Month(t) + 1, d) = Start(Number(t) + 1) + d - 1
<1> DEFINE a == Year(t)
           b == Month(t) + 1
           n == Number(t) + 1
<1>1. a \in Int /\ b \in Int /\ n \in Int /\ n = 12 * a + b
  <2>1. Year(t) \in Nat /\ Month(t) \in 0..11
    BY NumberIs
  <2> QED
    BY <2>1 DEF Number
<1> HIDE DEF a, b, n
<1>2. MakeDay(a, b, d) = Start(n) + d - 1
  BY ONLY <1>1, MakeDayIs
<1> QED
  BY <1>2 DEF a, b, n

LEMMA ShiftedByYear ==
  ASSUME NEW t \in Nat, NEW d \in Int
  PROVE  MakeDay(Year(t) + 1, Month(t), d) = Start(Number(t) + 12) + d - 1
<1> DEFINE a == Year(t) + 1
           b == Month(t)
           n == Number(t) + 12
<1>1. a \in Int /\ b \in Int /\ n \in Int /\ n = 12 * a + b
  <2>1. Year(t) \in Nat /\ Month(t) \in 0..11
    BY NumberIs
  <2> QED
    BY <2>1 DEF Number
<1> HIDE DEF a, b, n
<1>2. MakeDay(a, b, d) = Start(n) + d - 1
  BY ONLY <1>1, MakeDayIs
<1> QED
  BY <1>2 DEF a, b, n

Ahead == [monthly |-> 1, yearly |-> 12]

\* AddBillingPeriod keeps the day and moves it one month or twelve ahead,
\* past the end of a short month if need be.
LEMMA PeriodAdded ==
  ASSUME NEW t \in Nat, NEW period \in Periods
  PROVE  /\ Start(Number(t) + Ahead[period]) \in Nat
         /\ AddBillingPeriod(t, period)
              = Start(Number(t) + Ahead[period]) + DayOfMonth(t) - 1
         /\ AddBillingPeriod(t, period) \in Nat
         /\ AddBillingPeriod(t, period) - t \in Lengths[period]
<1> DEFINE n == Number(t)
           d == DayOfMonth(t)
<1>1. /\ n \in Nat /\ n >= 12 * FirstYear /\ Start(n) \in Nat
      /\ d \in 1..31 /\ t = Start(n) + d - 1
      /\ Year(t) \in Nat /\ Month(t) \in 0..11
  BY NumberIs, DayInMonth DEF InMonth
<1>2. CASE period = "monthly"
  <2>1. d \in Int
    BY <1>1
  <2>2. AddBillingPeriod(t, period) = Start(n + 1) + d - 1
    <3> HIDE DEF d
    <3>1. MakeDay(Year(t), Month(t) + 1, d) = Start(n + 1) + d - 1
      BY <2>1, ShiftedByMonth
    <3> QED
      BY <1>2, <3>1 DEF AddBillingPeriod, d
  <2>3. Start(n + 1) \in Nat /\ Start(n + 1) - Start(n) \in 28..31
    <3> HIDE DEF n
    <3> QED
      BY <1>1, NextMonth
  <2>4. Ahead[period] = 1 /\ Lengths[period] = 28..31
    BY <1>2 DEF Ahead, Lengths
  <2> HIDE DEF n, d
  <2>5. AddBillingPeriod(t, period) - t = Start(n + 1) - Start(n)
    BY <1>1, <2>2, <2>3
  <2> QED
    BY <1>1, <2>2, <2>3, <2>4, <2>5 DEF n, d
<1>3. CASE period = "yearly"
  <2>1. d \in Int
    BY <1>1
  <2>2. AddBillingPeriod(t, period) = Start(n + 12) + d - 1
    <3> HIDE DEF d
    <3>1. MakeDay(Year(t) + 1, Month(t), d) = Start(n + 12) + d - 1
      BY <2>1, ShiftedByYear
    <3> QED
      BY <1>3, <3>1 DEF AddBillingPeriod, d
  <2>3. Start(n + 12) \in Int /\ Start(n + 12) - Start(n) \in 365..366
    <3> HIDE DEF n
    <3>1. n + 12 \in Nat /\ n + 12 >= 12 * FirstYear
      BY <1>1, CalendarAssumption
    <3>2. Start(n + 12) \in Nat
      BY <3>1, NextMonth
    <3>3. Start(n + 12) - Start(n) \in 365..366
      BY <1>1, NextYear
    <3> QED
      BY <3>2, <3>3
  <2>4. Ahead[period] = 12 /\ Lengths[period] = 365..366
    BY <1>3 DEF Ahead, Lengths
  <2> HIDE DEF n, d
  <2>5. AddBillingPeriod(t, period) - t = Start(n + 12) - Start(n)
    BY <1>1, <2>2, <2>3
  <2> QED
    BY <1>1, <2>2, <2>3, <2>4, <2>5 DEF n, d
<1> QED
  BY <1>2, <1>3 DEF Periods

LEMMA DaysAreNat ==
  /\ FirstDay(LastYear + 1, 0) \in Nat
  /\ Days = 0..(FirstDay(LastYear + 1, 0) - 1)
  /\ Days \subseteq Nat
<1> USE CalendarAssumption
<1>1. FirstDay(LastYear + 1, 0) \in Nat
  BY YearLength
<1>2. FirstDay(FirstYear, 0) = 0
  <2>1. Cardinality(LeapYears(FirstYear)) = 0
    BY LeapCount
  <2> QED
    BY <2>1, FirstDayIs DEF DaysBefore
<1> QED
  BY <1>1, <1>2 DEF Days

\* A renewal grants 28 to 31 days, or 365 or 366, from whatever day it starts
\* (addBillingPeriod of billing-period.ts).
THEOREM PeriodsHaveTheirLength == TermSpec => PeriodHasItsLength
<1>1. ASSUME NEW period \in Periods
      PROVE  /\ RenewOnTime(period) => endsAt' - endsAt \in Lengths[period]
             /\ \A late \in 1..MaxLate :
                  RenewLate(period, endsAt + late)
                    => endsAt' - (endsAt + late) \in Lengths[period]
  <2>1. ASSUME RenewOnTime(period)
        PROVE  endsAt' - endsAt \in Lengths[period]
    BY <2>1, DaysAreNat, PeriodAdded DEF RenewOnTime
  <2>2. ASSUME NEW late \in 1..MaxLate, RenewLate(period, endsAt + late)
        PROVE  endsAt' - (endsAt + late) \in Lengths[period]
    <3>1. PICK now \in Nat : /\ now = endsAt + late
                             /\ endsAt' = AddBillingPeriod(now, period)
      BY <2>2, DaysAreNat DEF RenewLate
    <3> QED
      BY <3>1, PeriodAdded
  <2> QED
    BY <2>1, <2>2
<1>2. [\A period \in Periods :
         /\ RenewOnTime(period) => endsAt' - endsAt \in Lengths[period]
         /\ \A late \in 1..MaxLate :
              RenewLate(period, endsAt + late)
                => endsAt' - (endsAt + late) \in Lengths[period]]_termVars
  BY <1>1
<1> QED
  BY <1>2, PTL DEF PeriodHasItsLength

\* What Licenses assumes of addBillingPeriod when it gives a period a positive
\* length: the end of a term lies after its start.
THEOREM PeriodsEndLater ==
  \A t \in Days, period \in Periods : AddBillingPeriod(t, period) > t
<1> SUFFICES ASSUME NEW t \in Days, NEW period \in Periods
             PROVE  AddBillingPeriod(t, period) > t
  OBVIOUS
<1>1. t \in Nat
  BY DaysAreNat
<1>2. /\ AddBillingPeriod(t, period) \in Nat
      /\ AddBillingPeriod(t, period) - t \in Lengths[period]
  BY <1>1, PeriodAdded
<1>3. Lengths[period] \subseteq 28..366
  BY DEF Lengths, Periods
<1> QED
  BY <1>1, <1>2, <1>3

\* The month a term ends in, as many months and years after its anchor as
\* were granted.
EndMonth(from, m, y) == Number(from) + 12 * y + m

Anchored(end, from, m, y) ==
  /\ end \in Nat /\ from \in Nat /\ m \in Nat /\ y \in Nat
  /\ DayOfMonth(from) <= 28 =>
       end = Start(EndMonth(from, m, y)) + DayOfMonth(from) - 1

TermInv == Anchored(endsAt, anchor, months, years)

\* EndsAreAnchored in months.
LEMMA AnchoredIs ==
  ASSUME NEW from \in Nat, NEW m \in Nat, NEW y \in Nat
  PROVE  MakeDay(Year(from) + y, Month(from) + m, DayOfMonth(from))
           = Start(EndMonth(from, m, y)) + DayOfMonth(from) - 1
<1> DEFINE d == DayOfMonth(from)
           n == EndMonth(from, m, y)
           a == Year(from) + y
           b == Month(from) + m
<1>1. a \in Int /\ b \in Int /\ n \in Int /\ n = 12 * a + b
  <2>1. Year(from) \in Nat /\ Month(from) \in 0..11
    BY NumberIs
  <2> QED
    BY <2>1 DEF Number, EndMonth
<1> HIDE DEF a, b, d, n
<1>2. MakeDay(a, b, d) = Start(n) + d - 1
  BY ONLY <1>1, MakeDayIs
<1> QED
  BY <1>2 DEF a, b, d, n

\* AddDays adds days.
LEMMA DaysAdded ==
  ASSUME NEW t \in Nat, NEW days \in Nat
  PROVE  AddDays(t, days) = t + days
<1>1. /\ Start(Number(t)) \in Nat
      /\ DayOfMonth(t) \in 1..31
      /\ t = Start(Number(t)) + DayOfMonth(t) - 1
  BY DayInMonth
<1>2. DayOfMonth(t) + days \in Int
  BY <1>1
<1>3. AddDays(t, days) = Start(Number(t)) + (DayOfMonth(t) + days) - 1
  BY <1>2, ShiftedByDays DEF AddDays
<1> QED
  BY <1>1, <1>3

\* A term that starts at a date with its first period.
LEMMA FirstPeriod ==
  ASSUME NEW t \in Nat, NEW period \in Periods
  PROVE  Anchored(AddBillingPeriod(t, period), t,
                  IF period = "monthly" THEN 1 ELSE 0,
                  IF period = "yearly" THEN 1 ELSE 0)
<1> DEFINE m == IF period = "monthly" THEN 1 ELSE 0
           y == IF period = "yearly" THEN 1 ELSE 0
<1>1. /\ AddBillingPeriod(t, period) \in Nat
      /\ AddBillingPeriod(t, period)
           = Start(Number(t) + Ahead[period]) + DayOfMonth(t) - 1
  BY PeriodAdded
<1>2. m \in Nat /\ y \in Nat /\ 12 * y + m = Ahead[period]
  BY DEF Periods, Ahead
<1> HIDE DEF m, y
<1>3. EndMonth(t, m, y) = Number(t) + Ahead[period]
  <2>1. Number(t) \in Nat
    BY NumberIs
  <2> QED
    BY <1>2, <2>1 DEF EndMonth
<1>4. Anchored(AddBillingPeriod(t, period), t, m, y)
  BY <1>1, <1>2, <1>3 DEF Anchored
<1> QED
  BY <1>4 DEF m, y

\* A trial is the first anchor: no period has been granted yet.
LEMMA NoPeriodYet ==
  ASSUME NEW t \in Nat
  PROVE  Anchored(t, t, 0, 0)
<1>1. t = Start(Number(t)) + DayOfMonth(t) - 1
  BY DayInMonth
<1>2. EndMonth(t, 0, 0) = Number(t)
  <2>1. Number(t) \in Nat
    BY NumberIs
  <2> QED
    BY <2>1 DEF EndMonth
<1> QED
  BY <1>1, <1>2 DEF Anchored

\* A term that ends on the 28th or earlier ends on that day of its month, so
\* the next period ends on that day as well.
LEMMA NextPeriod ==
  ASSUME NEW end, NEW from, NEW m, NEW y, Anchored(end, from, m, y),
         NEW period \in Periods
  PROVE  Anchored(AddBillingPeriod(end, period), from,
                  m + (IF period = "monthly" THEN 1 ELSE 0),
                  y + (IF period = "yearly" THEN 1 ELSE 0))
<1> DEFINE d == DayOfMonth(from)
           n == EndMonth(from, m, y)
           m2 == m + (IF period = "monthly" THEN 1 ELSE 0)
           y2 == y + (IF period = "yearly" THEN 1 ELSE 0)
           end2 == AddBillingPeriod(end, period)
<1>1. end \in Nat /\ from \in Nat /\ m \in Nat /\ y \in Nat
  BY DEF Anchored
<1>2. m2 \in Nat /\ y2 \in Nat /\ 12 * y2 + m2 = 12 * y + m + Ahead[period]
  BY <1>1 DEF Periods, Ahead
<1>3. /\ end2 \in Nat
      /\ end2 = Start(Number(end) + Ahead[period]) + DayOfMonth(end) - 1
  BY <1>1, PeriodAdded
<1>4. /\ Number(from) \in Nat /\ Number(from) >= 12 * FirstYear
      /\ d \in 1..31
  BY <1>1, NumberIs, DayInMonth DEF InMonth
<1>5. n \in Nat /\ n >= 12 * FirstYear
  <2>1. 12 * y + m \in Nat /\ n = Number(from) + (12 * y + m)
    BY <1>1, <1>4 DEF EndMonth
  <2> HIDE DEF n
  <2> QED
    BY <1>4, <2>1, CalendarAssumption
<1> HIDE DEF m2, y2, end2
<1>6. EndMonth(from, m2, y2) = n + Ahead[period]
  <2>1. Ahead[period] \in Nat
    BY DEF Ahead, Periods
  <2> QED
    BY <1>1, <1>2, <1>4, <2>1 DEF EndMonth
<1>7. ASSUME d <= 28 PROVE end2 = Start(EndMonth(from, m2, y2)) + d - 1
  <2>1. end = Start(n) + d - 1
    BY <1>7 DEF Anchored
  <2> HIDE DEF d, n
  <2>2. /\ Start(n) \in Nat /\ Start(n + 1) \in Nat
        /\ Start(n + 1) - Start(n) \in 28..31
    BY <1>5, NextMonth
  <2>3. InMonth(end, n)
    BY <1>4, <1>5, <1>7, <2>1, <2>2 DEF InMonth
  <2>4. n = Number(end) /\ DayOfMonth(end) = end - Start(Number(end)) + 1
    BY <1>1, <1>5, <2>3, NumberIs
  <2>5. DayOfMonth(end) = d
    BY <1>4, <2>1, <2>2, <2>4
  <2> QED
    BY <1>3, <1>6, <2>4, <2>5
<1>8. Anchored(end2, from, m2, y2)
  BY <1>1, <1>2, <1>3, <1>7 DEF Anchored
<1> QED
  BY <1>8 DEF m2, y2, end2

\* A license that counts from the 28th or earlier never drifts, however often
\* it is renewed (LicensesService.renew).
THEOREM EndsStayAnchored == TermSpec => []EndsAreAnchored
<1>1. TermInit => TermInv
  <2> SUFFICES ASSUME TermInit PROVE TermInv
    OBVIOUS
  <2>1. PICK startsAt \in Days :
          \/ \E period \in Periods :
               /\ anchor = startsAt
               /\ endsAt = AddBillingPeriod(startsAt, period)
               /\ months = (IF period = "monthly" THEN 1 ELSE 0)
               /\ years = (IF period = "yearly" THEN 1 ELSE 0)
          \/ \E days \in TrialDays :
               /\ endsAt = AddDays(startsAt, days)
               /\ anchor = endsAt
               /\ months = 0 /\ years = 0
    BY DEF TermInit
  <2>2. startsAt \in Nat
    BY DaysAreNat
  <2>3. CASE \E period \in Periods :
               /\ anchor = startsAt
               /\ endsAt = AddBillingPeriod(startsAt, period)
               /\ months = (IF period = "monthly" THEN 1 ELSE 0)
               /\ years = (IF period = "yearly" THEN 1 ELSE 0)
    BY <2>2, <2>3, FirstPeriod DEF TermInv
  <2>4. ASSUME NEW days \in TrialDays, endsAt = AddDays(startsAt, days),
               anchor = endsAt, months = 0, years = 0
        PROVE  TermInv
    <3>1. days \in Nat
      BY CalendarAssumption
    <3>2. AddDays(startsAt, days) = startsAt + days
      BY ONLY <2>2, <3>1, DaysAdded
    <3>3. endsAt \in Nat
      BY ONLY <2>2, <2>4, <3>1, <3>2
    <3>4. Anchored(endsAt, endsAt, 0, 0)
      BY <3>3, NoPeriodYet
    <3> QED
      BY <2>4, <3>4 DEF TermInv
  <2> QED
    BY <2>1, <2>3, <2>4
<1>2. TermInv /\ [TermNext]_termVars => TermInv'
  <2> SUFFICES ASSUME TermInv, [TermNext]_termVars PROVE TermInv'
    OBVIOUS
  <2>1. ASSUME NEW period \in Periods, RenewOnTime(period) PROVE TermInv'
    <3>1. /\ endsAt' = AddBillingPeriod(endsAt, period) /\ anchor' = anchor
          /\ months' = months + (IF period = "monthly" THEN 1 ELSE 0)
          /\ years' = years + (IF period = "yearly" THEN 1 ELSE 0)
      BY <2>1 DEF RenewOnTime, Count
    <3>2. Anchored(AddBillingPeriod(endsAt, period), anchor,
                   months + (IF period = "monthly" THEN 1 ELSE 0),
                   years + (IF period = "yearly" THEN 1 ELSE 0))
      BY NextPeriod DEF TermInv
    <3> QED
      BY <3>1, <3>2 DEF TermInv
  <2>2. ASSUME NEW period \in Periods, NEW now, RenewLate(period, now)
        PROVE  TermInv'
    <3>1. now \in Nat
      BY <2>2, DaysAreNat DEF RenewLate
    <3>2. Anchored(AddBillingPeriod(now, period), now,
                   IF period = "monthly" THEN 1 ELSE 0,
                   IF period = "yearly" THEN 1 ELSE 0)
      BY <3>1, FirstPeriod
    <3> QED
      BY <2>2, <3>2 DEF RenewLate, TermInv
  <2>3. CASE UNCHANGED termVars
    BY <2>3 DEF termVars, TermInv
  <2> QED
    BY <2>1, <2>2, <2>3 DEF TermNext
<1>3. TermInv => EndsAreAnchored
  BY AnchoredIs DEF TermInv, Anchored, EndsAreAnchored
<1> QED
  BY <1>1, <1>2, <1>3, PTL DEF TermSpec

-----------------------------------------------------------------------------
(* The months of the dashboard *)

\* The months before FirstYear begin before the first day.
LEMMA BeforeFirst ==
  ASSUME NEW n \in Int, n < 12 * FirstYear
  PROVE  ~(Start(n) \in Nat)
<1> USE CalendarAssumption
<1>1. PICK y \in Int, m \in 0..11 : n = 12 * y + m
  BY MonthHasYear
<1>2. y < FirstYear
  BY <1>1
<1>3. Start(n) = FirstDay(y, m)
  BY <1>1, StartIs
<1>4. Cardinality(LeapYears(y)) = 0 /\ LeapDay(y) \in 0..1
  BY <1>2, LeapCount DEF LeapDay
<1>5. DaysBefore[m + 1] \in 0..334
  BY MonthTable
<1>6. 365 * (y - FirstYear) <= -365
  BY <1>2
<1> QED
  BY <1>3, <1>4, <1>5, <1>6, FirstDayIs

\* The months of days are ordered as the days are.
LEMMA InOrder ==
  ASSUME NEW t \in Nat, NEW n \in Nat, n >= 12 * FirstYear
  PROVE  /\ Start(n) <= t <=> n <= Number(t)
         /\ Number(Start(n)) = n
<1> DEFINE k == Number(t)
<1>1. k \in Nat /\ k >= 12 * FirstYear /\ Start(k) <= t /\ t < Start(k + 1)
  BY NumberIs DEF InMonth
<1> HIDE DEF k
<1>2. /\ Start(n) \in Nat /\ Start(n + 1) \in Nat
      /\ Start(n) < Start(n + 1) /\ Start(k) \in Nat
  BY <1>1, NextMonth
<1>3. ASSUME n <= k PROVE Start(n) <= t
  BY <1>1, <1>2, <1>3, NotEarlier
<1>4. ASSUME k < n PROVE t < Start(n)
  <2>1. k + 1 \in Nat /\ k + 1 >= 12 * FirstYear /\ k + 1 <= n
    BY <1>1, <1>4, CalendarAssumption
  <2>2. Start(k + 1) \in Nat /\ Start(k + 1) <= Start(n)
    BY <2>1, NotEarlier
  <2> QED
    BY <1>1, <1>2, <2>2
<1>5. Start(n) <= t <=> n <= k
  BY <1>1, <1>2, <1>3, <1>4
<1>6. Number(Start(n)) = n
  <2>1. InMonth(Start(n), n)
    BY <1>2 DEF InMonth
  <2> QED
    BY <1>2, <2>1, NumberIs
<1> QED
  BY <1>5, <1>6 DEF k

LEMMA StartIsInt ==
  ASSUME NEW n \in Int
  PROVE  Start(n) \in Int
<1>1. PICK y \in Int, m \in 0..11 : n = 12 * y + m
  BY MonthHasYear
<1>2. Start(n) = FirstDay(y, m)
  BY <1>1, StartIs
<1>3. /\ Cardinality(LeapYears(y)) \in Nat /\ LeapDay(y) \in 0..1
      /\ DaysBefore[m + 1] \in 0..334
  <2>1. Cardinality(LeapYears(y)) \in Nat /\ LeapDay(y) \in 0..1
    BY LeapCount DEF LeapDay
  <2> QED
    BY <2>1, MonthTable
<1>4. FirstDay(y, m) = 365 * (y - FirstYear) + Cardinality(LeapYears(y))
         + DaysBefore[m + 1] + (IF m > 1 THEN LeapDay(y) ELSE 0)
  BY FirstDayIs
<1> QED
  BY ONLY <1>2, <1>3, <1>4, CalendarAssumption, y \in Int

\* A key of the dashboard names one month.
LEMMA KeyIsMonth ==
  ASSUME NEW t \in Days, NEW u \in Days
  PROVE  MonthKey[t] = MonthKey[u] <=> Number(t) = Number(u)
<1>1. /\ MonthKey[t] = <<Year(t), Month(t)>>
      /\ MonthKey[u] = <<Year(u), Month(u)>>
  BY DEF MonthKey
<1>2. /\ Year(t) \in Nat /\ Month(t) \in 0..11
      /\ Year(u) \in Nat /\ Month(u) \in 0..11
  BY NumberIs, DaysAreNat
<1>3. ASSUME Number(t) = Number(u)
      PROVE  Year(t) = Year(u) /\ Month(t) = Month(u)
  <2>1. 12 * Year(t) + Month(t) = 12 * Year(u) + Month(u)
    BY ONLY <1>3 DEF Number
  <2> QED
    BY ONLY <1>2, <2>1, OneDate
<1>4. MonthKey[t] = MonthKey[u] => Number(t) = Number(u)
  BY ONLY <1>1 DEF Number
<1> QED
  BY ONLY <1>1, <1>3, <1>4

\* MonthsAgoStart is the first of an earlier month, also of another year.
LEMMA MonthsAgoIs ==
  ASSUME NEW k \in Int, NEW t \in Days
  PROVE  MonthsAgoStart(k, t) = Start(Number(t) - k)
<1> DEFINE a == Year(t)
           b == Month(t) - k
           n == Number(t) - k
<1>1. a \in Int /\ b \in Int /\ n \in Int /\ n = 12 * a + b
  <2>1. Year(t) \in Nat /\ Month(t) \in 0..11
    BY NumberIs, DaysAreNat
  <2> QED
    BY <2>1 DEF Number
<1>2. MonthsAgoStart(k, t) = MakeDay(a, b, 1)
  BY DEF MonthsAgoStart, MonthKey
<1> HIDE DEF a, b, n
<1>3. MakeDay(a, b, 1) = Start(n) + 1 - 1
  BY ONLY <1>1, MakeDayIs
<1>4. Start(n) \in Int
  BY ONLY <1>1, StartIsInt
<1>5. MonthsAgoStart(k, t) = Start(n)
  BY ONLY <1>2, <1>3, <1>4
<1> QED
  BY <1>5 DEF n

LEMMA EarlierDays ==
  ASSUME NEW t \in Days, NEW u \in Nat, u <= t
  PROVE  u \in Days
BY DaysAreNat

LEMMA MonthsInOrder ==
  ASSUME NEW t \in Nat, NEW u \in Nat, t <= u
  PROVE  Number(t) <= Number(u)
<1> DEFINE n == Number(t)
<1>1. /\ n \in Nat /\ n >= 12 * FirstYear /\ Start(n) <= t /\ Start(n) \in Nat
  BY NumberIs, DayInMonth DEF InMonth
<1> HIDE DEF n
<1>2. Start(n) <= u
  BY <1>1
<1> QED
  BY <1>1, <1>2, InOrder DEF n

\* What FinanceService.dashboard shows of a month is all of it, midnight or
\* not: its query leaves out no movement of a month in the table. It shows
\* every month of the range too, unless midnight ends the month between two
\* readings of the clock; then one can be missing
\* (finance.service.ts:270-288).
THEOREM DashboardMonthsAreWhole == TermSpec => []MonthsAreWhole
<1>1. ASSUME NEW asked \in 1..MaxMonths, Answerable(asked, endsAt),
             NEW midnight \in 0..asked
      PROVE  /\ {t \in PaidAt : MonthKey[t] \in Table(asked, endsAt, midnight)}
                  \subseteq Counted(asked, endsAt, midnight)
             /\ MonthKey[endsAt] = MonthKey[endsAt + 1]
                  => {t \in Queried(asked, endsAt) : t <= endsAt}
                       \subseteq Counted(asked, endsAt, midnight)
  <2> DEFINE last == Number(endsAt)
             first == last - (asked - 1)
             clock(i) == Clock(endsAt, i, midnight)
             row(i) == MonthsAgoStart(asked - 1 - i, clock(i))
             month(i) == Number(clock(i)) - (asked - 1 - i)
  <2>1. /\ endsAt \in Days /\ endsAt + 1 \in Days
        /\ endsAt \in Nat /\ endsAt + 1 \in Nat /\ asked \in Nat
    BY <1>1, DaysAreNat DEF Answerable
  <2>2. last \in Nat /\ first \in Int
    BY <2>1, NumberIs
  <2>3. RangeStart(asked, endsAt) = Start(first)
    BY <2>1, MonthsAgoIs DEF RangeStart
  <2>4. first \in Nat /\ first >= 12 * FirstYear
    <3>1. Start(first) \in Nat
      BY <1>1, <2>3, DaysAreNat DEF Answerable
    <3>2. ~(first < 12 * FirstYear)
      <4> HIDE DEF first
      <4> QED
        BY <2>2, <3>1, BeforeFirst
    <3> QED
      BY <2>2, <3>2, CalendarAssumption
  <2> HIDE DEF first
  <2>5. ASSUME NEW i \in 0..(asked - 1)
        PROVE  /\ clock(i) \in Days /\ row(i) \in Days
               /\ month(i) \in Nat /\ month(i) >= first
               /\ Number(row(i)) = month(i)
    <3>1. /\ clock(i) \in Days /\ clock(i) \in Nat
          /\ endsAt <= clock(i)
      BY <2>1 DEF Clock
    <3> HIDE DEF clock
    <3>2. /\ Number(clock(i)) \in Nat
          /\ last <= Number(clock(i))
      BY <2>1, <3>1, MonthsInOrder, NumberIs
    <3>3. row(i) = Start(month(i))
      BY <2>1, <3>1, MonthsAgoIs
    <3> HIDE DEF row
    <3>4. /\ month(i) \in Nat /\ month(i) >= first
          /\ month(i) <= Number(clock(i))
      <4> HIDE DEF last
      <4> QED
        BY <2>1, <2>2, <2>4, <3>2 DEF first
    <3> HIDE DEF month
    <3>5. month(i) >= 12 * FirstYear
      BY <2>4, <3>4, CalendarAssumption
    <3>6. Start(month(i)) <= clock(i) /\ Number(Start(month(i))) = month(i)
      BY <3>1, <3>4, <3>5, InOrder
    <3>7. Start(month(i)) \in Nat
      BY <3>4, <3>5, NextMonth
    <3> QED
      BY <3>1, <3>3, <3>4, <3>6, <3>7, EarlierDays
  <2>6. Table(asked, endsAt, midnight)
          = {MonthKey[row(i)] : i \in 0..(asked - 1)}
    BY DEF Table
  <2> HIDE DEF row
  <2>7. ASSUME NEW t \in PaidAt,
               MonthKey[t] \in Table(asked, endsAt, midnight)
        PROVE  t \in Counted(asked, endsAt, midnight)
    <3>1. t \in Days /\ t \in Nat
      BY DaysAreNat DEF PaidAt
    <3>2. PICK i \in 0..(asked - 1) : MonthKey[t] = MonthKey[row(i)]
      BY <2>6, <2>7
    <3>3. first <= Number(t)
      BY <2>5, <3>1, <3>2, KeyIsMonth
    <3>4. Start(first) <= t
      BY <2>4, <3>1, <3>3, InOrder
    <3> QED
      BY <2>3, <2>7, <3>4 DEF Counted, Queried
  <2>8. ASSUME MonthKey[endsAt] = MonthKey[endsAt + 1],
               NEW t \in Queried(asked, endsAt), t <= endsAt
        PROVE  t \in Counted(asked, endsAt, midnight)
    <3>1. t \in Days /\ t \in Nat /\ Start(first) <= t
      BY <2>3, DaysAreNat DEF Queried, PaidAt
    <3>2. first <= Number(t) /\ Number(t) <= last /\ Number(t) \in Nat
      BY <2>1, <2>4, <2>8, <3>1, InOrder, MonthsInOrder, NumberIs
    <3>3. Number(endsAt + 1) = last
      BY <2>1, <2>8, KeyIsMonth
    <3> DEFINE i == Number(t) - first
    <3>4. i \in 0..(asked - 1)
      <4> HIDE DEF last
      <4> QED
        BY <2>1, <2>2, <3>2 DEF first
    <3>5. Number(clock(i)) = last
      BY <3>3 DEF Clock
    <3>6. month(i) = Number(t)
      <4> HIDE DEF clock, last
      <4> QED
        BY <2>1, <2>2, <3>2, <3>5 DEF first
    <3> HIDE DEF i, month
    <3>7. MonthKey[t] = MonthKey[row(i)]
      BY <2>5, <3>1, <3>4, <3>6, KeyIsMonth
    <3> QED
      BY <2>6, <3>4, <3>7 DEF Counted
  <2> QED
    BY <2>7, <2>8
<1>2. MonthsAreWhole
  BY <1>1 DEF MonthsAreWhole
<1> QED
  BY <1>2, PTL

-----------------------------------------------------------------------------
(* The movements *)

\* r was read from row m at some time, and is that row if versions agree.
ReadFrom(r, m) ==
  /\ movement[m] # Absent
  /\ r.version <= movement[m].version
  /\ r.version = movement[m].version => r = movement[m]

ViewInv ==
  \A o \in Operators, m \in Movements :
    view[o][m] # Absent => ReadFrom(view[o][m], m)

\* What the checks of a handler established, and still holds if the version
\* did not move.
CheckedInv ==
  \A q \in Requests : phase[q] = "checked" =>
    /\ ReadFrom(dto[q].seen, dto[q].id)
    /\ Matches(q) => movement[dto[q].id].status # "voided"
    /\ dto[q].category # Keep =>
         KindOf[dto[q].category] = movement[dto[q].id].type

KindInv ==
  \A m \in Movements :
    movement[m] # Absent => KindOf[movement[m].category] = movement[m].type

IInv == TypeOK /\ ViewInv /\ CheckedInv /\ KindInv

USE FinanceAssumption DEF Statuses, Phases

LEMMA InitIInv == Init => IInv
BY DEF Init, IInv, TypeOK, ViewInv, CheckedInv, KindInv

\* Only create and a matching write change the table.
LEMMA OnlyTwoWriters ==
  ASSUME [Next]_vars, movement' # movement
  PROVE  \/ \E q \in Requests, m \in Movements, type \in Types,
               category \in Categories, status \in OpenStatuses :
              Create(q, m, type, category, status)
         \/ \E q \in Requests : Write(q)
BY DEF Next, vars, Fetch, StartUpdate, StartVoid, Check, Conflict, Audit,
       Fail, Finish

\* The lemma everything rests on: when the versions agree, the row written is
\* the row its author saw, it is not voided, and the category fits its type.
LEMMA WriteFindsSeen ==
  ASSUME IInv, NEW q \in Requests, Write(q)
  PROVE  /\ dto[q] \in Dto
         /\ movement[dto[q].id] = dto[q].seen
         /\ movement[dto[q].id] \in Row
         /\ movement[dto[q].id].status # "voided"
         /\ Given(dto[q].category, movement[dto[q].id].category) \in Categories
         /\ KindOf[Given(dto[q].category, movement[dto[q].id].category)]
              = movement[dto[q].id].type
<1>1. /\ dto[q] \in Dto
      /\ phase[q] = "checked"
      /\ Matches(q)
  BY DEF Write, IInv, TypeOK
<1>2. ReadFrom(dto[q].seen, dto[q].id) /\ dto[q].id \in Movements
  BY <1>1 DEF IInv, CheckedInv, Dto
<1>3. movement[dto[q].id] = dto[q].seen /\ movement[dto[q].id] \in Row
  BY <1>1, <1>2 DEF ReadFrom, Matches, IInv, TypeOK
<1>4. movement[dto[q].id].status # "voided"
  BY <1>1 DEF IInv, CheckedInv
<1>5. /\ Given(dto[q].category, movement[dto[q].id].category) \in Categories
      /\ KindOf[Given(dto[q].category, movement[dto[q].id].category)]
           = movement[dto[q].id].type
  <2>1. CASE dto[q].category = Keep
    BY <1>2, <1>3, <2>1 DEF Given, IInv, KindInv, Row
  <2>2. CASE dto[q].category # Keep
    BY <1>1, <2>2 DEF Given, IInv, CheckedInv, Dto
  <2> QED
    BY <2>1, <2>2
<1> QED
  BY <1>1, <1>3, <1>4, <1>5

\* Written keeps a row a row, and counts its version up by one.
LEMMA WrittenIsRow ==
  ASSUME NEW row \in Row, NEW body,
         Given(body.category, row.category) \in Categories,
         Given(body.status, row.status) \in Statuses
  PROVE  /\ Written(row, body) \in Row
         /\ Written(row, body).type = row.type
         /\ Written(row, body).version = row.version + 1
<1>1. row.version + 1 \in Nat /\ "voided" \in Statuses
  BY DEF Row
<1>2. CASE body.op = "void"
  BY <1>1, <1>2 DEF Written, Row
<1>3. CASE body.op # "void"
  BY <1>1, <1>3 DEF Written, Row
<1> QED
  BY <1>2, <1>3

\* What the write leaves in the table.
LEMMA WrittenRow ==
  ASSUME IInv, NEW q \in Requests, Write(q)
  PROVE  \E new \in Row :
           /\ movement' = [movement EXCEPT ![dto[q].id] = new]
           /\ new.type = movement[dto[q].id].type
           /\ new.version = movement[dto[q].id].version + 1
           /\ KindOf[new.category] = new.type
<1> DEFINE row == movement[dto[q].id]
           new == Written(row, dto[q])
<1>1. /\ row \in Row
      /\ Given(dto[q].category, row.category) \in Categories
      /\ KindOf[Given(dto[q].category, row.category)] = row.type
      /\ dto[q] \in Dto
  BY WriteFindsSeen
<1>2. Given(dto[q].status, row.status) \in Statuses
  BY <1>1 DEF Given, Dto, Row
<1>3. movement' = [movement EXCEPT ![dto[q].id] = new]
  BY DEF Write
<1>4. new \in Row /\ new.type = row.type /\ new.version = row.version + 1
  BY <1>1, <1>2, WrittenIsRow
<1>5. KindOf[row.category] = row.type
  BY <1>1 DEF IInv, KindInv, Dto
<1>6. KindOf[new.category] = new.type
  BY <1>1, <1>5 DEF Written, Row
<1> QED
  BY <1>3, <1>4, <1>6

LEMMA NextIInv == IInv /\ [Next]_vars => IInv'
<1> SUFFICES ASSUME IInv, [Next]_vars PROVE IInv'
  OBVIOUS
<1> USE DEF IInv
<1>1. ASSUME NEW p \in Requests, NEW m \in Movements, NEW type \in Types,
             NEW category \in Categories, NEW status \in OpenStatuses,
             Create(p, m, type, category, status)
      PROVE  IInv'
  <2> DEFINE new == [type |-> type, status |-> status, category |-> category,
                     version |-> 1]
  <2>1. new \in Row /\ new # Absent /\ KindOf[category] = type
        /\ movement' = [movement EXCEPT ![m] = new]
        /\ movement[m] = Absent
        /\ phase' = [phase EXCEPT ![p] = "written"]
        /\ dto' = [dto EXCEPT ![p] =
             [op |-> "create", id |-> m, category |-> category,
              status |-> status, seen |-> new]]
        /\ UNCHANGED <<view, audited>>
    BY <1>1 DEF Create, Row
  <2>2. TypeOK'
    BY <2>1 DEF TypeOK, Dto
  <2>3. \A r, n : n \in Movements /\ ReadFrom(r, n) => ReadFrom(r, n)'
    BY <2>1 DEF ReadFrom, TypeOK
  <2>4. ViewInv'
    BY <2>1, <2>3 DEF ViewInv
  <2>5. CheckedInv'
    <3> SUFFICES ASSUME NEW q \in Requests, phase'[q] = "checked"
                 PROVE  /\ phase[q] = "checked" /\ dto'[q] = dto[q]
                        /\ ReadFrom(dto[q].seen, dto[q].id)'
                        /\ movement'[dto[q].id] = movement[dto[q].id]
      BY <2>1 DEF CheckedInv, Matches, ReadFrom
    <3>0. phase[q] = "checked" /\ dto'[q] = dto[q]
      BY <2>1 DEF TypeOK
    <3>1. dto[q].id \in Movements
      BY <3>0 DEF TypeOK, Dto
    <3>2. ReadFrom(dto[q].seen, dto[q].id)
      BY <3>0 DEF CheckedInv
    <3> QED
      BY <2>1, <3>0, <3>1, <3>2 DEF ReadFrom, TypeOK
  <2>6. KindInv'
    BY <2>1 DEF KindInv, TypeOK
  <2> QED
    BY <2>2, <2>4, <2>5, <2>6
<1>2. ASSUME NEW o \in Operators, Fetch(o)
      PROVE  IInv'
  <2>1. TypeOK' /\ KindInv' /\ CheckedInv'
    BY <1>2 DEF Fetch, TypeOK, KindInv, CheckedInv, ReadFrom, Matches
  <2>2. \A m \in Movements : movement[m] # Absent => movement[m].version <= movement[m].version
    BY DEF TypeOK, Row
  <2>3. ViewInv'
    BY <1>2, <2>2 DEF Fetch, ViewInv, ReadFrom, TypeOK
  <2> QED
    BY <2>1, <2>3
<1>3. ASSUME NEW q \in Requests, NEW o \in Operators, NEW m \in Movements,
             NEW category \in Categories \cup {Keep},
             NEW status \in OpenStatuses \cup {Keep},
             NEW op \in {"update", "void"},
             view[o][m] # Absent,
             category # Keep => KindOf[category] = movement[m].type,
             Check(q, [op |-> op, id |-> m, category |-> category,
                       status |-> status, seen |-> view[o][m]])
      PROVE  IInv'
  <2> DEFINE body == [op |-> op, id |-> m, category |-> category,
                      status |-> status, seen |-> view[o][m]]
  <2>1. body \in Dto
    BY <1>3 DEF Dto, TypeOK
  <2>2. /\ movement[m].status # "voided"
        /\ phase' = [phase EXCEPT ![q] = "checked"]
        /\ dto' = [dto EXCEPT ![q] = body]
        /\ UNCHANGED <<movement, view, audited>>
    BY <1>3 DEF Check
  <2>3. TypeOK' /\ KindInv' /\ ViewInv'
    BY <2>1, <2>2 DEF TypeOK, KindInv, ViewInv, ReadFrom
  <2>4. ReadFrom(view[o][m], m)
    BY <1>3 DEF ViewInv
  <2>5. CheckedInv'
    BY <1>3, <2>2, <2>4 DEF CheckedInv, ReadFrom, Matches, TypeOK
  <2> QED
    BY <2>3, <2>5
<1>4. ASSUME NEW q \in Requests, Write(q)
      PROVE  IInv'
  <2>1. PICK new \in Row :
           /\ movement' = [movement EXCEPT ![dto[q].id] = new]
           /\ new.type = movement[dto[q].id].type
           /\ new.version = movement[dto[q].id].version + 1
           /\ KindOf[new.category] = new.type
    BY <1>4, WrittenRow
  <2>2. /\ movement[dto[q].id] \in Row
        /\ dto[q].id \in Movements
        /\ phase' = [phase EXCEPT ![q] = "written"]
        /\ phase[q] = "checked"
        /\ UNCHANGED <<view, dto, audited>>
    BY <1>4, WriteFindsSeen DEF Write, Dto
  <2>3. TypeOK'
    BY <2>1, <2>2 DEF TypeOK
  <2>4. KindInv'
    BY <2>1, <2>2 DEF KindInv, TypeOK
  <2>5. ASSUME NEW r \in Row, NEW n \in Movements, ReadFrom(r, n)
        PROVE  /\ ReadFrom(r, n)'
               /\ movement'[n].type = movement[n].type
               /\ r.version = movement'[n].version => movement'[n] = movement[n]
    BY <2>1, <2>2, <2>5 DEF ReadFrom, Row, TypeOK
  <2>6. ViewInv'
    BY <2>2, <2>5 DEF ViewInv, TypeOK
  <2>7. CheckedInv'
    <3> SUFFICES ASSUME NEW p \in Requests, phase'[p] = "checked"
                 PROVE  /\ ReadFrom(dto[p].seen, dto[p].id)'
                        /\ Matches(p)' => movement'[dto[p].id].status # "voided"
                        /\ dto[p].category # Keep =>
                             KindOf[dto[p].category] = movement'[dto[p].id].type
      BY <2>2 DEF CheckedInv
    <3>1. phase[p] = "checked" /\ dto[p] \in Dto
      BY <2>2 DEF TypeOK
    <3>2. dto[p].seen \in Row /\ dto[p].id \in Movements
      BY <3>1 DEF Dto
    <3> QED
      BY <2>2, <2>5, <3>1, <3>2 DEF CheckedInv, Matches
  <2> QED
    BY <2>3, <2>4, <2>6, <2>7
<1>5. ASSUME NEW q \in Requests, Conflict(q) \/ Audit(q) \/ Fail(q)
      PROVE  IInv'
  <2>1. /\ phase' = [phase EXCEPT ![q] = "idle"]
        /\ dto' = [dto EXCEPT ![q] = NoDto]
        /\ UNCHANGED <<movement, view>>
        /\ audited' \in [Movements -> Nat]
    BY <1>5 DEF Conflict, Audit, Fail, Finish, TypeOK, Dto
  <2> QED
    BY <2>1 DEF TypeOK, ViewInv, CheckedInv, KindInv, ReadFrom, Matches
<1>6. CASE UNCHANGED vars
  BY <1>6 DEF vars, TypeOK, ViewInv, CheckedInv, KindInv, ReadFrom, Matches
<1>7. ASSUME NEW q \in Requests, NEW o \in Operators, NEW m \in Movements,
             StartVoid(q, o, m)
      PROVE  IInv'
  BY <1>3, <1>7 DEF StartVoid
<1>8. ASSUME NEW q \in Requests, NEW o \in Operators, NEW m \in Movements,
             NEW category \in Categories \cup {Keep},
             NEW status \in OpenStatuses \cup {Keep},
             StartUpdate(q, o, m, category, status)
      PROVE  IInv'
  BY <1>3, <1>8 DEF StartUpdate
<1> QED
  BY <1>1, <1>2, <1>4, <1>5, <1>6, <1>7, <1>8 DEF Next

\* The strengthened invariant of the optimistic locking protocol.
THEOREM Inductive == Spec => []IInv
BY InitIInv, NextIInv, PTL DEF Spec

\* The table, the views and the requests in flight keep their types.
THEOREM TypeCorrect == Spec => []TypeOK
<1>1. IInv => TypeOK
  BY DEF IInv
<1> QED
  BY <1>1, Inductive, PTL

\* No request, however its checks and its write interleave with others,
\* changes a voided movement.
THEOREM VoidedStays == Spec => VoidedIsTerminal
<1>1. IInv /\ [Next]_vars =>
        [\A m \in Movements :
           movement[m] # Absent /\ movement[m].status = "voided"
             => movement'[m] = movement[m]]_vars
  <2> SUFFICES ASSUME IInv, [Next]_vars, NEW m \in Movements,
                      movement[m] # Absent, movement[m].status = "voided",
                      movement' # movement
               PROVE  movement'[m] = movement[m]
    OBVIOUS
  <2>1. CASE \E q \in Requests : Write(q)
    <3>1. PICK q \in Requests : Write(q)
      BY <2>1
    <3>2. m # dto[q].id
      BY <3>1, WriteFindsSeen
    <3> QED
      BY <3>1, <3>2 DEF Write, IInv, TypeOK
  <2>2. CASE \E q \in Requests, n \in Movements, type \in Types,
                category \in Categories, status \in OpenStatuses :
               Create(q, n, type, category, status)
    BY <2>2 DEF Create, IInv, TypeOK
  <2> QED
    BY <2>1, <2>2, OnlyTwoWriters
<1> QED
  BY <1>1, Inductive, PTL DEF Spec, VoidedIsTerminal

\* Every write lands on the row its author was looking at.
THEOREM WritesAreInformed == Spec => NoLostUpdate
<1>1. IInv /\ [Next]_vars =>
        [\A q \in Requests :
           Write(q) => movement[dto[q].id] = dto[q].seen]_vars
  BY WriteFindsSeen
<1> QED
  BY <1>1, Inductive, PTL DEF Spec, NoLostUpdate

\* A request answered 409 lost to a write made since its author fetched.
THEOREM ConflictsAreReal == Spec => ConflictIsReal
<1>1. ASSUME IInv, NEW q \in Requests, Conflict(q)
      PROVE  dto[q].seen.version < movement[dto[q].id].version
  <2>1. dto[q] \in Dto /\ phase[q] = "checked" /\ ~ Matches(q)
    BY <1>1 DEF Conflict, IInv, TypeOK
  <2>2. ReadFrom(dto[q].seen, dto[q].id)
    BY <1>1, <2>1 DEF IInv, CheckedInv
  <2>3. movement[dto[q].id] \in Row /\ dto[q].seen \in Row
    BY <1>1, <2>1, <2>2 DEF IInv, TypeOK, ReadFrom, Dto
  <2> QED
    BY <2>1, <2>2, <2>3 DEF ReadFrom, Matches, Row
<1>2. IInv /\ [Next]_vars =>
        [\A q \in Requests :
           Conflict(q) => dto[q].seen.version < movement[dto[q].id].version]_vars
  BY <1>1
<1> QED
  BY <1>2, Inductive, PTL DEF Spec, ConflictIsReal

\* The interleaved requests implement atomic edits of the current row.
THEOREM Refinement == Spec => ImplementsLedger
<1>1. Init => Ledger!Init
  BY DEF Init, Ledger!Init
<1>2. IInv /\ [Next]_vars => [Ledger!Next]_movement
  <2> SUFFICES ASSUME IInv, [Next]_vars, movement' # movement
               PROVE  Ledger!Next
    OBVIOUS
  <2>1. CASE \E q \in Requests, m \in Movements, type \in Types,
                category \in Categories, status \in OpenStatuses :
               Create(q, m, type, category, status)
    <3>1. PICK q \in Requests, m \in Movements, type \in Types,
               category \in Categories, status \in OpenStatuses :
              Create(q, m, type, category, status)
      BY <2>1
    <3>2. Ledger!Create(m, category, status)
      BY <3>1 DEF Create, Ledger!Create
    <3> QED
      BY <3>2 DEF Ledger!Next
  <2>2. CASE \E q \in Requests : Write(q)
    <3>1. PICK q \in Requests : Write(q)
      BY <2>2
    <3> DEFINE m == dto[q].id
               row == movement[m]
               category == Given(dto[q].category, row.category)
               status == Given(dto[q].status, row.status)
    <3>2. /\ m \in Movements /\ row \in Row /\ dto[q] \in Dto
          /\ row.status # "voided"
          /\ category \in Categories /\ KindOf[category] = row.type
      BY <3>1, WriteFindsSeen DEF Dto
    <3>3. Ledger!Live(m)
      BY <3>2 DEF Ledger!Live
    <3>4. CASE dto[q].op # "void"
      <4>1. status \in OpenStatuses
        BY <3>2 DEF Given, Row, Dto
      <4>2. Written(row, dto[q]) =
              [row EXCEPT !.category = category, !.status = status,
                          !.version = row.version + 1]
        BY <3>4 DEF Written
      <4>3. movement' = [movement EXCEPT ![m] = Written(row, dto[q])]
        BY <3>1 DEF Write
      <4>4. Ledger!Edit(m, category, status)
        BY <3>2, <3>3, <4>2, <4>3 DEF Ledger!Edit
      <4> QED
        BY <3>2, <4>1, <4>4 DEF Ledger!Next
    <3>5. CASE dto[q].op = "void"
      <4>1. movement' = [movement EXCEPT ![m] =
                           [row EXCEPT !.status = "voided",
                                       !.version = row.version + 1]]
        BY <3>1, <3>5 DEF Write, Written
      <4>2. Ledger!Void(m)
        BY <3>3, <4>1 DEF Ledger!Void
      <4> QED
        BY <3>2, <4>2 DEF Ledger!Next
    <3> QED
      BY <3>4, <3>5
  <2> QED
    BY <2>1, <2>2, OnlyTwoWriters
<1> QED
  BY <1>1, <1>2, Inductive, PTL DEF Spec, ImplementsLedger, Ledger!Spec
-----------------------------------------------------------------------------
\* The audit events still owed, and the events there may be at most.
Owed(m) == {q \in Requests : phase[q] = "written" /\ dto[q].id = m}
Changes(m) == IF movement[m] = Absent THEN 0 ELSE movement[m].version

Balanced(m) ==
  IsFiniteSet(Owed(m)) /\ audited[m] + Cardinality(Owed(m)) <= Changes(m)

OwedInv == \A m \in Movements : Balanced(m)

LEMMA InitOwed == Init => OwedInv
<1> SUFFICES ASSUME Init, NEW m \in Movements PROVE Balanced(m)
  BY DEF OwedInv
<1>1. Owed(m) = {}
  BY DEF Init, Owed
<1>2. audited[m] = 0 /\ Changes(m) = 0
  BY DEF Init, Changes
<1> QED
  BY <1>1, <1>2, FS_EmptySet DEF Balanced

LEMMA ChangesAreCounted ==
  ASSUME TypeOK, NEW m \in Movements
  PROVE  Changes(m) \in Nat /\ audited[m] \in Nat
BY DEF TypeOK, Changes, Row

\* A change and the event it owes come together.
LEMMA OweOneMore ==
  ASSUME TypeOK, NEW m \in Movements, Balanced(m), NEW q,
         q \notin Owed(m), Owed(m)' = Owed(m) \cup {q},
         Changes(m)' = Changes(m) + 1, audited'[m] = audited[m]
  PROVE  Balanced(m)'
<1>1. /\ IsFiniteSet(Owed(m) \cup {q})
      /\ Cardinality(Owed(m) \cup {q}) = Cardinality(Owed(m)) + 1
  BY FS_AddElement DEF Balanced
<1>2. Cardinality(Owed(m)) \in Nat
  BY FS_CardinalityType DEF Balanced
<1> QED
  BY <1>1, <1>2, ChangesAreCounted DEF Balanced

\* A request that is over owes nothing, whether it recorded its event or not.
LEMMA OweOneLess ==
  ASSUME TypeOK, NEW m \in Movements, Balanced(m), NEW q,
         Owed(m)' = Owed(m) \ {q}, Changes(m)' = Changes(m),
         \/ audited'[m] = audited[m]
         \/ q \in Owed(m) /\ audited'[m] = audited[m] + 1
  PROVE  Balanced(m)'
<1>1. /\ IsFiniteSet(Owed(m) \ {q})
      /\ Cardinality(Owed(m) \ {q}) =
           IF q \in Owed(m) THEN Cardinality(Owed(m)) - 1
                            ELSE Cardinality(Owed(m))
  BY FS_RemoveElement DEF Balanced
<1>2. Cardinality(Owed(m)) \in Nat
  BY FS_CardinalityType DEF Balanced
<1> QED
  BY <1>1, <1>2, ChangesAreCounted DEF Balanced

LEMMA OweTheSame ==
  ASSUME NEW m \in Movements, Balanced(m),
         Owed(m)' = Owed(m), Changes(m)' = Changes(m),
         audited'[m] = audited[m]
  PROVE  Balanced(m)'
BY DEF Balanced

LEMMA NextOwed == IInv /\ OwedInv /\ [Next]_vars => OwedInv'
<1> SUFFICES ASSUME IInv, OwedInv, [Next]_vars, NEW m \in Movements
             PROVE  Balanced(m)'
  BY DEF OwedInv
<1>0. TypeOK /\ Balanced(m)
  BY DEF IInv, OwedInv
<1>1. ASSUME NEW q \in Requests, NEW n \in Movements, NEW type \in Types,
             NEW category \in Categories, NEW status \in OpenStatuses,
             Create(q, n, type, category, status)
      PROVE  Balanced(m)'
  <2>1. /\ phase[q] = "idle" /\ phase' = [phase EXCEPT ![q] = "written"]
        /\ dto'[q].id = n /\ \A r \in Requests \ {q} : dto'[r] = dto[r]
        /\ audited' = audited
    BY <1>0, <1>1 DEF Create, TypeOK
  <2>2. CASE m = n
    <3>1. q \notin Owed(m) /\ Owed(m)' = Owed(m) \cup {q}
      BY <1>0, <2>1, <2>2 DEF Owed, TypeOK
    <3>2. Changes(m) = 0 /\ Changes(m)' = 1
      BY <1>0, <1>1, <2>2 DEF Create, Changes, TypeOK, Row
    <3> QED
      BY <1>0, <2>1, <3>1, <3>2, OweOneMore
  <2>3. CASE m # n
    <3>1. Owed(m)' = Owed(m)
      BY <1>0, <2>1, <2>3 DEF Owed, TypeOK
    <3>2. Changes(m)' = Changes(m)
      BY <1>0, <1>1, <2>3 DEF Create, Changes, TypeOK
    <3> QED
      BY <1>0, <2>1, <3>1, <3>2, OweTheSame
  <2> QED
    BY <2>2, <2>3
<1>2. ASSUME NEW o \in Operators, Fetch(o)
      PROVE  Balanced(m)'
  BY <1>0, <1>2 DEF Fetch, Balanced, Owed, Changes
<1>3. ASSUME NEW q \in Requests, NEW body, Check(q, body)
      PROVE  Balanced(m)'
  <2>1. Owed(m)' = Owed(m)
    BY <1>0, <1>3 DEF Check, Owed, TypeOK
  <2> QED
    BY <1>0, <1>3, <2>1, OweTheSame DEF Check, Changes
<1>4. ASSUME NEW q \in Requests, Write(q)
      PROVE  Balanced(m)'
  <2>1. PICK new \in Row :
           /\ movement' = [movement EXCEPT ![dto[q].id] = new]
           /\ new.version = movement[dto[q].id].version + 1
    BY <1>4, WrittenRow
  <2>2. /\ dto[q].id \in Movements /\ movement[dto[q].id] # Absent
        /\ phase[q] = "checked" /\ phase' = [phase EXCEPT ![q] = "written"]
        /\ UNCHANGED <<dto, audited>>
    BY <1>4, WriteFindsSeen DEF Write, Dto
  <2>3. CASE m = dto[q].id
    <3>1. q \notin Owed(m) /\ Owed(m)' = Owed(m) \cup {q}
      BY <1>0, <2>2, <2>3 DEF Owed, TypeOK
    <3>2. Changes(m)' = Changes(m) + 1
      BY <1>0, <2>1, <2>2, <2>3 DEF Changes, TypeOK
    <3> QED
      BY <1>0, <2>2, <3>1, <3>2, OweOneMore
  <2>4. CASE m # dto[q].id
    <3>1. Owed(m)' = Owed(m)
      BY <1>0, <2>2, <2>4 DEF Owed, TypeOK
    <3>2. Changes(m)' = Changes(m)
      BY <1>0, <2>1, <2>4 DEF Changes, TypeOK
    <3> QED
      BY <1>0, <2>2, <3>1, <3>2, OweTheSame
  <2> QED
    BY <2>3, <2>4
<1>5. ASSUME NEW q \in Requests, Conflict(q) \/ Audit(q) \/ Fail(q)
      PROVE  Balanced(m)'
  <2>1. /\ phase' = [phase EXCEPT ![q] = "idle"]
        /\ dto' = [dto EXCEPT ![q] = NoDto]
        /\ movement' = movement
    BY <1>5 DEF Conflict, Audit, Fail, Finish
  <2>2. Owed(m)' = Owed(m) \ {q}
    BY <1>0, <2>1 DEF Owed, TypeOK
  <2>3. \/ audited'[m] = audited[m]
        \/ q \in Owed(m) /\ audited'[m] = audited[m] + 1
    BY <1>0, <1>5 DEF Conflict, Audit, Fail, Owed, TypeOK
  <2>4. Changes(m)' = Changes(m)
    BY <2>1 DEF Changes
  <2> QED
    BY <1>0, <2>2, <2>3, <2>4, OweOneLess
<1>6. CASE UNCHANGED vars
  BY <1>0, <1>6 DEF vars, Balanced, Owed, Changes
<1> QED
  BY <1>1, <1>2, <1>3, <1>4, <1>5, <1>6 DEF Next, StartVoid, StartUpdate

\* The bitacora never holds more events of a movement than changes were made,
\* whichever requests end between their write and their event.
THEOREM AuditIsHonest == Spec => []AuditNeverOverstates
<1>1. OwedInv => AuditNeverOverstates
  BY DEF OwedInv, Balanced, Owed, Changes, AuditNeverOverstates
<1> QED
  BY <1>1, InitOwed, NextOwed, Inductive, PTL DEF Spec
=============================================================================
