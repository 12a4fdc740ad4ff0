----------------------------- MODULE Dashboard -----------------------------
(***************************************************************************)
(* The months of the finance dashboard: month-key.ts and the cash flow of  *)
(* FinanceService.dashboard (src/apps/api/src/finance). The range of the   *)
(* query comes from one reading of the clock, and the first day of each    *)
(* month of the table from a reading of its own, so that midnight may fall *)
(* between two of them.                                                    *)
(*                                                                         *)
(* The clock is read on the days that terms of licenses end, any day of    *)
(* the years of BillingPeriod; days are those of UTC here, and amounts are *)
(* left out, since each is added to its month and to nothing else. mrr is  *)
(* one query over licenses and needs no month.                             *)
(***************************************************************************)
EXTENDS BillingPeriod

CONSTANT MaxMonths   \* bound on the months asked for (24 in the dto)

ASSUME DashboardAssumption == MaxMonths \in Nat \ {0}

MonthKey == [date \in Days |-> <<Year(date), Month(date)>>]

\* Mutant of MonthsAgoStart: the year before last December is the same year.
MonthsAgoSameYear(monthsAgo, reference) ==
  MakeDay(MonthKey[reference][1], (MonthKey[reference][2] - monthsAgo) % 12, 1)

\* The month may be less than 0 here, and the year is carried back.
MonthsAgoStart(monthsAgo, reference) ==
  MakeDay(MonthKey[reference][1], MonthKey[reference][2] - monthsAgo, 1)

\* A reading of the clock by a request that began today, the i-th after the
\* range was computed: midnight came before reading number midnight.
Clock(today, i, midnight) == IF i < midnight THEN today ELSE today + 1

RangeStart(asked, today) == MonthsAgoStart(asked - 1, today)

\* The keys of byMonth.
Table(asked, today, midnight) ==
  {MonthKey[MonthsAgoStart(asked - 1 - i, Clock(today, i, midnight))] :
     i \in 0..(asked - 1)}

\* The days movements were paid on: of each month its first and its last.
PaidAt == {t \in Days : DayOfMonth(t) = 1 \/ DayOfMonth(t + 1) = 1}

\* paidTransactions, and the movements that are added to the month of their
\* key, because the table has it.
Queried(asked, today) == {t \in PaidAt : t >= RangeStart(asked, today)}
Counted(asked, today, midnight) ==
  LET table == Table(asked, today, midnight)
  IN  {t \in Queried(asked, today) : MonthKey[t] \in table}

\* Where the range and the table fall within the years of the calendar.
Answerable(asked, today) ==
  /\ today \in Days /\ today + 1 \in Days
  /\ RangeStart(asked, today) \in Days
-----------------------------------------------------------------------------
\* What the dashboard shows of a month is all of it, midnight or not: no
\* movement of a month in the table was left out of the query. And as long as
\* midnight does not end the month, no month of the range is missing
\* (finance.service.ts:280-296).
MonthsAreWhole ==
  \A asked \in 1..MaxMonths : Answerable(asked, endsAt) =>
    \A midnight \in 0..asked :
      LET table == Table(asked, endsAt, midnight)
          counted == Counted(asked, endsAt, midnight)
      IN  /\ {t \in PaidAt : MonthKey[t] \in table} \subseteq counted
          /\ MonthKey[endsAt] = MonthKey[endsAt + 1]
               => {t \in Queried(asked, endsAt) : t <= endsAt} \subseteq counted
=============================================================================
