---------------------------- MODULE BillingPeriod ----------------------------
(***************************************************************************)
(* The calendar of src/apps/api/src/licenses/billing-period.ts, and the    *)
(* terms of one license that it makes: issued on some day, with a trial or *)
(* with a first period, then renewed on time or late, month by month or by *)
(* the year.                                                               *)
(*                                                                         *)
(* A date is what a JavaScript Date holds, a count of days (from 1 January *)
(* of FirstYear; the time of day is carried along by every operation, and  *)
(* left out). setMonth, setFullYear and setDate are the MakeDay of         *)
(* ECMAScript, which lets a day past the end of its month run on into the  *)
(* next. Licenses abstracts from all this: it only says that a period is   *)
(* longer than nothing.                                                    *)
(***************************************************************************)
EXTENDS Integers, FiniteSets

CONSTANTS
  FirstYear, LastYear,   \* the years licenses are issued and renewed in
  TrialDays,             \* the trial lengths the plan versions offer
  MaxLate                \* bound on the days a renewal comes after the end

ASSUME CalendarAssumption ==
  /\ FirstYear \in Nat /\ LastYear \in Nat /\ FirstYear <= LastYear
  /\ TrialDays \subseteq Nat
  /\ MaxLate \in Nat

Leap(year) == year % 4 = 0 /\ (year % 100 # 0 \/ year % 400 = 0)

DaysBefore == <<0, 31, 59, 90, 120, 151, 181, 212, 243, 273, 304, 334>>

\* The first day of a month, 0 for January as in JavaScript.
FirstDay(year, month) ==
  365 * (year - FirstYear)
    + Cardinality({y \in FirstYear..(year - 1) : Leap(y)})
    + DaysBefore[month + 1]
    + (IF month > 1 /\ Leap(year) THEN 1 ELSE 0)

\* Mutant of MakeDay: the thirteenth month stays in the same year.
MakeDayNoCarry(year, month, day) == FirstDay(year, month % 12) + day - 1

\* Any month and any day: what exceeds the year or the month is carried on.
MakeDay(year, month, day) ==
  FirstDay(year + (month \div 12), month % 12) + day - 1

\* A year has 365 days or more, so this looks far enough.
Year(t) ==
  CHOOSE y \in FirstYear..(FirstYear + (t \div 365)) :
    FirstDay(y, 0) <= t /\ t < FirstDay(y + 1, 0)

Month(t) ==
  CHOOSE m \in 0..11 :
    /\ FirstDay(Year(t), m) <= t
    /\ \A later \in (m + 1)..11 : t < FirstDay(Year(t), later)

DayOfMonth(t) == t - FirstDay(Year(t), Month(t)) + 1

Days == FirstDay(FirstYear, 0)..(FirstDay(LastYear + 1, 0) - 1)
Periods == {"monthly", "yearly"}

\* Mutant of AddBillingPeriod: a month of thirty days.
AddThirtyDays(date, period) ==
  IF period = "monthly" THEN date + 30
  ELSE MakeDay(Year(date) + 1, Month(date), DayOfMonth(date))

AddBillingPeriod(date, period) ==
  IF period = "monthly"
    THEN MakeDay(Year(date), Month(date) + 1, DayOfMonth(date))
    ELSE MakeDay(Year(date) + 1, Month(date), DayOfMonth(date))

AddDays(date, days) ==
  MakeDay(Year(date), Month(date), DayOfMonth(date) + days)

VARIABLES
  endsAt,    \* the end of the license's term
  anchor,    \* the date its present run of periods counts from
  months,    \* the periods granted since then, monthly ones
  years      \* and yearly ones

termVars == <<endsAt, anchor, months, years>>

Count(period) ==
  /\ months' = months + (IF period = "monthly" THEN 1 ELSE 0)
  /\ years' = years + (IF period = "yearly" THEN 1 ELSE 0)

\* issue: a first period from startsAt, or a trial that later periods count
\* from.
TermInit ==
  \E startsAt \in {t \in Days : Year(t) = FirstYear} :
    \/ \E period \in Periods :
         /\ anchor = startsAt
         /\ endsAt = AddBillingPeriod(startsAt, period)
         /\ months = (IF period = "monthly" THEN 1 ELSE 0)
         /\ years = (IF period = "yearly" THEN 1 ELSE 0)
    \/ \E days \in TrialDays :
         /\ endsAt = AddDays(startsAt, days)
         /\ anchor = endsAt
         /\ months = 0 /\ years = 0

\* renew before the end: the term is extended from its end.
RenewOnTime(period) ==
  /\ endsAt \in Days
  /\ endsAt' = AddBillingPeriod(endsAt, period)
  /\ Count(period)
  /\ UNCHANGED anchor

\* renew some days after the end: the term restarts today.
RenewLate(period, now) ==
  /\ endsAt < now /\ now \in Days
  /\ endsAt' = AddBillingPeriod(now, period)
  /\ anchor' = now
  /\ months' = (IF period = "monthly" THEN 1 ELSE 0)
  /\ years' = (IF period = "yearly" THEN 1 ELSE 0)

TermNext ==
  \E period \in Periods :
    \/ RenewOnTime(period)
    \/ \E late \in 1..MaxLate : RenewLate(period, endsAt + late)

TermSpec == TermInit /\ [][TermNext]_termVars
-----------------------------------------------------------------------------
Lengths == [monthly |-> 28..31, yearly |-> 365..366]

\* A renewal grants a calendar month or year whatever the day it starts on:
\* 28 to 31 days, or 365 or 366, also across the overflow of a short month.
PeriodHasItsLength ==
  [][\A period \in Periods :
       /\ RenewOnTime(period) => endsAt' - endsAt \in Lengths[period]
       /\ \A late \in 1..MaxLate :
            RenewLate(period, endsAt + late)
              => endsAt' - (endsAt + late) \in Lengths[period]]_termVars

\* A license that counts from the 28th or earlier never drifts: its end is the
\* same day of the month, as many months and years after the anchor as were
\* granted, in whatever order. Twelve months are one year.
EndsAreAnchored ==
  DayOfMonth(anchor) <= 28 =>
    endsAt = MakeDay(Year(anchor) + years, Month(anchor) + months,
                     DayOfMonth(anchor))
=============================================================================
