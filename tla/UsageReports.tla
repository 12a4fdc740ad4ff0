---------------------------- MODULE UsageReports ----------------------------
(***************************************************************************)
(* What UsageService answers from the aggregates: summary, timeseries and  *)
(* organizationUsage (usage.service.ts:121-243) with the quotas of         *)
(* quota-status.ts. Each is one query of one table, so it sees one         *)
(* committed state of it. A range is a pair of ticks, both included; the   *)
(* range a query leaves open runs from the start of the month to now.      *)
(***************************************************************************)
EXTENDS Usage, SequencesExt

CONSTANTS
  Limits,        \* limits of plan versions
  MonthLength,   \* ticks of a month
  Times          \* the ticks ranges are made of

\* Only so many events have ever been reported.
ASSUME ReportsAssumption ==
  /\ IsFiniteSet(Offered)
  /\ Limits \subseteq Nat
  /\ MonthLength \in Nat \ {0} /\ Times \subseteq Nat

StartOfMonth(now) == now - (now % MonthLength)

\* The aggregates a query finds, of the periods that start at some ticks.
Rows(grain, orgs, metric, ticks) ==
  {b \in Buckets : /\ b.grain = grain /\ b.org \in orgs /\ b.metric = metric
                   /\ b.start \in ticks /\ aggregate[b] # Absent}

Total(rows) == SumFunction([b \in rows |-> aggregate[b].total])

\* Mutant of Summary: the day that has just begun is left out.
SummaryBefore(metric, from, to) ==
  Total(Rows("day", Orgs, metric, from..(to - 1)))

\* totalQuantity of a metric over all organizations.
Summary(metric, from, to) == Total(Rows("day", Orgs, metric, from..to))

\* The points come in the order of time.
Ordered(points) ==
  \A i, j \in DOMAIN points : i < j => points[i].start < points[j].start

\* The points of a series over some organizations: one per period that has a
\* row, in the order of time.
Timeseries(grain, orgs, metric, from, to) ==
  LET rows == Rows(grain, orgs, metric, from..to)
      point(start) ==
        [start |-> start, total |-> Total({b \in rows : b.start = start})]
  IN CHOOSE points \in SetToSeqs({point(b.start) : b \in rows}) : Ordered(points)

\* Everything from the start of the month on: the query has no upper bound.
OrganizationUsage(org, metric, now) ==
  LET later == {b.start : b \in {c \in Buckets : c.start >= StartOfMonth(now)}}
  IN Total(Rows("day", {org}, metric, later))

\* Mutant of Percent: a limit of nothing is never used up.
PercentOfSome(used, limit) ==
  IF limit = 0 THEN 0 ELSE (2000 * used + limit) \div (2 * limit)

\* percentUsed in tenths, rounded half up.
Percent(used, limit) ==
  IF limit = 0 THEN (IF used > 0 THEN 1000 ELSE 0)
  ELSE (2000 * used + limit) \div (2 * limit)

\* The item of one metric against one limit of the plan version.
Quota(org, metric, limit, now) ==
  LET used == OrganizationUsage(org, metric, now)
  IN [used |-> used, limit |-> limit, percentUsed |-> Percent(used, limit)]

-----------------------------------------------------------------------------

Consumption == [e \in Offered |-> stored[e] * e.quantity]

\* The events of some organizations in periods that start at some ticks, and
\* the consumption that they report.
Events(grain, orgs, metric, ticks) ==
  {e \in Offered : /\ e.org \in orgs /\ e.metric = metric
                   /\ Truncated(grain, e.at) \in ticks}
Consumed(grain, orgs, metric, ticks) ==
  SumFunctionOnSet(Consumption, Events(grain, orgs, metric, ticks))

\* An aggregate is the sum of its events and exists with the first of them,
\* whatever overlapped, failed or overflowed (usage.service.ts:30-34).
AggregatesMatchEvents ==
  \A b \in Buckets :
    LET mine == {e \in Offered : Bucket(b.grain, e) = b}
        count == SumFunctionOnSet(stored, mine)
        total == SumFunctionOnSet(Consumption, mine)
    IN aggregate[b] = IF count = 0 THEN Absent
                      ELSE [total |-> total, count |-> count]

\* The points of a series add up to the events of its range, each period
\* appears once and in order.
SeriesMatchesEvents(grain, orgs, metric, from, to) ==
  LET series == Timeseries(grain, orgs, metric, from, to) IN
    /\ Ordered(series)
    /\ \A i \in DOMAIN series :
         series[i].total = Consumed(grain, orgs, metric, {series[i].start})
    /\ SumFunction([i \in DOMAIN series |-> series[i].total]) =
         Consumed(grain, orgs, metric, from..to)

\* The three reports agree with the events and so with one another: a series,
\* by the hour or by the day, of one client or of all, and the summary, which
\* is the sum of the series by the day (usage.service.ts:121-205).
ReportsMatchEvents ==
  \A metric \in Metrics, from, to \in Times :
    /\ Summary(metric, from, to) = Consumed("day", Orgs, metric, from..to)
    /\ \A grain \in Grains, orgs \in {Orgs} \cup {{o} : o \in Orgs} :
         SeriesMatchesEvents(grain, orgs, metric, from, to)

\* What is shown of one metric of one client, against what its events of this
\* month report, and those dated later.
HonestItem(org, metric, limit, now) ==
  LET percentUsed == Quota(org, metric, limit, now).percentUsed
      end == StartOfMonth(now) + MonthLength
      month == Consumed("day", {org}, metric, StartOfMonth(now)..(end - 1))
      days == {Truncated("day", e.at) : e \in Offered}
      later == Consumed("day", {org}, metric, {t \in days : t >= end})
  IN /\ month >= limit /\ month > 0 => percentUsed >= 1000
     /\ percentUsed >= 1000 => 2000 * (month + later) >= 1999 * limit

\* A client that has used up what its plan grants this month is never shown
\* below 100 %, whatever the limit, and one shown at 100 % has used 99.95 % of
\* it, this month or, since the query has no end, in events dated later
\* (quota-status.ts:21-24, usage.service.ts:216-240).
QuotaIsHonest ==
  \A org \in Orgs, metric \in Metrics, limit \in Limits, now \in Times :
    HonestItem(org, metric, limit, now)
=============================================================================
