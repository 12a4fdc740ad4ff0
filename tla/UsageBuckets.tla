---------------------------- MODULE UsageBuckets ----------------------------
(***************************************************************************)
(* Events of consumption and the hourly and daily aggregates they fall in: *)
(* src/apps/api/src/usage/date-bucket.ts and the rows of the migration     *)
(* 20260917132051_usage_events. UsageTotals says what an ingestion does,   *)
(* Usage how.                                                              *)
(***************************************************************************)
EXTENDS Naturals

CONSTANTS
  Offered,      \* the events the clients report, see Event
  Orgs,         \* ids of organizations
  Metrics,      \* names of metrics
  HourLength,   \* ticks of an hour
  DayLength,    \* ticks of a day
  MaxInt,       \* the largest value of an INTEGER column
  Absent        \* the aggregate of a bucket that has no row

\* A quantity is at least 1 (record-usage-event.dto.ts:25-28).
Event == [org : Orgs, metric : Metrics, at : Nat, quantity : Nat \ {0}]

ASSUME UsageAssumption ==
  /\ Offered \subseteq Event
  /\ HourLength \in Nat \ {0} /\ DayLength \in Nat \ {0}
  /\ MaxInt \in Nat
  /\ Absent \notin [total : Nat, count : Nat]

Grains == {"hour", "day"}

Truncated(grain, at) ==
  at - (at % (IF grain = "hour" THEN HourLength ELSE DayLength))

\* The unique key of an aggregate.
Bucket(grain, e) ==
  [grain |-> grain, org |-> e.org, metric |-> e.metric,
   start |-> Truncated(grain, e.at)]

Buckets == {Bucket(g, e) : g \in Grains, e \in Offered}

Row == [total : Nat, count : Nat]

\* Mutant of Plus: an increment computed from the default of the column.
PlusOne(row, e) ==
  IF row = Absent THEN [total |-> e.quantity, count |-> 1]
  ELSE [total |-> row.total + e.quantity, count |-> 1]

Plus(row, e) ==
  IF row = Absent THEN [total |-> e.quantity, count |-> 1]
  ELSE [total |-> row.total + e.quantity, count |-> row.count + 1]

\* Mutant of Fits: only the count is kept in range.
FitsCount(row) == row.count <= MaxInt

Fits(row) == row.total <= MaxInt /\ row.count <= MaxInt
=============================================================================
