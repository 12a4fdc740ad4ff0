------------------------------- MODULE Usage -------------------------------
(***************************************************************************)
(* UsageService.recordEvent (src/apps/api/src/usage/usage.service.ts)      *)
(* against PostgreSQL: one transaction inserts the event, then upserts the *)
(* hourly and then the daily aggregate. An upsert is one INSERT ... ON     *)
(* CONFLICT DO UPDATE: it takes the lock of the key, waiting for the       *)
(* transaction that holds it, and then sees the committed row. The locks   *)
(* are kept until the commit or the rollback, so concurrent ingestions     *)
(* wait for one another.                                                   *)
(*                                                                         *)
(* Not modelled: the metadata of an event, and the audit event beyond the  *)
(* step in which it may fail. Organizations are never deleted.             *)
(***************************************************************************)
EXTENDS UsageBuckets

CONSTANTS
  Requests,    \* the ingestions the API can have in flight
  Copies       \* bound on how often an event is stored when one starts

VARIABLES
  stored,      \* how many usage_events rows there are of each event
  aggregate,   \* the usage_aggregates_hourly and _daily rows
  job          \* what each request is doing

vars == <<stored, aggregate, job>>

Idle == [at |-> "idle"]
Written == Row \cup {Absent}

\* row[g] is the aggregate row of grain g that the transaction has written,
\* Absent before it has.
Transaction == [at : {"open"}, event : Offered, row : [Grains -> Written]]
Job == {Idle} \cup Transaction \cup [at : {"committed"}, event : Offered]

Init ==
  /\ stored = [e \in Offered |-> 0]
  /\ aggregate = [b \in Buckets |-> Absent]
  /\ job = [q \in Requests |-> Idle]

Step(q, at) == job[q].at = at
Become(q, j) == job' = [job EXCEPT ![q] = j]

\* The keys whose locks the transaction of q holds.
Holds(q, b) ==
  /\ Step(q, "open")
  /\ \E g \in Grains : job[q].row[g] # Absent /\ b = Bucket(g, job[q].event)

\* Mutant of Free: the row is read and written back without a lock.
Unlocked(q, b) == TRUE

Free(q, b) == \A r \in Requests \ {q} : ~Holds(r, b)

\* Mutant of NextGrain: some callers, such as an import, begin with the day.
NextByCaller(q) ==
  LET first == IF q = CHOOSE r \in Requests : TRUE THEN "day" ELSE "hour"
  IN IF job[q].row[first] = Absent THEN first
     ELSE CHOOSE g \in Grains : g # first

\* The hour, then the day.
NextGrain(q) == IF job[q].row["hour"] = Absent THEN "hour" ELSE "day"

Needed(q) == Bucket(NextGrain(q), job[q].event)
Unwritten(q) == Step(q, "open") /\ job[q].row[NextGrain(q)] = Absent

-----------------------------------------------------------------------------

\* Finds the organization, begins the transaction and inserts the event.
Insert(q, e) ==
  /\ job[q] = Idle
  /\ e.quantity <= MaxInt
  /\ stored[e] < Copies
  /\ Become(q, [at |-> "open", event |-> e, row |-> [g \in Grains |-> Absent]])
  /\ UNCHANGED <<stored, aggregate>>

Upsert(q) ==
  /\ Unwritten(q)
  /\ Free(q, Needed(q))
  /\ LET row == Plus(aggregate[Needed(q)], job[q].event) IN
       /\ Fits(row)
       /\ Become(q, [job[q] EXCEPT !.row[NextGrain(q)] = row])
  /\ UNCHANGED <<stored, aggregate>>

\* Mutant of Overflow: the transaction waits for a value that fits.
OverflowWaits(q) == FALSE

\* "integer out of range": the increment fails, and with it the transaction.
Overflow(q) ==
  /\ Unwritten(q)
  /\ Free(q, Needed(q))
  /\ ~Fits(Plus(aggregate[Needed(q)], job[q].event))
  /\ Become(q, Idle)
  /\ UNCHANGED <<stored, aggregate>>

Commit(q) ==
  /\ Step(q, "open") /\ ~Unwritten(q)
  /\ LET e == job[q].event IN
       /\ stored' = [stored EXCEPT ![e] = @ + 1]
       /\ aggregate' = [aggregate EXCEPT
            ![Bucket("hour", e)] = job[q].row["hour"],
            ![Bucket("day", e)] = job[q].row["day"]]
       /\ Become(q, [at |-> "committed", event |-> e])

\* audit.record, and the reply.
Answer(q) ==
  /\ Step(q, "committed")
  /\ Become(q, Idle)
  /\ UNCHANGED <<stored, aggregate>>

\* An error, a transaction timeout or a crash, after any step. PostgreSQL
\* rolls the transaction back, unless it had committed.
Fail(q) ==
  /\ job[q] # Idle
  /\ Become(q, Idle)
  /\ UNCHANGED <<stored, aggregate>>

-----------------------------------------------------------------------------

Proceed(q) == Upsert(q) \/ Overflow(q)

Next ==
  \E q \in Requests :
    \/ \E e \in Offered : Insert(q, e)
    \/ Proceed(q) \/ Commit(q) \/ Answer(q) \/ Fail(q)

Spec == Init /\ [][Next]_vars

\* Node runs each handler on; PostgreSQL gives a lock in the order it was
\* asked for, so whoever keeps finding it free in turn gets it (strong
\* fairness). No failure and no new request is assumed.
FairSpec ==
  Spec /\ \A q \in Requests :
    SF_vars(Proceed(q)) /\ WF_vars(Commit(q) \/ Answer(q))

-----------------------------------------------------------------------------

\* Every variable holds what its table or handler can hold, and what has been
\* committed fits its column.
TypeOK ==
  /\ stored \in [Offered -> Nat]
  /\ aggregate \in
       [Buckets -> [total : 0..MaxInt, count : 0..MaxInt] \cup {Absent}]
  /\ job \in [Requests -> Job]

\* q has to wait for r, whose transaction holds the key q needs next.
WaitsFor(q, r) == r # q /\ Unwritten(q) /\ Holds(r, Needed(q))

\* Ingestions never wait in a circle: whichever of them one looks at, one can
\* go on without the others (usage.service.ts:60-100 takes the hour before
\* the day, and both always).
NoWaitCycle ==
  \A S \in (SUBSET Requests) \ {{}} : \E q \in S : \A r \in S : ~WaitsFor(q, r)

\* Concurrent ingestions, whatever fails, have the effect of atomic ones: the
\* comment at usage.service.ts:30-34.
Totals == INSTANCE UsageTotals
ImplementsTotals == Totals!Spec

\* No ingestion is left waiting for the lock of an aggregate.
EveryIngestionEnds == \A q \in Requests : job[q] # Idle ~> job[q] = Idle
=============================================================================
