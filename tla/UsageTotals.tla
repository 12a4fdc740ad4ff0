----------------------------- MODULE UsageTotals -----------------------------
(***************************************************************************)
(* What the comment of UsageService.recordEvent promises                   *)
(* (usage.service.ts:30-34): an event and the two aggregates it belongs to *)
(* change together or not at all, so that an aggregate never parts from    *)
(* the events it is made of. Usage, where statements of many ingestions    *)
(* interleave, implements this module.                                     *)
(***************************************************************************)
EXTENDS UsageBuckets

VARIABLES
  stored,      \* how many usage_events rows there are of each event
  aggregate    \* the usage_aggregates_hourly and _daily rows

Init ==
  /\ stored = [e \in Offered |-> 0]
  /\ aggregate = [b \in Buckets |-> Absent]

Ingested(e) ==
  [b \in Buckets |->
     IF b \in {Bucket(g, e) : g \in Grains} THEN Plus(aggregate[b], e)
     ELSE aggregate[b]]

Ingest(e) ==
  /\ \A g \in Grains : Fits(Ingested(e)[Bucket(g, e)])
  /\ stored' = [stored EXCEPT ![e] = @ + 1]
  /\ aggregate' = Ingested(e)

Next == \E e \in Offered : Ingest(e)

Spec == Init /\ [][Next]_<<stored, aggregate>>
=============================================================================
