------------------------------- MODULE MCUsage -------------------------------
(* Two ingestions at once; a day is two hours and a month two days. Two     *)
(* events of one client share a day but not an hour, a third is of the next  *)
(* month, and the other client's falls into the hour of the first.           *)
EXTENDS UsageReports

E(org, at, quantity) ==
  [org |-> org, metric |-> "api_request", at |-> at, quantity |-> quantity]
MCOffered ==
  {E("org1", 1, 1), E("org1", 3, 2), E("org1", 9, 1), E("org2", 0, 1)}
=============================================================================
