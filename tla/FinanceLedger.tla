---------------------------- MODULE FinanceLedger ----------------------------
(***************************************************************************)
(* What finance.service.ts promises about a financial movement, without    *)
(* requests, reads or version checks (schema.prisma:348-354): a movement   *)
(* is created once, is edited or voided by atomic steps that each act on   *)
(* the row as it is at that moment, changes neither its type nor the kind  *)
(* of its category, and never changes once voided. Finance, where reads    *)
(* and writes of many requests interleave, implements this module.         *)
(***************************************************************************)
EXTENDS Naturals

CONSTANTS
  Movements,    \* ids of financial_transactions rows
  Absent,       \* the row of an id that was never inserted
  Types,        \* income and expense
  Categories,   \* ids of financial_categories rows
  KindOf,       \* the kind of each category
  OpenStatuses  \* the statuses a request may ask for

VARIABLE movement

Statuses == OpenStatuses \cup {"voided"}

Row == [type : Types, status : Statuses, category : Categories,
        version : Nat]

Init == movement = [m \in Movements |-> Absent]

Create(m, category, status) ==
  /\ movement[m] = Absent
  /\ movement' = [movement EXCEPT ![m] =
       [type |-> KindOf[category], status |-> status, category |-> category,
        version |-> 1]]

Live(m) == movement[m] # Absent /\ movement[m].status # "voided"

Edit(m, category, status) ==
  /\ Live(m)
  /\ KindOf[category] = movement[m].type
  /\ movement' = [movement EXCEPT ![m] =
       [movement[m] EXCEPT !.category = category, !.status = status,
                           !.version = movement[m].version + 1]]

Void(m) ==
  /\ Live(m)
  /\ movement' = [movement EXCEPT ![m] =
       [movement[m] EXCEPT !.status = "voided",
                           !.version = movement[m].version + 1]]

Next ==
  \E m \in Movements :
    \/ Void(m)
    \/ \E category \in Categories, status \in OpenStatuses :
         Create(m, category, status) \/ Edit(m, category, status)

Spec == Init /\ [][Next]_movement
=============================================================================
