------------------------------- MODULE Finance -------------------------------
(***************************************************************************)
(* The movements of src/apps/api/src/finance/finance.service.ts and the    *)
(* operators who edit them, with optimistic locking on the version column. *)
(*                                                                         *)
(* Operators fetch rows (the list of FinancePage.tsx) and later submit a   *)
(* PATCH or a void that quotes the version they fetched. A handler reads   *)
(* the row and checks it, then writes with updateMany({id, version}) in    *)
(* one statement, then records the audit event in a transaction of its     *)
(* own. Handlers of many requests interleave between those steps; an       *)
(* operator may submit the same edit twice from one fetched row; a request *)
(* may end after any step on an error, a crash of the API being all of     *)
(* them ending so. A request refused by a check before its write changes   *)
(* nothing and is not a step.                                              *)
(*                                                                         *)
(* The dto's version is one the client read (UpdateFinancialTransactionDto *)
(* says so and the web client does so). Categories are never updated or    *)
(* deleted by the API, so they are constants. Amounts, dates and texts     *)
(* take part in no check and are left out.                                 *)
(***************************************************************************)
EXTENDS Naturals, FiniteSets

CONSTANTS
  Operators,    \* clients of the API
  Requests,     \* the requests the API can have in flight
  Movements,    \* ids of financial_transactions rows
  Absent,       \* the row of an id that was never inserted
  Types,        \* income and expense
  Categories,   \* ids of financial_categories rows
  KindOf,       \* the kind of each category
  OpenStatuses, \* the statuses create and update accept
  NoDto,        \* the body of a request slot not in use
  Keep,         \* a field an update leaves out
  MaxVersion    \* bound on the edits of one movement

Statuses == OpenStatuses \cup {"voided"}
Row == [type : Types, status : Statuses, category : Categories,
        version : Nat]

\* The bodies of create, update and void. Of seen, the row the operator was
\* looking at, the request carries the version only.
Dto == [op : {"create", "update", "void"}, id : Movements,
        category : Categories \cup {Keep}, status : OpenStatuses \cup {Keep},
        seen : Row]

ASSUME FinanceAssumption ==
  /\ KindOf \in [Categories -> Types]
  /\ "voided" \notin OpenStatuses
  /\ Absent \notin Row
  /\ Keep \notin Categories \cup OpenStatuses
  /\ MaxVersion \in Nat

VARIABLES
  movement,     \* the financial_transactions table
  view,         \* the rows each operator last fetched
  phase,        \* how far the handler of each request has got
  dto,          \* what the handler holds
  audited       \* number of finance.transaction_* events on each movement

vars == <<movement, view, phase, dto, audited>>

Phases == {"idle", "checked", "written"}

Init ==
  /\ movement = [m \in Movements |-> Absent]
  /\ view = [o \in Operators |-> [m \in Movements |-> Absent]]
  /\ phase = [q \in Requests |-> "idle"]
  /\ dto = [q \in Requests |-> NoDto]
  /\ audited = [m \in Movements |-> 0]

\* create: the category must be of the movement's type. The row is inserted
\* under a fresh id, and its audit event is still to be recorded.
Create(q, m, type, category, status) ==
  LET new == [type |-> type, status |-> status, category |-> category,
              version |-> 1]
  IN  /\ phase[q] = "idle"
      /\ movement[m] = Absent
      /\ KindOf[category] = type
      /\ movement' = [movement EXCEPT ![m] = new]
      /\ phase' = [phase EXCEPT ![q] = "written"]
      /\ dto' = [dto EXCEPT ![q] =
           [op |-> "create", id |-> m, category |-> category,
            status |-> status, seen |-> new]]
      /\ UNCHANGED <<view, audited>>

\* list and findOne, from the operator's side.
Fetch(o) ==
  /\ view' = [view EXCEPT ![o] = movement]
  /\ UNCHANGED <<movement, phase, dto, audited>>

\* Mutant of Check: no look at the status that was read.
CheckAnyStatus(q, body) ==
  /\ phase[q] = "idle"
  /\ phase' = [phase EXCEPT ![q] = "checked"]
  /\ dto' = [dto EXCEPT ![q] = body]
  /\ UNCHANGED <<movement, view, audited>>

\* The handler's findOrThrow and its checks, up to the write.
Check(q, body) ==
  /\ phase[q] = "idle"
  /\ movement[body.id].status # "voided"
  /\ phase' = [phase EXCEPT ![q] = "checked"]
  /\ dto' = [dto EXCEPT ![q] = body]
  /\ UNCHANGED <<movement, view, audited>>

\* Mutant of StartUpdate: the kind of the new category is not looked at.
StartUpdateAnyKind(q, o, m, category, status) ==
  /\ view[o][m] # Absent
  /\ Check(q, [op |-> "update", id |-> m, category |-> category,
               status |-> status, seen |-> view[o][m]])

StartUpdate(q, o, m, category, status) ==
  /\ view[o][m] # Absent
  /\ category # Keep => KindOf[category] = movement[m].type
  /\ Check(q, [op |-> "update", id |-> m, category |-> category,
               status |-> status, seen |-> view[o][m]])

StartVoid(q, o, m) ==
  /\ view[o][m] # Absent
  /\ Check(q, [op |-> "void", id |-> m, category |-> Keep, status |-> Keep,
               seen |-> view[o][m]])

Given(field, old) == IF field = Keep THEN old ELSE field

\* The data of updateMany, applied to the row it finds.
Written(row, body) ==
  IF body.op = "void"
    THEN [row EXCEPT !.status = "voided", !.version = row.version + 1]
    ELSE [row EXCEPT !.category = Given(body.category, row.category),
                     !.status = Given(body.status, row.status),
                     !.version = row.version + 1]

\* Mutant of Matches: where {id} alone.
MatchesAny(q) == TRUE

Matches(q) == movement[dto[q].id].version = dto[q].seen.version

\* updateMany where {id, version}: one row found, and written.
Write(q) ==
  /\ phase[q] = "checked"
  /\ Matches(q)
  /\ movement[dto[q].id].version < MaxVersion
  /\ movement' = [movement EXCEPT ![dto[q].id] = Written(@, dto[q])]
  /\ phase' = [phase EXCEPT ![q] = "written"]
  /\ UNCHANGED <<view, dto, audited>>

Finish(q) ==
  /\ phase' = [phase EXCEPT ![q] = "idle"]
  /\ dto' = [dto EXCEPT ![q] = NoDto]
  /\ UNCHANGED <<movement, view>>

\* Mutant of Conflict: the audit event comes before the look at the count.
ConflictAudited(q) ==
  /\ phase[q] = "checked"
  /\ ~ Matches(q)
  /\ audited' = [audited EXCEPT ![dto[q].id] = @ + 1]
  /\ Finish(q)

\* No row found: 409, "recarga e intenta de nuevo".
Conflict(q) ==
  /\ phase[q] = "checked"
  /\ ~ Matches(q)
  /\ Finish(q)
  /\ UNCHANGED audited

\* audit.record, then the final findOrThrow that answers the request.
Audit(q) ==
  /\ phase[q] = "written"
  /\ audited' = [audited EXCEPT ![dto[q].id] = @ + 1]
  /\ Finish(q)

\* The request ends on an error: a failed statement, a failed audit.record
\* after the write, or the death of the API process.
Fail(q) ==
  /\ phase[q] # "idle"
  /\ Finish(q)
  /\ UNCHANGED audited

Next ==
  \/ \E q \in Requests, m \in Movements, type \in Types,
        category \in Categories, status \in OpenStatuses :
       Create(q, m, type, category, status)
  \/ \E o \in Operators : Fetch(o)
  \/ \E q \in Requests, o \in Operators, m \in Movements :
       \/ StartVoid(q, o, m)
       \/ \E category \in Categories \cup {Keep},
             status \in OpenStatuses \cup {Keep} :
            StartUpdate(q, o, m, category, status)
  \/ \E q \in Requests : Write(q) \/ Conflict(q) \/ Audit(q) \/ Fail(q)

Spec == Init /\ [][Next]_vars
-----------------------------------------------------------------------------
TypeOK ==
  /\ movement \in [Movements -> Row \cup {Absent}]
  /\ view \in [Operators -> [Movements -> Row \cup {Absent}]]
  /\ phase \in [Requests -> Phases]
  /\ dto \in [Requests -> Dto \cup {NoDto}]
  /\ \A q \in Requests : phase[q] # "idle" => dto[q] \in Dto
  /\ audited \in [Movements -> Nat]

\* "`voided` como estado terminal" (schema.prisma:353): no request changes a
\* voided movement, although no write looks at the status: update and void
\* look at it in an earlier statement, and other requests write in between.
VoidedIsTerminal ==
  [][\A m \in Movements :
       movement[m] # Absent /\ movement[m].status = "voided"
         => movement'[m] = movement[m]]_vars

\* A write lands only on the very row its author was looking at, so no edit of
\* another operator is overwritten unseen, whatever was fetched, submitted
\* twice or written in between.
NoLostUpdate ==
  [][\A q \in Requests :
       Write(q) => movement[dto[q].id] = dto[q].seen]_vars

\* 409 is only answered when the row did change since the operator fetched it.
ConflictIsReal ==
  [][\A q \in Requests :
       Conflict(q) => dto[q].seen.version < movement[dto[q].id].version]_vars

\* The bitacora never claims a change that was not made: at most one event per
\* version of a movement, counting the requests that still owe theirs.
AuditNeverOverstates ==
  \A m \in Movements :
    audited[m] + Cardinality({q \in Requests :
                                phase[q] = "written" /\ dto[q].id = m})
      <= IF movement[m] = Absent THEN 0 ELSE movement[m].version

\* Concurrent requests have the effect of atomic edits of the current row.
Ledger == INSTANCE FinanceLedger
ImplementsLedger == Ledger!Spec
=============================================================================
