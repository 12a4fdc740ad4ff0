------------------------------ MODULE Licenses ------------------------------
(***************************************************************************)
(* The life of a license under src/apps/api/src/licenses: issue, renew,    *)
(* suspend, reactivate and revoke, as handlers of concurrent requests.     *)
(*                                                                         *)
(* Every handler but issue reads the license with findOrThrow, checks the  *)
(* status it read against ALLOWED_FROM, and then, in a transaction that    *)
(* names the license by id alone, sets the new status and appends a        *)
(* license_events row whose fromStatus is the status it read. Nothing      *)
(* holds the license between the two. The audit event is a transaction of  *)
(* its own afterwards. A handler may end after any step on an error; a     *)
(* crash of the API is all of them ending so. A request refused by a check *)
(* changes nothing and is not a step.                                      *)
(*                                                                         *)
(* Dates are natural numbers and a billing period a positive length; the   *)
(* calendar itself is BillingPeriod. Plan versions are never changed or    *)
(* deleted by the API and are constants. graceEndsAt is only ever set to   *)
(* null and is left out. No code expires a license                         *)
(* (licenses.service.ts:60-65).                                            *)
(***************************************************************************)
EXTENDS Naturals, Sequences

CONSTANTS
  Requests,       \* the requests the API can have in flight
  Licenses,       \* ids of licenses rows
  PlanVersions,   \* ids of plan_versions rows
  TrialDays,      \* trialDays of each plan version
  PeriodLength,   \* length of the billing period of each plan version
  Absent,         \* the row of an id that was never inserted
  NoTask,         \* what a request slot not in use holds
  MaxTime,        \* bound on the clock, and on the dates an issue asks for
  MaxEvents       \* bound on the transitions of one license

Dates == Nat

ASSUME LicensesAssumption ==
  /\ TrialDays \in [PlanVersions -> Nat]
  /\ PeriodLength \in [PlanVersions -> Nat \ {0}]
  /\ MaxTime \in Nat /\ MaxEvents \in Nat

Statuses == {"draft", "trial", "active", "past_due", "grace_period",
             "suspended", "expired", "revoked"}
StartStatuses == {"draft", "trial", "active"}
Actions == {"renew", "suspend", "reactivate", "revoke"}

\* Mutant of AllowedFrom: reactivate takes a revoked license back.
AllowedFromRevoked == [
  renew      |-> {"active", "past_due", "grace_period", "expired"},
  suspend    |-> {"trial", "active", "past_due", "grace_period"},
  reactivate |-> {"suspended", "revoked"},
  revoke     |-> Statuses \ {"revoked"}]

AllowedFrom == [
  renew      |-> {"active", "past_due", "grace_period", "expired"},
  suspend    |-> {"trial", "active", "past_due", "grace_period"},
  reactivate |-> {"suspended"},
  revoke     |-> Statuses \ {"revoked"}]

TargetStatus == [
  renew |-> "active", suspend |-> "suspended",
  reactivate |-> "active", revoke |-> "revoked"]

Row == [status : Statuses, startsAt : Dates, endsAt : Dates,
        planVersion : PlanVersions]

\* A license_events row; from is "none" for the null of the first one.
Event == [from : Statuses \cup {"none"}, to : Statuses]

\* What a handler holds: the row it read and, once computed, the new term.
Task == [action : Actions \cup {"issue"}, id : Licenses, read : Row,
         planVersion : PlanVersions, endsAt : Dates]

ASSUME AbsentAssumption == Absent \notin Row /\ NoTask \notin Task

VARIABLES
  now,
  license,      \* the licenses table
  events,       \* the license_events of each license, oldest first
  phase,        \* how far the handler of each request has got
  task,         \* what the handler holds
  audited       \* number of licenses.* audit events on each license

vars == <<now, license, events, phase, task, audited>>

Phases == {"idle", "checked", "priced", "written"}

Init ==
  /\ now = 0
  /\ license = [l \in Licenses |-> Absent]
  /\ events = [l \in Licenses |-> << >>]
  /\ phase = [q \in Requests |-> "idle"]
  /\ task = [q \in Requests |-> NoTask]
  /\ audited = [l \in Licenses |-> 0]

Tick ==
  /\ now < MaxTime
  /\ now' = now + 1
  /\ UNCHANGED <<license, events, phase, task, audited>>

\* Mutant of Later: the new term starts now, whatever is left of the old one.
NowAlways(a, b) == b

Later(a, b) == IF a > b THEN a ELSE b

AddBillingPeriod(date, v) == date + PeriodLength[v]

FirstEnd(v, status, startsAt) ==
  CASE status = "trial" -> startsAt + TrialDays[v]
    [] status = "active" -> AddBillingPeriod(startsAt, v)
    [] OTHER -> startsAt

\* issue: the row and its first event, under a fresh id. The status is the one
\* the dto asks for, or trial or active by the plan version's trial days.
Issue(q, l, v, status, startsAt) ==
  LET row == [status |-> status, startsAt |-> startsAt,
              endsAt |-> FirstEnd(v, status, startsAt), planVersion |-> v]
  IN  /\ phase[q] = "idle"
      /\ license[l] = Absent
      /\ license' = [license EXCEPT ![l] = row]
      /\ events' = [events EXCEPT ![l] = <<[from |-> "none", to |-> status]>>]
      /\ phase' = [phase EXCEPT ![q] = "written"]
      /\ task' = [task EXCEPT ![q] =
           [action |-> "issue", id |-> l, read |-> row, planVersion |-> v,
            endsAt |-> row.endsAt]]
      /\ UNCHANGED <<now, audited>>

\* findOrThrow and assertLicenseTransition. A renewal may name another plan
\* version; the other actions keep the one they read.
Check(q, action, l, v) ==
  /\ phase[q] = "idle"
  /\ license[l] # Absent
  /\ license[l].status \in AllowedFrom[action]
  /\ action # "renew" => v = license[l].planVersion
  /\ phase' = [phase EXCEPT ![q] = "checked"]
  /\ task' = [task EXCEPT ![q] =
       [action |-> action, id |-> l, read |-> license[l], planVersion |-> v,
        endsAt |-> license[l].endsAt]]
  /\ UNCHANGED <<now, license, events, audited>>

\* renew, between its reads and its write: the new term starts at the end of
\* the term that was read, or now if that has passed.
Price(q) ==
  /\ phase[q] = "checked"
  /\ task[q].action = "renew"
  /\ phase' = [phase EXCEPT ![q] = "priced"]
  /\ task' = [task EXCEPT ![q].endsAt =
       AddBillingPeriod(Later(task[q].read.endsAt, now),
                        task[q].planVersion)]
  /\ UNCHANGED <<now, license, events, audited>>

\* renew writes the term and the plan version, the other actions do not.
Changed(row, t) ==
  IF t.action = "renew"
    THEN [row EXCEPT !.status = TargetStatus[t.action],
                     !.planVersion = t.planVersion, !.endsAt = t.endsAt]
    ELSE [row EXCEPT !.status = TargetStatus[t.action]]

\* Mutants of EventOf: fromStatus read again after the write, and the two
\* statuses swapped.
EventOfCurrent(t) ==
  [from |-> license[t.id].status, to |-> TargetStatus[t.action]]
EventSwapped(t) == [from |-> TargetStatus[t.action], to |-> t.read.status]

EventOf(t) == [from |-> t.read.status, to |-> TargetStatus[t.action]]

ReadyToWrite(q) ==
  \/ phase[q] = "priced"
  \/ phase[q] = "checked" /\ task[q].action # "renew"

\* Mutant of Write: the event is not in the transaction, and gets lost.
WriteRowOnly(q) ==
  /\ ReadyToWrite(q)
  /\ license' = [license EXCEPT ![task[q].id] = Changed(@, task[q])]
  /\ phase' = [phase EXCEPT ![q] = "written"]
  /\ UNCHANGED <<now, events, task, audited>>

\* The transaction: license.update where {id}, and licenseEvent.create.
Write(q) ==
  LET l == task[q].id
  IN  /\ ReadyToWrite(q)
      /\ Len(events[l]) < MaxEvents
      /\ license' = [license EXCEPT ![l] = Changed(@, task[q])]
      /\ events' = [events EXCEPT ![l] = Append(@, EventOf(task[q]))]
      /\ phase' = [phase EXCEPT ![q] = "written"]
      /\ UNCHANGED <<now, task, audited>>

Finish(q) ==
  /\ phase' = [phase EXCEPT ![q] = "idle"]
  /\ task' = [task EXCEPT ![q] = NoTask]
  /\ UNCHANGED <<now, license, events>>

\* audit.record, then the final findOrThrow that answers the request.
Audit(q) ==
  /\ phase[q] = "written"
  /\ audited' = [audited EXCEPT ![task[q].id] = @ + 1]
  /\ Finish(q)

\* The request ends on an error: a failed statement, a failed audit.record
\* after the write, or the death of the API process.
Fail(q) ==
  /\ phase[q] # "idle"
  /\ Finish(q)
  /\ UNCHANGED audited

Next ==
  \/ Tick
  \/ \E q \in Requests, l \in Licenses, v \in PlanVersions :
       \/ \E status \in StartStatuses, startsAt \in 0..MaxTime :
            Issue(q, l, v, status, startsAt)
       \/ \E action \in Actions : Check(q, action, l, v)
  \/ \E q \in Requests : Price(q) \/ Write(q) \/ Audit(q) \/ Fail(q)

Spec == Init /\ [][Next]_vars
-----------------------------------------------------------------------------
TypeOK ==
  /\ now \in Nat
  /\ license \in [Licenses -> Row \cup {Absent}]
  /\ events \in [Licenses -> Seq(Event)]
  /\ phase \in [Requests -> Phases]
  /\ task \in [Requests -> Task \cup {NoTask}]
  /\ \A q \in Requests : phase[q] # "idle" => task[q] \in Task
  /\ audited \in [Licenses -> Nat]

\* The last event of a license says the status the license has: the history of
\* transitions never falls behind nor runs ahead of the row it describes,
\* whatever requests overlap or fail, since both are written in one
\* transaction.
StatusIsLastEvent ==
  \A l \in Licenses :
    license[l] # Absent =>
      /\ events[l] # << >>
      /\ license[l].status = events[l][Len(events[l])].to

Legal(e) ==
  \/ e.from = "none" /\ e.to \in StartStatuses
  \/ \E action \in Actions :
       e.from \in AllowedFrom[action] /\ e.to = TargetStatus[action]

\* Each event taken by itself is a transition ALLOWED_FROM permits, because
\* fromStatus is the status that was checked and not the one overwritten.
EventsAreLegal ==
  \A l \in Licenses : \A i \in DOMAIN events[l] : Legal(events[l][i])

\* "revocar ... (terminal) y ya no se puede volver a tocar"
\* (plans-and-licenses.e2e-spec.ts:269): no request changes a revoked license.
RevokedIsTerminal ==
  [][\A l \in Licenses :
       license[l] # Absent /\ license[l].status = "revoked"
         => license'[l] = license[l]]_vars

\* The history reads as one path: each event starts where the one before it
\* ended ("historial de transiciones", schema.prisma:273-275).
HistoryIsContiguous ==
  \A l \in Licenses : \A i \in 2..Len(events[l]) :
    events[l][i].from = events[l][i - 1].to

\* A term once granted is never cut short: every write keeps or extends the
\* end of the license.
TermOnlyExtends ==
  [][\A l \in Licenses :
       license[l] # Absent => license'[l].endsAt >= license[l].endsAt]_vars
=============================================================================
