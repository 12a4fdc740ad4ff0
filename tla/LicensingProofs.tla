--------------------------- MODULE LicensingProofs ---------------------------
(***************************************************************************)
(* Proofs about Licensing: the catalog of plan versions, the licenses, and *)
(* the two together.                                                       *)
(*                                                                         *)
(* Of the catalog, for any plans, version ids and requests in flight, the  *)
(* numbering of versions. What makes it inductive is what a request knows: *)
(* a plan it read exists and, once active, stays so; and the number it is  *)
(* about to use is 1 or follows one that is in the table, where versions   *)
(* only ever come. That nobody else has used it by then is left to the     *)
(* index.                                                                  *)
(*                                                                         *)
(* Of licenses, with any number of requests at once, the row and its       *)
(* history agree and every event is a permitted transition. With one       *)
(* request at a time the row a handler writes is the row it read, and then *)
(* a revoked license stays as it is, the history is one path and the term  *)
(* only grows.                                                             *)
(*                                                                         *)
(* Interleaved, they keep each what they have alone, since neither writes  *)
(* the other's tables.                                                     *)
(***************************************************************************)
EXTENDS Licensing, TLAPS

-----------------------------------------------------------------------------
(* The catalog *)

Distinct == \A v, w \in Inserted : version[v] = version[w] => v = w

Contiguous ==
  \A v \in Inserted :
    version[v].number > 1
      => \E w \in Inserted : /\ version[w].plan = version[v].plan
                             /\ version[w].number + 1 = version[v].number

ActiveOnceVersioned == \A p \in Plans : plan[p] = "active" <=> Numbers(p) # {}

\* What a request has read of its plan.
KnowsPlan(q) ==
  adding[q] # Waiting =>
    /\ plan[adding[q].plan] # "none"
    /\ adding[q].status = "active" => plan[adding[q].plan] = "active"

\* The number a request is about to use.
KnowsNumber(q) ==
  adding[q].at = "numbered" =>
    \/ adding[q].number = 1
    \/ \E w \in Inserted : /\ version[w].plan = adding[q].plan
                           /\ version[w].number + 1 = adding[q].number

CatalogIInv ==
  /\ CatalogTypeOK
  /\ Distinct /\ Contiguous /\ ActiveOnceVersioned
  /\ \A q \in Editors : KnowsPlan(q) /\ KnowsNumber(q)

LEMMA AddingTypes ==
  ASSUME CatalogTypeOK, NEW q \in Editors
  PROVE  /\ adding[q] = Waiting <=> adding[q].at = "idle"
         /\ adding[q].at \in {"idle", "read", "numbered"}
         /\ adding[q].at = "read" =>
              /\ adding[q] \in [at : {"read"}, plan : Plans,
                                status : {"draft", "active"}]
         /\ adding[q].at = "numbered" =>
              /\ adding[q] \in [at : {"numbered"}, plan : Plans,
                                status : {"draft", "active"}, number : Nat \ {0}]
BY DEF CatalogTypeOK, Adding, Waiting

LEMMA InitCatalogIInv == CatalogInit => CatalogIInv
<1> SUFFICES ASSUME CatalogInit PROVE CatalogIInv
  OBVIOUS
<1>1. Inserted = {}
  BY DEF CatalogInit, Inserted
<1>2. \A p \in Plans : Numbers(p) = {}
  BY <1>1 DEF Numbers
<1> QED
  BY <1>1, <1>2 DEF CatalogInit, CatalogIInv, CatalogTypeOK, Distinct, Contiguous,
     ActiveOnceVersioned, KnowsPlan, KnowsNumber, Adding, Waiting

\* A step that leaves the table and the plans alone keeps what they satisfy.
LEMMA SameCatalog ==
  ASSUME CatalogIInv, UNCHANGED <<plan, version>>
  PROVE  Distinct' /\ Contiguous' /\ ActiveOnceVersioned'
         /\ Inserted' = Inserted /\ \A p : Numbers(p)' = Numbers(p)
BY DEF CatalogIInv, Distinct, Contiguous, ActiveOnceVersioned, Inserted, Numbers

LEMMA CreateKeepsIt ==
  ASSUME CatalogIInv, NEW p \in Plans, Create(p)
  PROVE  CatalogIInv'
<1>1. Inserted' = Inserted /\ \A r : Numbers(r)' = Numbers(r)
  BY DEF Create, Inserted, Numbers
<1>2. CatalogTypeOK'
  BY DEF Create, CatalogIInv, CatalogTypeOK
<1>3. Distinct' /\ Contiguous'
  BY <1>1 DEF Create, CatalogIInv, Distinct, Contiguous
<1>4. ActiveOnceVersioned'
  BY <1>1 DEF Create, CatalogIInv, ActiveOnceVersioned, CatalogTypeOK
<1>5. \A q \in Editors : KnowsPlan(q)' /\ KnowsNumber(q)'
  <2> SUFFICES ASSUME NEW q \in Editors PROVE KnowsPlan(q)' /\ KnowsNumber(q)'
    OBVIOUS
  <2>1. KnowsPlan(q) /\ KnowsNumber(q)
    BY DEF CatalogIInv
  <2>2. adding[q] # Waiting => adding[q].plan \in Plans
    BY AddingTypes DEF CatalogIInv
  <2>3. KnowsPlan(q)'
    BY <2>1, <2>2 DEF Create, KnowsPlan, CatalogIInv, CatalogTypeOK
  <2>4. KnowsNumber(q)'
    BY <1>1, <2>1 DEF Create, KnowsNumber
  <2> QED
    BY <2>3, <2>4
<1> QED
  BY <1>2, <1>3, <1>4, <1>5 DEF CatalogIInv

LEMMA ReadPlanKeepsIt ==
  ASSUME CatalogIInv, NEW q \in Editors, NEW p \in Plans, ReadPlan(q, p)
  PROVE  CatalogIInv'
<1>1. Distinct' /\ Contiguous' /\ ActiveOnceVersioned' /\ Inserted' = Inserted
  BY SameCatalog DEF ReadPlan
<1>2. plan[p] \in {"draft", "active"}
  BY DEF ReadPlan, CatalogIInv, CatalogTypeOK
<1>3. [at |-> "read", plan |-> p, status |-> plan[p]] \in Adding
  BY <1>2 DEF Adding
<1>4. CatalogTypeOK'
  BY <1>3 DEF ReadPlan, CatalogIInv, CatalogTypeOK
<1>5. \A r \in Editors : KnowsPlan(r)' /\ KnowsNumber(r)'
  BY <1>1, <1>2 DEF ReadPlan, KnowsPlan, KnowsNumber, CatalogIInv, CatalogTypeOK
<1> QED
  BY <1>1, <1>4, <1>5 DEF CatalogIInv

LEMMA ReadLastKeepsIt ==
  ASSUME CatalogIInv, NEW q \in Editors, ReadLast(q)
  PROVE  CatalogIInv'
<1>1. Distinct' /\ Contiguous' /\ ActiveOnceVersioned' /\ Inserted' = Inserted
  BY SameCatalog DEF ReadLast
<1>2. adding[q] \in [at : {"read"}, plan : Plans, status : {"draft", "active"}]
  BY AddingTypes DEF ReadLast, CatalogIInv
<1>3. PICK n \in Numbers(adding[q].plan) \cup {0} :
        /\ IsLast(adding[q].plan, n)
        /\ adding' = [adding EXCEPT ![q] =
             [at |-> "numbered", plan |-> adding[q].plan,
              status |-> adding[q].status, number |-> n + 1]]
  BY DEF ReadLast
<1> DEFINE next == [at |-> "numbered", plan |-> adding[q].plan,
                    status |-> adding[q].status, number |-> n + 1]
<1>4. n \in Nat
  BY DEF Numbers, Inserted, CatalogIInv, CatalogTypeOK, VersionRow
<1>5. next \in Adding
  BY <1>2, <1>4 DEF Adding
<1>6. CatalogTypeOK'
  BY <1>3, <1>5 DEF ReadLast, CatalogIInv, CatalogTypeOK
<1>7. n = 0 \/ \E w \in Inserted : /\ version[w].plan = adding[q].plan
                                   /\ version[w].number = n
  BY DEF Numbers
<1>8. \A r \in Editors : KnowsPlan(r)' /\ KnowsNumber(r)'
  <2> SUFFICES ASSUME NEW r \in Editors PROVE KnowsPlan(r)' /\ KnowsNumber(r)'
    OBVIOUS
  <2>1. CASE r # q
    BY <1>1, <1>3, <2>1 DEF ReadLast, KnowsPlan, KnowsNumber, CatalogIInv, CatalogTypeOK
  <2>2. CASE r = q
    <3>1. adding'[q] = next
      BY <1>3 DEF CatalogIInv, CatalogTypeOK
    <3>2. adding[q] # Waiting
      BY <1>2 DEF Waiting
    <3>3. KnowsPlan(q)'
      BY <3>1, <3>2 DEF KnowsPlan, CatalogIInv, ReadLast
    <3>4. KnowsNumber(q)'
      BY <1>1, <1>4, <1>7, <3>1 DEF KnowsNumber, ReadLast
    <3> QED
      BY <2>2, <3>3, <3>4
  <2> QED
    BY <2>1, <2>2
<1> QED
  BY <1>1, <1>6, <1>8 DEF CatalogIInv

LEMMA InsertKeepsIt ==
  ASSUME CatalogIInv, NEW q \in Editors, NEW v \in Versions, Insert(q, v)
  PROVE  CatalogIInv'
<1> DEFINE p == adding[q].plan
           n == adding[q].number
           row == [plan |-> p, number |-> n]
<1>1. adding[q] \in [at : {"numbered"}, plan : Plans,
                     status : {"draft", "active"}, number : Nat \ {0}]
  BY AddingTypes DEF Insert, CatalogIInv
<1>2. row \in VersionRow /\ p \in Plans /\ n \in Nat \ {0}
  BY <1>1 DEF VersionRow
<1>3. Inserted' = Inserted \cup {v} /\ v \notin Inserted
  BY <1>2, CatalogAssumption DEF Insert, Inserted, CatalogIInv, CatalogTypeOK
<1>4. version'[v] = row /\ \A w \in Inserted : version'[w] = version[w]
  BY <1>3 DEF Insert, CatalogIInv, CatalogTypeOK, Inserted
<1>5. CatalogTypeOK'
  BY <1>1, <1>2 DEF Insert, CatalogIInv, CatalogTypeOK, Adding, Waiting
<1>6. \A w \in Inserted : version[w] # row
  BY <1>2 DEF Insert, Taken, Numbers
<1>7. Distinct'
  BY <1>3, <1>4, <1>6 DEF Distinct, CatalogIInv
<1>8. KnowsPlan(q) /\ KnowsNumber(q) /\ adding[q] # Waiting
  BY <1>1 DEF CatalogIInv, Waiting
<1>9. Contiguous'
  BY <1>1, <1>2, <1>3, <1>4, <1>8 DEF Contiguous, CatalogIInv, KnowsNumber
<1>10. \A r \in Plans : Numbers(r)' # {} <=> (Numbers(r) # {} \/ r = p)
  <2> SUFFICES ASSUME NEW r \in Plans
               PROVE  Numbers(r)' # {} <=> (Numbers(r) # {} \/ r = p)
    OBVIOUS
  <2>1. Numbers(r) # {} <=> \E w \in Inserted : version[w].plan = r
    BY DEF Numbers
  <2>2. Numbers(r)' # {} <=> \E w \in Inserted' : version'[w].plan = r
    BY DEF Numbers
  <2>3. version'[v].plan = p
    BY <1>4
  <2>4. \A w \in Inserted : version'[w].plan = version[w].plan
    BY <1>4
  <2> HIDE DEF p
  <2> QED
    BY <1>3, <2>1, <2>2, <2>3, <2>4
<1>11. /\ plan'[p] = "active"
       /\ \A r \in Plans : r # p => plan'[r] = plan[r]
  BY <1>1, <1>2, <1>8 DEF Insert, CatalogIInv, CatalogTypeOK, KnowsPlan
<1>12. ActiveOnceVersioned'
  BY <1>2, <1>10, <1>11 DEF ActiveOnceVersioned, CatalogIInv
<1>13. \A r \in Editors : KnowsPlan(r)' /\ KnowsNumber(r)'
  <2> SUFFICES ASSUME NEW r \in Editors PROVE KnowsPlan(r)' /\ KnowsNumber(r)'
    OBVIOUS
  <2>1. CASE r = q
    BY <2>1 DEF Insert, KnowsPlan, KnowsNumber, Waiting, CatalogIInv, CatalogTypeOK
  <2>2. CASE r # q
    <3>1. adding'[r] = adding[r] /\ KnowsPlan(r) /\ KnowsNumber(r)
      BY <2>2 DEF Insert, CatalogIInv, CatalogTypeOK
    <3>2. adding[r] # Waiting => adding[r].plan \in Plans
      BY AddingTypes DEF CatalogIInv
    <3>3. KnowsPlan(r)'
      BY <1>11, <3>1, <3>2 DEF KnowsPlan
    <3>4. KnowsNumber(r)'
      BY <1>3, <1>4, <3>1 DEF KnowsNumber
    <3> QED
      BY <3>3, <3>4
  <2> QED
    BY <2>1, <2>2
<1> QED
  BY <1>5, <1>7, <1>9, <1>12, <1>13 DEF CatalogIInv

LEMMA FailKeepsIt ==
  ASSUME CatalogIInv, NEW q \in Editors, FailToAdd(q)
  PROVE  CatalogIInv'
<1>1. Distinct' /\ Contiguous' /\ ActiveOnceVersioned' /\ Inserted' = Inserted
  BY SameCatalog DEF FailToAdd
<1>2. CatalogTypeOK'
  BY DEF FailToAdd, CatalogIInv, CatalogTypeOK, Adding
<1>3. \A r \in Editors : KnowsPlan(r)' /\ KnowsNumber(r)'
  BY <1>1 DEF FailToAdd, KnowsPlan, KnowsNumber, Waiting, CatalogIInv, CatalogTypeOK
<1> QED
  BY <1>1, <1>2, <1>3 DEF CatalogIInv

LEMMA NextCatalogIInv == CatalogIInv /\ [CatalogNext]_catalogVars => CatalogIInv'
<1> SUFFICES ASSUME CatalogIInv, [CatalogNext]_catalogVars PROVE CatalogIInv'
  OBVIOUS
<1>1. CASE UNCHANGED catalogVars
  <2>1. Distinct' /\ Contiguous' /\ ActiveOnceVersioned' /\ Inserted' = Inserted
    BY <1>1, SameCatalog DEF catalogVars
  <2> QED
    BY <1>1, <2>1 DEF catalogVars, CatalogIInv, CatalogTypeOK, KnowsPlan, KnowsNumber
<1>2. CASE \E p \in Plans : Create(p)
  BY <1>2, CreateKeepsIt
<1>3. CASE \E q \in Editors, p \in Plans : ReadPlan(q, p)
  BY <1>3, ReadPlanKeepsIt
<1>4. CASE \E q \in Editors : ReadLast(q)
  BY <1>4, ReadLastKeepsIt
<1>5. CASE \E q \in Editors, v \in Versions : Insert(q, v)
  BY <1>5, InsertKeepsIt
<1>6. CASE \E q \in Editors : FailToAdd(q)
  BY <1>6, FailKeepsIt
<1> QED
  BY <1>1, <1>2, <1>3, <1>4, <1>5, <1>6 DEF CatalogNext

LEMMA CatalogInductive == CatalogSpec => []CatalogIInv
BY InitCatalogIInv, NextCatalogIInv, PTL DEF CatalogSpec

\* Plans, versions and requests keep their types.
THEOREM CatalogTypeCorrect == CatalogSpec => []CatalogTypeOK
<1>1. CatalogIInv => CatalogTypeOK
  BY DEF CatalogIInv
<1> QED
  BY <1>1, CatalogInductive, PTL

\* However many addVersion requests overlap, the versions of a plan are
\* numbered from 1 without gap or repetition, and a plan is a draft exactly as
\* long as it has none.
THEOREM Numbered == CatalogSpec => []VersionsAreNumbered
<1>1. CatalogIInv => VersionsAreNumbered
  BY DEF CatalogIInv, VersionsAreNumbered, Distinct, Contiguous, ActiveOnceVersioned
<1> QED
  BY <1>1, CatalogInductive, PTL

-----------------------------------------------------------------------------
(* Licenses *)


Deciding == {"checked", "priced"}

\* A handler about to write has checked the status it read.
TaskInv ==
  \A q \in Requests : phase[q] \in Deciding =>
    /\ license[task[q].id] # Absent
    /\ task[q].action \in Actions
    /\ task[q].read.status \in AllowedFrom[task[q].action]
    /\ phase[q] = "priced" => task[q].action = "renew"

IInv == TypeOK /\ TaskInv /\ StatusIsLastEvent /\ EventsAreLegal

USE LicensesAssumption, AbsentAssumption DEF Phases, Dates, Deciding

LEMMA Tables ==
  ASSUME NEW action \in Actions
  PROVE  /\ AllowedFrom[action] \subseteq Statuses \ {"revoked"}
         /\ TargetStatus[action] \in Statuses
BY DEF Actions, AllowedFrom, TargetStatus, Statuses

LEMMA TermIsDate ==
  ASSUME NEW v \in PlanVersions, NEW d \in Nat
  PROVE  /\ AddBillingPeriod(d, v) \in Nat
         /\ AddBillingPeriod(d, v) > d
         /\ \A status : FirstEnd(v, status, d) \in Nat
<1>1. PeriodLength[v] \in Nat \ {0} /\ TrialDays[v] \in Nat
  OBVIOUS
<1>2. AddBillingPeriod(d, v) \in Nat /\ AddBillingPeriod(d, v) > d
  BY <1>1 DEF AddBillingPeriod
<1>3. \A status : FirstEnd(v, status, d) \in Nat
  BY <1>1, <1>2 DEF FirstEnd
<1> QED
  BY <1>2, <1>3

\* What appending an event to a history leaves in it.
LEMMA HistoryGrows ==
  ASSUME NEW h \in Seq(Event), NEW e \in Event
  PROVE  /\ Append(h, e) \in Seq(Event)
         /\ Append(h, e) # << >>
         /\ Len(Append(h, e)) = Len(h) + 1
         /\ Append(h, e)[Len(Append(h, e))] = e
         /\ \A i \in 1..Len(h) : Append(h, e)[i] = h[i]
         /\ DOMAIN Append(h, e) = 1..(Len(h) + 1)
<1>1. /\ Append(h, e) \in Seq(Event)
      /\ Len(Append(h, e)) = Len(h) + 1
      /\ Append(h, e)[Len(h) + 1] = e
      /\ \A i \in 1..Len(h) : Append(h, e)[i] = h[i]
      /\ Len(h) \in Nat
  OBVIOUS
<1>2. Append(h, e) # << >>
  BY <1>1
<1>3. DOMAIN Append(h, e) = 1..(Len(h) + 1)
  BY <1>1
<1> QED
  BY <1>1, <1>2, <1>3

LEMMA InitIInv == Init => IInv
BY DEF Init, IInv, TypeOK, TaskInv, StatusIsLastEvent, EventsAreLegal

\* The two facts about a write that the invariants rest on: the event is legal
\* and names the status the row gets.
LEMMA WriteEffect ==
  ASSUME IInv, NEW q \in Requests, Write(q)
  PROVE  LET l == task[q].id
             e == EventOf(task[q])
             new == Changed(license[l], task[q])
         IN  /\ l \in Licenses /\ task[q] \in Task
             /\ license[l] \in Row
             /\ phase[q] \in Deciding
             /\ task[q].action \in Actions
             /\ task[q].read.status \in AllowedFrom[task[q].action]
             /\ new \in Row
             /\ e \in Event /\ Legal(e) /\ new.status = e.to
<1>1. phase[q] \in Deciding /\ task[q] \in Task
  BY DEF Write, ReadyToWrite, IInv, TypeOK
<1>2. /\ license[task[q].id] # Absent
      /\ task[q].action \in Actions
      /\ task[q].read.status \in AllowedFrom[task[q].action]
  BY <1>1 DEF IInv, TaskInv
<1>3. /\ task[q].id \in Licenses /\ license[task[q].id] \in Row
      /\ task[q].read.status \in Statuses
      /\ task[q].planVersion \in PlanVersions /\ task[q].endsAt \in Nat
  BY <1>1, <1>2, Tables DEF Task, IInv, TypeOK
<1>4. TargetStatus[task[q].action] \in Statuses
  BY <1>2, Tables
<1> DEFINE t == task[q]
           row == license[t.id]
<1>5. /\ Changed(row, t) \in Row
      /\ Changed(row, t).status = TargetStatus[t.action]
  <2> HIDE DEF t, row
  <2>1. row \in Row /\ t.planVersion \in PlanVersions /\ t.endsAt \in Nat
        /\ TargetStatus[t.action] \in Statuses
    BY <1>3, <1>4 DEF t, row
  <2>2. CASE t.action = "renew"
    BY <2>1, <2>2 DEF Changed, Row
  <2>3. CASE t.action # "renew"
    BY <2>1, <2>3 DEF Changed, Row
  <2> QED
    BY <2>2, <2>3
<1>6. EventOf(t) \in Event /\ EventOf(t).to = TargetStatus[t.action]
  BY <1>3, <1>4 DEF EventOf, Event
<1>7. Legal(EventOf(t))
  BY <1>2 DEF Legal, EventOf
<1> QED
  BY <1>1, <1>2, <1>3, <1>5, <1>6, <1>7

\* Steps that leave both tables alone keep the row and its history in step.
LEMMA TablesUntouched ==
  ASSUME IInv, UNCHANGED <<license, events>>
  PROVE  StatusIsLastEvent' /\ EventsAreLegal'
BY DEF IInv, StatusIsLastEvent, EventsAreLegal

\* A license whose row is new and whose history ends in event e.
LEMMA HistoryStep ==
  ASSUME IInv, NEW l \in Licenses, NEW new \in Row, NEW e \in Event,
         Legal(e), new.status = e.to,
         license' = [license EXCEPT ![l] = new],
         events' = [events EXCEPT ![l] = Append(events[l], e)]
  PROVE  /\ license' \in [Licenses -> Row \cup {Absent}]
         /\ events' \in [Licenses -> Seq(Event)]
         /\ StatusIsLastEvent' /\ EventsAreLegal'
<1>1. /\ license' \in [Licenses -> Row \cup {Absent}]
      /\ events[l] \in Seq(Event)
  BY DEF IInv, TypeOK
<1>2. events' \in [Licenses -> Seq(Event)]
  BY <1>1, HistoryGrows DEF IInv, TypeOK
<1>3. ASSUME NEW m \in Licenses, license'[m] # Absent
      PROVE  events'[m] # << >> /\ license'[m].status = events'[m][Len(events'[m])].to
  <2>1. CASE m = l
    BY <1>1, <2>1, HistoryGrows DEF IInv, TypeOK
  <2>2. CASE m # l
    BY <1>3, <2>2 DEF IInv, TypeOK, StatusIsLastEvent
  <2> QED
    BY <2>1, <2>2
<1>4. ASSUME NEW m \in Licenses, NEW i \in DOMAIN events'[m]
      PROVE  Legal(events'[m][i])
  <2>1. CASE m = l
    <3>1. events'[m] = Append(events[l], e)
      BY <2>1 DEF IInv, TypeOK
    <3>2. i \in 1..(Len(events[l]) + 1) /\ Len(events[l]) \in Nat
      BY <1>1, <1>4, <3>1, HistoryGrows
    <3>3. CASE i = Len(events[l]) + 1
      BY <1>1, <3>1, <3>3, HistoryGrows
    <3>4. CASE i \in 1..Len(events[l])
      <4>1. events'[m][i] = events[l][i]
        BY <1>1, <3>1, <3>4, HistoryGrows
      <4>2. i \in DOMAIN events[l]
        BY <1>1, <3>4
      <4> QED
        BY <4>1, <4>2 DEF IInv, EventsAreLegal
    <3> QED
      BY <3>2, <3>3, <3>4
  <2>2. CASE m # l
    BY <1>4, <2>2 DEF IInv, TypeOK, EventsAreLegal
  <2> QED
    BY <2>1, <2>2
<1> QED
  BY <1>1, <1>2, <1>3, <1>4 DEF StatusIsLastEvent, EventsAreLegal

LEMMA NextIInv == IInv /\ [Next]_vars => IInv'
<1> SUFFICES ASSUME IInv, [Next]_vars PROVE IInv'
  OBVIOUS
<1>1. CASE Tick
  <2>1. TypeOK' /\ TaskInv'
    BY <1>1 DEF Tick, IInv, TypeOK, TaskInv
  <2> QED
    BY <1>1, <2>1, TablesUntouched DEF Tick, IInv
<1>2. ASSUME NEW q \in Requests, NEW l \in Licenses, NEW v \in PlanVersions,
             NEW status \in StartStatuses, NEW startsAt \in 0..MaxTime,
             Issue(q, l, v, status, startsAt)
      PROVE  IInv'
  <2> DEFINE row == [status |-> status, startsAt |-> startsAt,
                     endsAt |-> FirstEnd(v, status, startsAt),
                     planVersion |-> v]
             e == [from |-> "none", to |-> status]
             t == [action |-> "issue", id |-> l, read |-> row,
                   planVersion |-> v, endsAt |-> row.endsAt]
  <2>1. status \in Statuses /\ startsAt \in Nat
        /\ FirstEnd(v, status, startsAt) \in Nat
    <3>1. status \in Statuses /\ startsAt \in Nat
      BY DEF StartStatuses, Statuses
    <3> QED
      BY <3>1, TermIsDate
  <2>2. row \in Row /\ e \in Event /\ Legal(e) /\ t \in Task
    BY <2>1 DEF Row, Event, Legal, Task
  <2>3. /\ phase[q] = "idle" /\ license[l] = Absent
        /\ license' = [license EXCEPT ![l] = row]
        /\ events' = [events EXCEPT ![l] = <<e>>]
        /\ phase' = [phase EXCEPT ![q] = "written"]
        /\ task' = [task EXCEPT ![q] = t]
        /\ UNCHANGED <<now, audited>>
    BY <1>2 DEF Issue
  <2>4. TypeOK'
    <3>1. <<e>> \in Seq(Event)
      BY <2>2
    <3> QED
      BY <2>2, <2>3, <3>1 DEF IInv, TypeOK
  <2>5. TaskInv'
    BY <2>3 DEF IInv, TaskInv, TypeOK, Row, Task
  <2>6. StatusIsLastEvent' /\ EventsAreLegal'
    <3>1. ASSUME NEW m \in Licenses
          PROVE  /\ license'[m] # Absent =>
                      /\ events'[m] # << >>
                      /\ license'[m].status = events'[m][Len(events'[m])].to
                 /\ \A i \in DOMAIN events'[m] : Legal(events'[m][i])
      <4>1. CASE m = l
        BY <2>2, <2>3, <4>1 DEF IInv, TypeOK
      <4>2. CASE m # l
        BY <2>3, <4>2 DEF IInv, TypeOK, StatusIsLastEvent, EventsAreLegal
      <4> QED
        BY <4>1, <4>2
    <3> QED
      BY <3>1 DEF StatusIsLastEvent, EventsAreLegal
  <2> QED
    BY <2>4, <2>5, <2>6 DEF IInv
<1>3. ASSUME NEW q \in Requests, NEW l \in Licenses, NEW v \in PlanVersions,
             NEW action \in Actions, Check(q, action, l, v)
      PROVE  IInv'
  <2> DEFINE t == [action |-> action, id |-> l, read |-> license[l],
                   planVersion |-> v, endsAt |-> license[l].endsAt]
  <2>1. /\ license[l] \in Row
        /\ license[l].status \in AllowedFrom[action]
        /\ phase' = [phase EXCEPT ![q] = "checked"]
        /\ task' = [task EXCEPT ![q] = t]
        /\ UNCHANGED <<now, license, events, audited>>
    BY <1>3 DEF Check, IInv, TypeOK
  <2>2. t \in Task
    BY <2>1 DEF Task, Row
  <2>3. TypeOK' /\ TaskInv'
    BY <2>1, <2>2 DEF IInv, TypeOK, TaskInv
  <2> QED
    BY <2>1, <2>3, TablesUntouched DEF IInv
<1>4. ASSUME NEW q \in Requests, Price(q)
      PROVE  IInv'
  <2> DEFINE t == task[q]
             d == AddBillingPeriod(Later(t.read.endsAt, now), t.planVersion)
  <2>1. /\ t \in Task /\ t.action = "renew" /\ phase[q] = "checked"
        /\ phase' = [phase EXCEPT ![q] = "priced"]
        /\ task' = [task EXCEPT ![q] = [t EXCEPT !.endsAt = d]]
        /\ UNCHANGED <<now, license, events, audited>>
    BY <1>4 DEF Price, IInv, TypeOK
  <2>2. Later(t.read.endsAt, now) \in Nat /\ t.planVersion \in PlanVersions
    BY <2>1 DEF Later, Task, Row, IInv, TypeOK
  <2>3. d \in Nat
    BY <2>2, TermIsDate
  <2>4. [t EXCEPT !.endsAt = d] \in Task
    <3> HIDE DEF t, d
    <3> QED
      BY <2>1, <2>3 DEF Task
  <2>5. TypeOK'
    BY <2>1, <2>4 DEF IInv, TypeOK
  <2>6. TaskInv'
    BY <2>1 DEF IInv, TypeOK, TaskInv, Task
  <2> QED
    BY <2>1, <2>5, <2>6, TablesUntouched DEF IInv
<1>5. ASSUME NEW q \in Requests, Write(q)
      PROVE  IInv'
  <2> DEFINE l == task[q].id
             e == EventOf(task[q])
             new == Changed(license[l], task[q])
  <2>1. /\ l \in Licenses /\ new \in Row /\ e \in Event /\ Legal(e)
        /\ new.status = e.to /\ task[q] \in Task
    BY <1>5, WriteEffect
  <2>2. /\ license' = [license EXCEPT ![l] = new]
        /\ events' = [events EXCEPT ![l] = Append(events[l], e)]
        /\ phase' = [phase EXCEPT ![q] = "written"]
        /\ UNCHANGED <<now, task, audited>>
    BY <1>5 DEF Write
  <2> HIDE DEF l, e, new
  <2>3. /\ license' \in [Licenses -> Row \cup {Absent}]
        /\ events' \in [Licenses -> Seq(Event)]
        /\ StatusIsLastEvent' /\ EventsAreLegal'
    BY <2>1, <2>2, HistoryStep
  <2>4. TypeOK'
    BY <2>1, <2>2, <2>3 DEF IInv, TypeOK
  <2>5. TaskInv'
    BY <2>1, <2>2 DEF IInv, TypeOK, TaskInv
  <2> QED
    BY <2>3, <2>4, <2>5 DEF IInv
<1>6. ASSUME NEW q \in Requests, Audit(q) \/ Fail(q)
      PROVE  IInv'
  <2>1. /\ phase' = [phase EXCEPT ![q] = "idle"]
        /\ task' = [task EXCEPT ![q] = NoTask]
        /\ UNCHANGED <<now, license, events>>
    BY <1>6 DEF Audit, Fail, Finish
  <2>2. audited' \in [Licenses -> Nat]
    <3>1. audited \in [Licenses -> Nat]
      BY DEF IInv, TypeOK
    <3>2. CASE Audit(q)
      <4>1. audited' = [audited EXCEPT ![task[q].id] = audited[task[q].id] + 1]
        BY <3>2 DEF Audit
      <4>2. task[q].id \in Licenses
        BY <3>2 DEF Audit, IInv, TypeOK, Task
      <4> QED
        BY <3>1, <4>1, <4>2
    <3>3. CASE Fail(q)
      BY <3>1, <3>3 DEF Fail
    <3> QED
      BY <1>6, <3>2, <3>3
  <2>3. TypeOK' /\ TaskInv'
    BY <2>1, <2>2 DEF IInv, TypeOK, TaskInv
  <2> QED
    BY <2>1, <2>3, TablesUntouched DEF IInv
<1>7. CASE UNCHANGED vars
  <2>1. TypeOK' /\ TaskInv'
    BY <1>7 DEF vars, IInv, TypeOK, TaskInv
  <2> QED
    BY <1>7, <2>1, TablesUntouched DEF vars, IInv
<1> QED
  BY <1>1, <1>2, <1>3, <1>4, <1>5, <1>6, <1>7 DEF Next

\* The strengthened invariant, under any interleaving of the requests.
THEOREM Inductive == Spec => []IInv
BY InitIInv, NextIInv, PTL DEF Spec

\* The tables and the handlers' local state keep their types.
THEOREM TypeCorrect == Spec => []TypeOK
<1>1. IInv => TypeOK
  BY DEF IInv
<1> QED
  BY <1>1, Inductive, PTL

\* However many requests overlap, a license has the status of its last event.
THEOREM HistoryDescribesRow == Spec => []StatusIsLastEvent
<1>1. IInv => StatusIsLastEvent
  BY DEF IInv
<1> QED
  BY <1>1, Inductive, PTL

\* However many requests overlap, every event is a transition ALLOWED_FROM
\* permits.
THEOREM HistoryIsLegal == Spec => []EventsAreLegal
<1>1. IInv => EventsAreLegal
  BY DEF IInv
<1> QED
  BY <1>1, Inductive, PTL

-----------------------------------------------------------------------------
\* One request at a time: what the API needs and does not arrange.
OneRequest == \A p, q \in Requests : p = q

\* Then the row a handler read is still the row of the table when it writes,
\* and the term it computed is no shorter.
ReadIsCurrent ==
  \A q \in Requests : phase[q] \in Deciding =>
    /\ license[task[q].id] = task[q].read
    /\ task[q].endsAt >= task[q].read.endsAt

SerialInv == IInv /\ ReadIsCurrent /\ HistoryIsContiguous

\* Only issue and a write touch the tables.
LEMMA OnlyTwoWriters ==
  ASSUME [Next]_vars, ~ UNCHANGED <<license, events>>
  PROVE  \/ \E q \in Requests : Write(q)
         \/ \E q \in Requests, l \in Licenses, v \in PlanVersions,
               status \in StartStatuses, startsAt \in 0..MaxTime :
              Issue(q, l, v, status, startsAt)
BY DEF Next, vars, Tick, Check, Price, Audit, Fail, Finish

LEMMA CurrentStep ==
  ASSUME OneRequest, IInv, ReadIsCurrent, [Next]_vars
  PROVE  ReadIsCurrent'
<1>1. ASSUME NEW q \in Requests, NEW l \in Licenses, NEW v \in PlanVersions,
             NEW action \in Actions, Check(q, action, l, v)
      PROVE  ReadIsCurrent'
  <2>1. /\ license[l] \in Row /\ license[l].endsAt >= license[l].endsAt
        /\ task' = [task EXCEPT ![q] =
             [action |-> action, id |-> l, read |-> license[l],
              planVersion |-> v, endsAt |-> license[l].endsAt]]
        /\ UNCHANGED license
    BY <1>1 DEF Check, IInv, TypeOK, Row
  <2>2. \A p \in Requests : task'[p].id = l /\ task'[p].read = license[l]
                            /\ task'[p].endsAt = license[l].endsAt
    BY <2>1 DEF OneRequest, IInv, TypeOK
  <2> QED
    BY <2>1, <2>2 DEF ReadIsCurrent
<1>2. ASSUME NEW q \in Requests, Price(q)
      PROVE  ReadIsCurrent'
  <2> DEFINE t == task[q]
             d == AddBillingPeriod(Later(t.read.endsAt, now), t.planVersion)
  <2>1. /\ t \in Task /\ phase[q] = "checked"
        /\ task' = [task EXCEPT ![q] = [t EXCEPT !.endsAt = d]]
        /\ UNCHANGED license
    BY <1>2 DEF Price, IInv, TypeOK
  <2>2. /\ t.read.endsAt \in Nat
        /\ Later(t.read.endsAt, now) \in Nat
        /\ Later(t.read.endsAt, now) >= t.read.endsAt
        /\ t.planVersion \in PlanVersions
    BY <2>1 DEF Later, Task, Row, IInv, TypeOK
  <2>3. d \in Nat /\ d >= t.read.endsAt
    BY <2>2, TermIsDate
  <2>4. license[t.id] = t.read
    BY <2>1 DEF ReadIsCurrent
  <2>5. LET u == [t EXCEPT !.endsAt = d]
        IN  u.id = t.id /\ u.read = t.read /\ u.endsAt = d
    <3> HIDE DEF t, d
    <3> QED
      BY <2>1 DEF Task
  <2>6. \A p \in Requests : task'[p] = [t EXCEPT !.endsAt = d]
    BY <2>1 DEF OneRequest, IInv, TypeOK
  <2> QED
    BY <2>1, <2>3, <2>4, <2>5, <2>6 DEF ReadIsCurrent
<1>3. CASE \A q \in Requests : phase'[q] \notin Deciding
  BY <1>3 DEF ReadIsCurrent
<1>4. ASSUME NEW q \in Requests, Write(q) \/ Audit(q) \/ Fail(q)
      PROVE  \A p \in Requests : phase'[p] \notin Deciding
  BY <1>4 DEF Write, Audit, Fail, Finish, OneRequest, IInv, TypeOK
<1>5. ASSUME NEW q \in Requests, NEW l \in Licenses, NEW v \in PlanVersions,
             NEW status \in StartStatuses, NEW startsAt \in 0..MaxTime,
             Issue(q, l, v, status, startsAt)
      PROVE  \A p \in Requests : phase'[p] \notin Deciding
  BY <1>5 DEF Issue, OneRequest, IInv, TypeOK
<1>6. CASE Tick \/ UNCHANGED vars
  BY <1>6 DEF Tick, vars, ReadIsCurrent
<1> QED
  BY <1>1, <1>2, <1>3, <1>4, <1>5, <1>6 DEF Next

LEMMA ContiguousStep ==
  ASSUME IInv, ReadIsCurrent, HistoryIsContiguous, [Next]_vars
  PROVE  HistoryIsContiguous'
<1>1. ASSUME NEW q \in Requests, Write(q)
      PROVE  HistoryIsContiguous'
  <2> DEFINE l == task[q].id
             e == EventOf(task[q])
             h == events[l]
  <2>1. /\ l \in Licenses /\ license[l] # Absent /\ phase[q] \in Deciding
        /\ e \in Event /\ e.from = license[l].status
    BY <1>1, WriteEffect DEF ReadIsCurrent, EventOf
  <2>2. /\ h \in Seq(Event) /\ h # << >> /\ e.from = h[Len(h)].to
    BY <2>1 DEF IInv, TypeOK, StatusIsLastEvent
  <2>3. events' = [events EXCEPT ![l] = Append(h, e)]
    BY <1>1 DEF Write
  <2>4. ASSUME NEW m \in Licenses, NEW i \in 2..Len(events'[m])
        PROVE  events'[m][i].from = events'[m][i - 1].to
    <3>1. CASE m # l
      BY <2>3, <2>4, <3>1 DEF IInv, TypeOK, HistoryIsContiguous
    <3>2. CASE m = l
      <4>1. events'[m] = Append(h, e)
        BY <2>1, <2>3, <3>2 DEF IInv, TypeOK
      <4> HIDE DEF h, e, l
      <4>2. Len(h) \in Nat /\ Len(Append(h, e)) = Len(h) + 1
        BY <2>1, <2>2, HistoryGrows
      <4>3. i \in 2..(Len(h) + 1)
        BY <2>4, <4>1, <4>2
      <4>4. CASE i = Len(h) + 1
        <5>1. Append(h, e)[i] = e /\ i - 1 = Len(h) /\ Len(h) \in 1..Len(h)
          BY <2>1, <2>2, <4>2, <4>3, <4>4, HistoryGrows
        <5>2. Append(h, e)[i - 1] = h[Len(h)]
          BY <2>1, <2>2, <5>1, HistoryGrows
        <5> QED
          BY <2>2, <4>1, <5>1, <5>2
      <4>5. CASE i \in 2..Len(h)
        <5>1. i \in 1..Len(h) /\ i - 1 \in 1..Len(h)
          BY <4>2, <4>5
        <5>2. Append(h, e)[i] = h[i] /\ Append(h, e)[i - 1] = h[i - 1]
          BY <2>1, <2>2, <5>1, HistoryGrows
        <5>3. h[i].from = h[i - 1].to
          BY <2>1, <4>5 DEF HistoryIsContiguous, h
        <5> QED
          BY <4>1, <5>2, <5>3
      <4> QED
        BY <4>2, <4>3, <4>4, <4>5
    <3> QED
      BY <3>1, <3>2
  <2> QED
    BY <2>4 DEF HistoryIsContiguous
<1>2. ASSUME NEW q \in Requests, NEW l \in Licenses, NEW v \in PlanVersions,
             NEW status \in StartStatuses, NEW startsAt \in 0..MaxTime,
             Issue(q, l, v, status, startsAt)
      PROVE  HistoryIsContiguous'
  <2>1. events' = [events EXCEPT ![l] = <<[from |-> "none", to |-> status]>>]
    BY <1>2 DEF Issue
  <2>2. ASSUME NEW m \in Licenses, NEW i \in 2..Len(events'[m])
        PROVE  events'[m][i].from = events'[m][i - 1].to
    <3>1. CASE m # l
      BY <2>1, <2>2, <3>1 DEF IInv, TypeOK, HistoryIsContiguous
    <3>2. CASE m = l
      <4>1. Len(events'[m]) = 1
        BY <2>1, <3>2 DEF IInv, TypeOK
      <4> QED
        BY <2>2, <4>1
    <3> QED
      BY <3>1, <3>2
  <2> QED
    BY <2>2 DEF HistoryIsContiguous
<1>3. CASE UNCHANGED <<license, events>>
  BY <1>3 DEF HistoryIsContiguous
<1> QED
  BY <1>1, <1>2, <1>3, OnlyTwoWriters

LEMMA SerialInductive ==
  ASSUME OneRequest
  PROVE  Spec => []SerialInv
<1>1. Init => SerialInv
  <2> SUFFICES ASSUME Init PROVE ReadIsCurrent /\ HistoryIsContiguous
    BY InitIInv DEF SerialInv
  <2> QED
    BY DEF Init, ReadIsCurrent, HistoryIsContiguous
<1>2. SerialInv /\ [Next]_vars => SerialInv'
  BY NextIInv, CurrentStep, ContiguousStep DEF SerialInv
<1> QED
  BY <1>1, <1>2, PTL DEF Spec

\* With one request at a time nothing changes a revoked license.
THEOREM SerialRevokedIsTerminal ==
  ASSUME OneRequest
  PROVE  Spec => RevokedIsTerminal
<1>1. SerialInv /\ [Next]_vars =>
        [\A l \in Licenses :
           license[l] # Absent /\ license[l].status = "revoked"
             => license'[l] = license[l]]_vars
  <2> SUFFICES ASSUME SerialInv, [Next]_vars, NEW l \in Licenses,
                      license[l] # Absent, license[l].status = "revoked",
                      ~ UNCHANGED <<license, events>>
               PROVE  license'[l] = license[l]
    OBVIOUS
  <2>1. ASSUME NEW q \in Requests, Write(q)
        PROVE  license'[l] = license[l]
    <3>1. /\ license[task[q].id].status \in AllowedFrom[task[q].action]
          /\ task[q].action \in Actions
      BY <2>1, WriteEffect DEF SerialInv, ReadIsCurrent
    <3>2. task[q].id # l
      BY <3>1, Tables
    <3> QED
      BY <2>1, <3>2 DEF Write, SerialInv, IInv, TypeOK
  <2>2. ASSUME NEW q \in Requests, NEW m \in Licenses, NEW v \in PlanVersions,
               NEW status \in StartStatuses, NEW startsAt \in 0..MaxTime,
               Issue(q, m, v, status, startsAt)
        PROVE  license'[l] = license[l]
    BY <2>2 DEF Issue, SerialInv, IInv, TypeOK
  <2> QED
    BY <2>1, <2>2, OnlyTwoWriters
<1> QED
  BY <1>1, SerialInductive, PTL DEF Spec, RevokedIsTerminal

\* With one request at a time the history of a license is one path.
THEOREM SerialHistoryIsContiguous ==
  ASSUME OneRequest
  PROVE  Spec => []HistoryIsContiguous
<1>1. SerialInv => HistoryIsContiguous
  BY DEF SerialInv
<1> QED
  BY <1>1, SerialInductive, PTL

\* With one request at a time no write shortens a term.
THEOREM SerialTermOnlyExtends ==
  ASSUME OneRequest
  PROVE  Spec => TermOnlyExtends
<1>1. SerialInv /\ [Next]_vars =>
        [\A l \in Licenses :
           license[l] # Absent => license'[l].endsAt >= license[l].endsAt]_vars
  <2> SUFFICES ASSUME SerialInv, [Next]_vars, NEW l \in Licenses,
                      license[l] # Absent
               PROVE  license'[l].endsAt >= license[l].endsAt
    OBVIOUS
  <2>1. license[l] \in Row /\ license[l].endsAt >= license[l].endsAt
    BY DEF SerialInv, IInv, TypeOK, Row
  <2>2. ASSUME NEW q \in Requests, Write(q), task[q].id = l
        PROVE  license'[l].endsAt >= license[l].endsAt
    <3>1. license'[l] = Changed(license[l], task[q])
      BY <2>2 DEF Write, SerialInv, IInv, TypeOK
    <3>2. task[q].endsAt >= license[l].endsAt
      BY <2>2, WriteEffect DEF SerialInv, ReadIsCurrent
    <3>3. Changed(license[l], task[q]).endsAt
            \in {task[q].endsAt, license[l].endsAt}
      BY <2>1 DEF Changed, Row
    <3> QED
      BY <2>1, <3>1, <3>2, <3>3
  <2>3. CASE license'[l] = license[l]
    BY <2>1, <2>3
  <2>4. ASSUME NEW q \in Requests, Write(q), task[q].id # l
        PROVE  license'[l] = license[l]
    BY <2>4 DEF Write, SerialInv, IInv, TypeOK
  <2>5. ASSUME NEW q \in Requests, NEW m \in Licenses, NEW v \in PlanVersions,
               NEW status \in StartStatuses, NEW startsAt \in 0..MaxTime,
               Issue(q, m, v, status, startsAt)
        PROVE  license'[l] = license[l]
    BY <2>5 DEF Issue, SerialInv, IInv, TypeOK
  <2> QED
    BY <2>2, <2>3, <2>4, <2>5, OnlyTwoWriters
<1> QED
  BY <1>1, SerialInductive, PTL DEF Spec, TermOnlyExtends

-----------------------------------------------------------------------------
(* Licenses over a growing catalog *)

\* The handlers of Licensing are those of its parts: composed, they implement
\* both.
THEOREM LicensingImplementsParts == LicensingSpec => Spec /\ CatalogSpec
<1>1. LicensingInit => Init /\ CatalogInit
  BY DEF LicensingInit
<1>2. [LicensingNext]_<<vars, catalogVars>> => [Next]_vars
  BY DEF LicensingNext
<1>3. [LicensingNext]_<<vars, catalogVars>> => [CatalogNext]_catalogVars
  BY DEF LicensingNext
<1> QED
  BY <1>1, <1>2, <1>3, PTL DEF LicensingSpec, Spec, CatalogSpec

\* While licenses are issued and renewed on them, versions stay numbered.
THEOREM LicensingNumbered == LicensingSpec => []VersionsAreNumbered
BY LicensingImplementsParts, Numbered, PTL

\* With one request on the licenses at a time, however many add versions, the
\* history of a license is one path, a revoked license stays as it is and
\* terms only grow.
THEOREM LicensingSerial ==
  ASSUME OneRequest
  PROVE  LicensingSpec => /\ []HistoryIsContiguous /\ RevokedIsTerminal
                          /\ TermOnlyExtends
BY LicensingImplementsParts, SerialHistoryIsContiguous, SerialRevokedIsTerminal,
   SerialTermOnlyExtends, PTL
=============================================================================
