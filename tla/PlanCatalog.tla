---------------------------- MODULE PlanCatalog ----------------------------
(***************************************************************************)
(* Plans and their versions under src/apps/api/src/plans: create and       *)
(* addVersion, as handlers of concurrent requests.                         *)
(*                                                                         *)
(* addVersion reads the plan, reads the last version it has, and inserts   *)
(* the next one; the three are statements of their own, so that what was   *)
(* read may have changed. A version once inserted is never changed nor     *)
(* deleted, and its terms (price, period, trial, limits) come with its id. *)
(* No code archives a plan. The audit event of either operation follows in *)
(* a transaction of its own, which changes nothing here.                   *)
(***************************************************************************)
EXTENDS Naturals

CONSTANTS
  Editors,    \* the addVersion requests in flight
  Plans,      \* plans that can be created, by their code
  Versions,   \* ids of plan_versions rows
  NoVersion   \* the row of an id that was never inserted

VersionRow == [plan : Plans, number : Nat \ {0}]

ASSUME CatalogAssumption == NoVersion \notin VersionRow

VARIABLES
  plan,      \* the status of each plan, "none" until it is created
  version,   \* the plan_versions table
  adding     \* what each addVersion request is doing

catalogVars == <<plan, version, adding>>

Waiting == [at |-> "idle"]
Adding ==
  {Waiting}
  \cup [at : {"read"}, plan : Plans, status : {"draft", "active"}]
  \cup [at : {"numbered"}, plan : Plans, status : {"draft", "active"},
        number : Nat \ {0}]

CatalogInit ==
  /\ plan = [p \in Plans |-> "none"]
  /\ version = [v \in Versions |-> NoVersion]
  /\ adding = [q \in Editors |-> Waiting]

Inserted == {v \in Versions : version[v] # NoVersion}
Numbers(p) == {version[v].number : v \in {w \in Inserted : version[w].plan = p}}

\* A second plan of the same code is refused by the check before the insert,
\* or by the index on code.
Create(p) ==
  /\ plan[p] = "none"
  /\ plan' = [plan EXCEPT ![p] = "draft"]
  /\ UNCHANGED <<version, adding>>

ReadPlan(q, p) ==
  /\ adding[q] = Waiting
  /\ plan[p] # "none"
  /\ adding' = [adding EXCEPT ![q] =
       [at |-> "read", plan |-> p, status |-> plan[p]]]
  /\ UNCHANGED <<plan, version>>

IsLast(p, n) ==
  /\ n \in Numbers(p) \/ (Numbers(p) = {} /\ n = 0)
  /\ \A m \in Numbers(p) : m <= n

\* The number after that of the last version there is.
ReadLast(q) ==
  /\ adding[q].at = "read"
  /\ \E n \in Numbers(adding[q].plan) \cup {0} :
       /\ IsLast(adding[q].plan, n)
       /\ adding' = [adding EXCEPT ![q] =
            [at |-> "numbered", plan |-> adding[q].plan,
             status |-> adding[q].status, number |-> n + 1]]
  /\ UNCHANGED <<plan, version>>

\* Mutant of Taken: the table has no index on the two columns.
NeverTaken(p, n) == FALSE

\* UNIQUE (plan_id, version_number)
Taken(p, n) == n \in Numbers(p)

\* The transaction: the version, and the plan made active if it was read as a
\* draft.
Insert(q, v) ==
  /\ adding[q].at = "numbered"
  /\ version[v] = NoVersion
  /\ ~Taken(adding[q].plan, adding[q].number)
  /\ version' = [version EXCEPT ![v] =
       [plan |-> adding[q].plan, number |-> adding[q].number]]
  /\ plan' = [plan EXCEPT ![adding[q].plan] =
       IF adding[q].status = "draft" THEN "active" ELSE @]
  /\ adding' = [adding EXCEPT ![q] = Waiting]

\* The index refuses the insert, another statement fails, or the API dies.
FailToAdd(q) ==
  /\ adding[q] # Waiting
  /\ adding' = [adding EXCEPT ![q] = Waiting]
  /\ UNCHANGED <<plan, version>>

CatalogNext ==
  \/ \E p \in Plans : Create(p)
  \/ \E q \in Editors :
       \/ \E p \in Plans : ReadPlan(q, p)
       \/ \E v \in Versions : Insert(q, v)
       \/ ReadLast(q) \/ FailToAdd(q)

CatalogSpec == CatalogInit /\ [][CatalogNext]_catalogVars
-----------------------------------------------------------------------------
CatalogTypeOK ==
  /\ plan \in [Plans -> {"none", "draft", "active"}]
  /\ version \in [Versions -> VersionRow \cup {NoVersion}]
  /\ adding \in [Editors -> Adding]

\* However requests overlap or fail, the versions of a plan are numbered 1, 2,
\* 3 without a gap or a repetition, and a plan is a draft as long as it has
\* none (plans.service.ts:79-119).
VersionsAreNumbered ==
  /\ \A v, w \in Inserted : version[v] = version[w] => v = w
  /\ \A v \in Inserted :
       version[v].number > 1
         => \E w \in Inserted : /\ version[w].plan = version[v].plan
                                /\ version[w].number + 1 = version[v].number
  /\ \A p \in Plans : plan[p] = "active" <=> Numbers(p) # {}
=============================================================================
