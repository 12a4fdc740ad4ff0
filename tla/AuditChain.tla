----------------------------- MODULE AuditChain -----------------------------
(***************************************************************************)
(* AuditService.record (src/apps/api/src/audit/audit.service.ts) as the    *)
(* interactive transaction it runs against PostgreSQL at READ COMMITTED:   *)
(* lock the single row of audit_chain_lock, read the tip of the hash       *)
(* chain, insert the audit_logs row, move the tip, commit.                 *)
(*                                                                         *)
(* Any number of calls run at once. A statement can fail or the            *)
(* interactive transaction can exceed Prisma's time limit (Fail), the      *)
(* reply to COMMIT can be lost (LoseReply), and the API process can die    *)
(* with calls in every phase (Crash), after which PostgreSQL rolls back    *)
(* the transactions it left open (RollbackOrphan). audit_logs.seq is drawn *)
(* from a sequence, which a rollback does not give back.                   *)
(*                                                                         *)
(* SHA-256 is taken as collision free: a hash is identified with the list  *)
(* of events it commits to, the seed 'genesis' with the empty list.        *)
(***************************************************************************)
EXTENDS Naturals, Sequences

CONSTANTS
  Calls,        \* the calls of AuditService.record
  Payloads,     \* the events they record, the previousHash left out
  PayloadOf     \* the event each call is asked to record

ASSUME PayloadAssumption == PayloadOf \in [Calls -> Payloads]

VARIABLES
  outcome,      \* what the caller of record() has observed
  phase,        \* how far the transaction of each call has got
  prev,         \* previousHash, read under the lock
  seq,          \* the seq the inserted row drew, not yet committed
  rows,         \* the committed rows of audit_logs
  tipHash,      \* the committed audit_chain_lock.tip_hash
  nextSeq       \* the sequence behind audit_logs.seq

vars == <<outcome, phase, prev, seq, rows, tipHash, nextSeq>>

Outcomes == {"none", "running", "returned", "threw", "crashed"}

\* The phases of a transaction that holds the row lock.
Holding == {"locked", "inserted", "updated"}
Open == {"waiting"} \cup Holding
Phases == {"idle", "committed", "rolledBack"} \cup Open

Hashes == Seq(Payloads)
Genesis == << >>
Sha256(previousHash, payload) == Append(previousHash, payload)

Row == [call : Calls, seq : Nat, previousHash : Hashes, hash : Hashes]

RowOf(c) ==
  [call |-> c, seq |-> seq[c], previousHash |-> prev[c],
   hash |-> Sha256(prev[c], PayloadOf[c])]

\* audit_logs.seq is a SERIAL column.
FirstSeq == 1

Init ==
  /\ outcome = [c \in Calls |-> "none"]
  /\ phase = [c \in Calls |-> "idle"]
  /\ prev = [c \in Calls |-> Genesis]
  /\ seq = [c \in Calls |-> 0]
  /\ rows = {}
  /\ tipHash = Genesis
  /\ nextSeq = FirstSeq

Advance(c, from, to) ==
  /\ outcome[c] = "running"
  /\ phase[c] = from
  /\ phase' = [phase EXCEPT ![c] = to]

\* A service calls record(), and the transaction begins.
Begin(c) ==
  /\ outcome[c] = "none"
  /\ outcome' = [outcome EXCEPT ![c] = "running"]
  /\ phase' = [phase EXCEPT ![c] = "waiting"]
  /\ UNCHANGED <<prev, seq, rows, tipHash, nextSeq>>

\* Mutant of LockFree: a SELECT without FOR UPDATE.
LockNotTaken == TRUE

LockFree == \A d \in Calls : phase[d] \notin Holding

\* SELECT tip_hash ... FOR UPDATE: waits for the row lock, then reads the
\* latest committed tip.
LockTip(c) ==
  /\ LockFree
  /\ Advance(c, "waiting", "locked")
  /\ prev' = [prev EXCEPT ![c] = tipHash]
  /\ UNCHANGED <<outcome, seq, rows, tipHash, nextSeq>>

\* Mutant of InsertRow: written through this.prisma, outside the transaction.
InsertRowOutside(c) ==
  /\ Advance(c, "locked", "inserted")
  /\ \A r \in rows : r.hash # Sha256(prev[c], PayloadOf[c])
  /\ seq' = [seq EXCEPT ![c] = nextSeq]
  /\ nextSeq' = nextSeq + 1
  /\ rows' = rows \cup {[RowOf(c) EXCEPT !.seq = nextSeq]}
  /\ UNCHANGED <<outcome, prev, tipHash>>

\* auditLog.create; the UNIQUE index on hash refuses a hash already stored.
InsertRow(c) ==
  /\ Advance(c, "locked", "inserted")
  /\ \A r \in rows : r.hash # Sha256(prev[c], PayloadOf[c])
  /\ seq' = [seq EXCEPT ![c] = nextSeq]
  /\ nextSeq' = nextSeq + 1
  /\ UNCHANGED <<outcome, prev, rows, tipHash>>

\* UPDATE audit_chain_lock SET tip_hash, visible to others on commit only.
UpdateTip(c) ==
  /\ Advance(c, "inserted", "updated")
  /\ UNCHANGED <<outcome, prev, seq, rows, tipHash, nextSeq>>

\* Mutant of Commit: a transaction that forgot to move the tip.
CommitWithoutTip(c) ==
  /\ Advance(c, "updated", "committed")
  /\ rows' = rows \cup {RowOf(c)}
  /\ UNCHANGED <<outcome, prev, seq, tipHash, nextSeq>>

\* COMMIT publishes the row and the tip and releases the lock.
Commit(c) ==
  /\ Advance(c, "updated", "committed")
  /\ rows' = rows \cup {RowOf(c)}
  /\ tipHash' = Sha256(prev[c], PayloadOf[c])
  /\ UNCHANGED <<outcome, prev, seq, nextSeq>>

Return(c) ==
  /\ outcome[c] = "running"
  /\ phase[c] = "committed"
  /\ outcome' = [outcome EXCEPT ![c] = "returned"]
  /\ UNCHANGED <<phase, prev, seq, rows, tipHash, nextSeq>>

\* A statement fails or the transaction times out: rolled back, record()
\* throws into the handler that called it.
Fail(c) ==
  /\ outcome[c] = "running"
  /\ phase[c] \in Open
  /\ outcome' = [outcome EXCEPT ![c] = "threw"]
  /\ phase' = [phase EXCEPT ![c] = "rolledBack"]
  /\ UNCHANGED <<prev, seq, rows, tipHash, nextSeq>>

\* The connection drops after COMMIT took effect: record() throws although
\* the event is stored.
LoseReply(c) ==
  /\ outcome[c] = "running"
  /\ phase[c] = "committed"
  /\ outcome' = [outcome EXCEPT ![c] = "threw"]
  /\ UNCHANGED <<phase, prev, seq, rows, tipHash, nextSeq>>

\* The API process dies and takes every call in flight with it.
Crash ==
  /\ \E c \in Calls : outcome[c] = "running"
  /\ outcome' = [c \in Calls |->
                   IF outcome[c] = "running" THEN "crashed" ELSE outcome[c]]
  /\ UNCHANGED <<phase, prev, seq, rows, tipHash, nextSeq>>

\* Mutant of RollbackOrphan: a lock the database does not take back, such as
\* one kept in a column.
OrphanStays(c) == FALSE

\* PostgreSQL notices the dead connection and rolls its transaction back.
RollbackOrphan(c) ==
  /\ outcome[c] = "crashed"
  /\ phase[c] \in Open
  /\ phase' = [phase EXCEPT ![c] = "rolledBack"]
  /\ UNCHANGED <<outcome, prev, seq, rows, tipHash, nextSeq>>

Step(c) ==
  \/ LockTip(c)
  \/ InsertRow(c)
  \/ UpdateTip(c)
  \/ Commit(c)
  \/ Return(c)
  \/ RollbackOrphan(c)

Next ==
  \/ \E c \in Calls : Begin(c) \/ Step(c) \/ Fail(c) \/ LoseReply(c)
  \/ Crash

Spec == Init /\ [][Next]_vars

\* A call under way runs to its end, and PostgreSQL rolls orphans back; that
\* calls are made, fail or that the process dies is never assumed.
FairSpec == Spec /\ \A c \in Calls : WF_vars(Step(c))
-----------------------------------------------------------------------------
TypeOK ==
  /\ outcome \in [Calls -> Outcomes]
  /\ phase \in [Calls -> Phases]
  /\ prev \in [Calls -> Hashes]
  /\ seq \in [Calls -> Nat]
  /\ rows \subseteq Row
  /\ tipHash \in Hashes
  /\ nextSeq \in Nat \ {0}

LastOf(S, s) == s \in S /\ \A t \in S : t.seq <= s.seq

\* Row r carries the hash of the row of S just before it, the first 'genesis'.
Linked(S, r) ==
  LET before == {s \in S : s.seq < r.seq}
  IN  \/ before = {} /\ r.previousHash = Genesis
      \/ \E s \in before : LastOf(before, s) /\ r.previousHash = s.hash

\* The chain is linear in the order of seq, whatever gaps rollbacks left in
\* it. It is the walk of auth-security.e2e-spec.ts:215-221, here at every
\* committed state and under concurrent writers.
RowsAreLinked == \A r \in rows : Linked(rows, r)

\* audit_chain_lock.tip_hash is the hash of the last row
\* (auth-security.e2e-spec.ts:222-225).
TipIsLastRow ==
  \/ rows = {} /\ tipHash = Genesis
  \/ \E s \in rows : LastOf(rows, s) /\ tipHash = s.hash

ChainIntact == RowsAreLinked /\ TipIsLastRow

\* A call that returned left exactly one row, one rolled back left none: the
\* caller may rely on the answer, except when it threw, which says nothing.
AnswerMatchesLog ==
  \A c \in Calls :
    /\ outcome[c] = "returned" => \E r \in rows : r.call = c
    /\ phase[c] = "rolledBack" => \A r \in rows : r.call # c
    /\ \A r, s \in rows : r.call = c /\ s.call = c => r = s

\* The promise of AuditLog, under the mapping that reads the log off the tip.
LogStatus(c) ==
  CASE phase[c] = "idle" -> "none"
    [] phase[c] \in Open -> "pending"
    [] phase[c] = "rolledBack" -> "dropped"
    [] OTHER -> IF outcome[c] = "returned" THEN "returned" ELSE "appended"

Log == INSTANCE AuditLog
         WITH log <- tipHash, status <- [c \in Calls |-> LogStatus(c)]

ImplementsLog == Log!Spec

\* No call is left hanging on the row lock: every call made ends and gives up
\* its transaction, also when the holder of the lock died with its process.
EveryCallEnds ==
  \A c \in Calls :
    outcome[c] = "running" ~> (outcome[c] # "running" /\ phase[c] \notin Open)
=============================================================================
