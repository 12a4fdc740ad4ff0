-------------------------- MODULE AuditChainProofs --------------------------
(***************************************************************************)
(* Proofs about AuditChain, for any set of calls and any payloads: the     *)
(* state is well typed, the hash chain stays linear whatever the order of  *)
(* the concurrent transactions, and the protocol implements AuditLog.      *)
(***************************************************************************)
EXTENDS AuditChain, TLAPS

\* The row lock admits one holder; what the holder read is still the tip; and
\* the seq it drew lies past every committed row.
LockInv ==
  /\ \A c, d \in Calls : phase[c] \in Holding /\ phase[d] \in Holding => c = d
  /\ \A c \in Calls : phase[c] \in Holding => prev[c] = tipHash
  /\ \A r \in rows : r.seq < nextSeq
  /\ \A c \in Calls : phase[c] \in {"inserted", "updated"} =>
       seq[c] < nextSeq /\ \A r \in rows : r.seq < seq[c]

\* Which calls have a row, and what their callers may have seen.
CallInv ==
  /\ \A c \in Calls : outcome[c] = "none" <=> phase[c] = "idle"
  /\ \A c \in Calls : outcome[c] = "returned" => phase[c] = "committed"
  /\ \A c \in Calls : phase[c] = "committed" => \E r \in rows : r.call = c
  /\ \A r \in rows : phase[r.call] = "committed"
  /\ \A r, s \in rows : r.call = s.call => r = s

IInv == TypeOK /\ LockInv /\ CallInv /\ ChainIntact

USE DEF Outcomes, Phases, Open, Holding

LEMMA HashesExtend ==
  ASSUME NEW h \in Hashes, NEW p \in Payloads
  PROVE  /\ Sha256(h, p) \in Hashes
         /\ Sha256(h, p) # Genesis
<1>1. Append(h, p) \in Seq(Payloads) /\ Len(Append(h, p)) = Len(h) + 1
  BY DEF Hashes
<1>2. Len(h) \in Nat /\ Len(<< >>) = 0
  BY DEF Hashes
<1>3. Append(h, p) # << >>
  BY <1>1, <1>2
<1> QED
  BY <1>1, <1>3 DEF Hashes, Sha256, Genesis

LEMMA InitIInv == Init => IInv
<1> SUFFICES ASSUME Init PROVE IInv
  OBVIOUS
<1>1. TypeOK
  BY DEF Init, FirstSeq, TypeOK, Hashes, Genesis
<1>2. LockInv /\ CallInv
  BY DEF Init, LockInv, CallInv
<1>3. ChainIntact
  BY DEF Init, ChainIntact, RowsAreLinked, TipIsLastRow
<1> QED
  BY <1>1, <1>2, <1>3 DEF IInv

\* Every step keeps the state well typed.
LEMMA TypeStep == TypeOK /\ [Next]_vars => TypeOK'
<1> SUFFICES ASSUME TypeOK, [Next]_vars PROVE TypeOK'
  OBVIOUS
<1> USE DEF TypeOK, Advance
<1>1. ASSUME NEW c \in Calls, Begin(c) PROVE TypeOK'
  BY <1>1 DEF Begin
<1>2. ASSUME NEW c \in Calls, LockTip(c) PROVE TypeOK'
  BY <1>2 DEF LockTip
<1>3. ASSUME NEW c \in Calls, InsertRow(c) PROVE TypeOK'
  BY <1>3 DEF InsertRow
<1>4. ASSUME NEW c \in Calls, UpdateTip(c) PROVE TypeOK'
  BY <1>4 DEF UpdateTip
<1>5. ASSUME NEW c \in Calls, Commit(c) PROVE TypeOK'
  <2>1. prev[c] \in Hashes /\ PayloadOf[c] \in Payloads
    BY PayloadAssumption
  <2>2. Sha256(prev[c], PayloadOf[c]) \in Hashes
    BY <2>1, HashesExtend
  <2>3. RowOf(c) \in Row
    BY <2>2 DEF RowOf, Row
  <2> QED
    BY <1>5, <2>2, <2>3 DEF Commit
<1>6. ASSUME NEW c \in Calls, Return(c) \/ Fail(c) \/ LoseReply(c)
      PROVE  TypeOK'
  BY <1>6 DEF Return, Fail, LoseReply
<1>7. ASSUME NEW c \in Calls, RollbackOrphan(c) PROVE TypeOK'
  BY <1>7 DEF RollbackOrphan
<1>8. CASE Crash
  BY <1>8 DEF Crash
<1>9. CASE UNCHANGED vars
  BY <1>9 DEF vars
<1> QED
  BY <1>1, <1>2, <1>3, <1>4, <1>5, <1>6, <1>7, <1>8, <1>9 DEF Next, Step

\* A row added past the end of S leaves the links of S as they are.
LEMMA LinkedStays ==
  ASSUME NEW S \in SUBSET Row, NEW new \in Row, NEW r \in S,
         \A s \in S : s.seq < new.seq, Linked(S, r)
  PROVE  Linked(S \cup {new}, r)
<1>1. r.seq \in Nat /\ new.seq \in Nat /\ r.seq < new.seq
  BY DEF Row
<1>2. {s \in S \cup {new} : s.seq < r.seq} = {s \in S : s.seq < r.seq}
  BY <1>1
<1> QED
  BY <1>2 DEF Linked

\* Committing keeps the chain linear: the new row comes last, and it was built
\* on the tip.
LEMMA CommitExtendsChain ==
  ASSUME IInv, TypeOK', NEW c \in Calls, Commit(c)
  PROVE  ChainIntact'
<1>1. PICK new \in rows' : new = RowOf(c)
  BY DEF Commit
<1>2. /\ rows' = rows \cup {new}
      /\ tipHash' = new.hash
      /\ new.previousHash = tipHash
      /\ new.seq = seq[c]
      /\ phase[c] = "updated"
  BY <1>1 DEF Commit, Advance, RowOf, IInv, LockInv
<1>3. /\ rows \in SUBSET Row
      /\ new \in Row
      /\ \A r \in rows : r.seq < new.seq
  BY <1>2 DEF IInv, LockInv, TypeOK
<1>4. LastOf(rows', new)
  BY <1>2, <1>3 DEF LastOf, Row
<1>5. TipIsLastRow'
  BY <1>2, <1>4 DEF TipIsLastRow
<1>6. \A r \in rows : Linked(rows', r)
  BY <1>2, <1>3, LinkedStays DEF IInv, ChainIntact, RowsAreLinked
<1>7. {s \in rows' : s.seq < new.seq} = rows
  BY <1>2, <1>3 DEF Row
<1>8. Linked(rows', new)
  BY <1>2, <1>7 DEF Linked, IInv, ChainIntact, TipIsLastRow
<1> QED
  BY <1>2, <1>5, <1>6, <1>8 DEF ChainIntact, RowsAreLinked

\* Steps that store nothing leave the chain as it is.
LEMMA ChainUntouched ==
  ASSUME ChainIntact, UNCHANGED <<rows, tipHash>>
  PROVE  ChainIntact'
BY DEF ChainIntact, RowsAreLinked, TipIsLastRow

LEMMA LockStep ==
  ASSUME IInv, TypeOK', NEW c \in Calls, Step(c) \/ Begin(c) \/ Fail(c) \/ LoseReply(c)
  PROVE  LockInv' /\ CallInv'
<1> USE DEF IInv, TypeOK, LockInv, CallInv, Advance
<1>1. CASE Begin(c)
  BY <1>1 DEF Begin
<1>2. CASE LockTip(c)
  BY <1>2 DEF LockTip, LockFree
<1>3. CASE InsertRow(c)
  BY <1>3 DEF InsertRow, Row
<1>4. CASE UpdateTip(c)
  BY <1>4 DEF UpdateTip
<1>5. CASE Commit(c)
  <2>1. /\ \A d \in Calls : phase'[d] \notin Holding
        /\ \A r \in rows' : r \in rows \/ r = RowOf(c)
        /\ RowOf(c) \in rows'
        /\ RowOf(c).call = c /\ RowOf(c).seq = seq[c]
        /\ phase' = [phase EXCEPT ![c] = "committed"]
        /\ phase[c] = "updated"
        /\ outcome[c] = "running"
        /\ UNCHANGED <<outcome, seq, prev, nextSeq>>
    BY <1>5 DEF Commit, RowOf
  <2>2. LockInv'
    BY <2>1
  <2>3. \A r \in rows : r.call # c
    BY <2>1
  <2>4. \A r, s \in rows' : r.call = s.call => r = s
    BY <2>1, <2>3
  <2>5. \A r \in rows' : phase'[r.call] = "committed"
    BY <2>1 DEF Row
  <2>6. \A d \in Calls : phase'[d] = "committed" => \E r \in rows' : r.call = d
    BY <2>1, <1>5 DEF Commit
  <2>7. \A d \in Calls : /\ outcome'[d] = "none" <=> phase'[d] = "idle"
                         /\ outcome'[d] = "returned" => phase'[d] = "committed"
    BY <2>1
  <2> QED
    BY <2>2, <2>4, <2>5, <2>6, <2>7
<1>6. CASE Return(c) \/ LoseReply(c)
  BY <1>6 DEF Return, LoseReply
<1>7. CASE Fail(c)
  BY <1>7 DEF Fail, Row
<1>8. CASE RollbackOrphan(c)
  BY <1>8 DEF RollbackOrphan, Row
<1> QED
  BY <1>1, <1>2, <1>3, <1>4, <1>5, <1>6, <1>7, <1>8 DEF Step

LEMMA NextIInv == IInv /\ [Next]_vars => IInv'
<1> SUFFICES ASSUME IInv, [Next]_vars PROVE IInv'
  OBVIOUS
<1>1. TypeOK'
  BY TypeStep DEF IInv
<1>2. ASSUME NEW c \in Calls, Step(c) \/ Begin(c) \/ Fail(c) \/ LoseReply(c)
      PROVE  IInv'
  <2>1. LockInv' /\ CallInv'
    BY <1>1, <1>2, LockStep
  <2>2. CASE Commit(c)
    BY <1>1, <2>1, <2>2, CommitExtendsChain DEF IInv
  <2>3. CASE ~ Commit(c)
    <3>1. UNCHANGED <<rows, tipHash>>
      BY <1>2, <2>3 DEF Step, Begin, LockTip, InsertRow, UpdateTip, Return,
                        RollbackOrphan, Fail, LoseReply
    <3> QED
      BY <1>1, <2>1, <3>1, ChainUntouched DEF IInv
  <2> QED
    BY <2>2, <2>3
<1>3. CASE Crash
  <2>1. LockInv' /\ CallInv'
    BY <1>3 DEF Crash, IInv, LockInv, CallInv, TypeOK
  <2>2. ChainIntact'
    BY <1>3, ChainUntouched DEF Crash, IInv
  <2> QED
    BY <1>1, <2>1, <2>2 DEF IInv
<1>4. CASE UNCHANGED vars
  <2>1. LockInv' /\ CallInv'
    BY <1>4 DEF vars, IInv, LockInv, CallInv
  <2>2. ChainIntact'
    BY <1>4, ChainUntouched DEF vars, IInv
  <2> QED
    BY <1>1, <2>1, <2>2 DEF IInv
<1> QED
  BY <1>2, <1>3, <1>4 DEF Next

\* The strengthened invariant holds in every reachable state of record().
THEOREM Inductive == Spec => []IInv
<1>1. Init => IInv
  BY InitIInv
<1>2. IInv /\ [Next]_vars => IInv'
  BY NextIInv
<1> QED
  BY <1>1, <1>2, PTL DEF Spec

\* The variables of record()'s transactions keep their types.
THEOREM TypeCorrect == Spec => []TypeOK
<1>1. IInv => TypeOK
  BY DEF IInv
<1> QED
  BY <1>1, Inductive, PTL

\* However many calls of record() run at once, fail or crash, the rows of
\* audit_logs form one linear hash chain in the order of seq, and the lock
\* row holds the hash of its end.
THEOREM ChainHolds == Spec => []ChainIntact
<1>1. IInv => ChainIntact
  BY DEF IInv
<1> QED
  BY <1>1, Inductive, PTL

\* A call that returned has exactly one row, one rolled back has none.
THEOREM AnswersHold == Spec => []AnswerMatchesLog
<1>1. ASSUME IInv PROVE AnswerMatchesLog
  <2>1. ASSUME NEW c \in Calls, outcome[c] = "returned"
        PROVE  \E r \in rows : r.call = c
    BY <1>1, <2>1 DEF IInv, CallInv
  <2>2. ASSUME NEW c \in Calls, phase[c] = "rolledBack", NEW r \in rows
        PROVE  r.call # c
    BY <1>1, <2>2 DEF IInv, CallInv
  <2>3. \A r, s \in rows : r.call = s.call => r = s
    BY <1>1 DEF IInv, CallInv
  <2> QED
    BY <2>1, <2>2, <2>3 DEF AnswerMatchesLog
<1> QED
  BY <1>1, Inductive, PTL

-----------------------------------------------------------------------------
\* The initial states are those of an empty log nobody has written to.
LEMMA InitRefines == Init => Log!Init
BY DEF Init, Log!Init, LogStatus, Genesis

\* Changing the phase and the outcome of one call changes the status of that
\* call alone.
LEMMA OneStatusMoves ==
  ASSUME TypeOK, NEW c \in Calls,
         \A d \in Calls \ {c} : phase'[d] = phase[d] /\ outcome'[d] = outcome[d]
  PROVE  [d \in Calls |-> LogStatus(d)']
           = [[d \in Calls |-> LogStatus(d)] EXCEPT ![c] = LogStatus(c)']
BY DEF LogStatus

\* Every step of record() is a step of the log or leaves it alone: the log
\* moves only when a transaction begins, commits, ends without a row or
\* answers.
LEMMA StepRefines == IInv /\ [Next]_vars => [Log!Next]_(Log!vars)
<1> SUFFICES ASSUME IInv, [Next]_vars PROVE [Log!Next]_(Log!vars)
  OBVIOUS
<1> USE DEF IInv, TypeOK, Advance
<1> DEFINE st == [d \in Calls |-> LogStatus(d)]
<1>1. ASSUME NEW c \in Calls, UNCHANGED tipHash,
             \A d \in Calls \ {c} : phase'[d] = phase[d] /\ outcome'[d] = outcome[d],
             LogStatus(c)' = LogStatus(c)
      PROVE  UNCHANGED Log!vars
  BY <1>1 DEF Log!vars, LogStatus
<1>2. ASSUME NEW c \in Calls, Begin(c) PROVE Log!Next
  <2>1. LogStatus(c) = "none" /\ LogStatus(c)' = "pending"
    BY <1>2 DEF Begin, LogStatus, CallInv
  <2>2. st' = [st EXCEPT ![c] = LogStatus(c)']
    BY <1>2, OneStatusMoves DEF Begin
  <2>3. Log!Request(c)
    BY <1>2, <2>1, <2>2 DEF Begin, Log!Request, Log!Move
  <2> QED
    BY <2>3 DEF Log!Next
<1>3. ASSUME NEW c \in Calls, LockTip(c) \/ InsertRow(c) \/ UpdateTip(c)
      PROVE  UNCHANGED Log!vars
  BY <1>1, <1>3 DEF LockTip, InsertRow, UpdateTip, LogStatus
<1>4. ASSUME NEW c \in Calls, Commit(c) PROVE Log!Next
  <2>1. LogStatus(c) = "pending" /\ LogStatus(c)' = "appended"
    BY <1>4 DEF Commit, LogStatus
  <2>2. st' = [st EXCEPT ![c] = LogStatus(c)']
    BY <1>4, OneStatusMoves DEF Commit
  <2>3. tipHash' = Append(tipHash, PayloadOf[c])
    BY <1>4 DEF Commit, LockInv, Sha256
  <2>4. Log!Record(c)
    BY <2>1, <2>2, <2>3 DEF Log!Record, Log!Move
  <2> QED
    BY <2>4 DEF Log!Next
<1>5. ASSUME NEW c \in Calls, Return(c) PROVE Log!Next
  <2>1. LogStatus(c) = "appended" /\ LogStatus(c)' = "returned"
    BY <1>5 DEF Return, LogStatus
  <2>2. st' = [st EXCEPT ![c] = LogStatus(c)']
    BY <1>5, OneStatusMoves DEF Return
  <2>3. Log!Confirm(c)
    BY <1>5, <2>1, <2>2 DEF Return, Log!Confirm, Log!Move
  <2> QED
    BY <2>3 DEF Log!Next
<1>6. ASSUME NEW c \in Calls, Fail(c) \/ RollbackOrphan(c) PROVE Log!Next
  <2>1. LogStatus(c) = "pending" /\ LogStatus(c)' = "dropped"
    BY <1>6 DEF Fail, RollbackOrphan, LogStatus
  <2>2. st' = [st EXCEPT ![c] = LogStatus(c)']
    BY <1>6, OneStatusMoves DEF Fail, RollbackOrphan
  <2>3. Log!Drop(c)
    BY <1>6, <2>1, <2>2 DEF Fail, RollbackOrphan, Log!Drop, Log!Move
  <2> QED
    BY <2>3 DEF Log!Next
<1>7. ASSUME NEW c \in Calls, LoseReply(c) PROVE UNCHANGED Log!vars
  BY <1>1, <1>7 DEF LoseReply, LogStatus
<1>8. ASSUME Crash PROVE UNCHANGED Log!vars
  <2>1. \A c \in Calls : LogStatus(c)' = LogStatus(c)
    BY <1>8 DEF Crash, LogStatus
  <2> QED
    BY <1>8, <2>1 DEF Crash, Log!vars
<1>9. ASSUME UNCHANGED vars PROVE UNCHANGED Log!vars
  BY <1>9 DEF vars, Log!vars, LogStatus
<1> QED
  BY <1>2, <1>3, <1>4, <1>5, <1>6, <1>7, <1>8, <1>9 DEF Next, Step

\* record() implements the append-only log it promises: concurrency, failures
\* and crashes never lose, reorder or repeat an event of the log.
THEOREM Refinement == Spec => ImplementsLog
<1>1. Init => Log!Init
  BY InitRefines
<1>2. IInv /\ [Next]_vars => [Log!Next]_(Log!vars)
  BY StepRefines
<1> QED
  BY <1>1, <1>2, Inductive, PTL DEF Spec, ImplementsLog, Log!Spec
=============================================================================
