--------------------------- MODULE AccountsProofs ---------------------------
(***************************************************************************)
(* Proofs about Accounts, for any users, roles, sessions and requests:     *)
(* every reachable state is well typed, a suspension lets in only what was *)
(* in flight, no path into a session skips MFA, and role changes leave     *)
(* nobody without a role.                                                  *)
(***************************************************************************)
EXTENDS Accounts, FiniteSetTheorems, TLAPS

USE AccountsAssumption

-----------------------------------------------------------------------------
(* What the jobs and the two shared operators hold and do *)

\* The fields a job has, by how far it has got.
LEMMA JobFields ==
  ASSUME NEW j \in Job
  PROVE  /\ j.at \in {"checked", "accepting", "activated", "enrolling",
                      "granted", "found", "cleared", "doomed", "leaving",
                      "reassigning", "revoking"} => j.user \in Users
         /\ j.at = "idle" <=> j = Idle
         /\ j.at = "granted" => /\ j.from \in Sids \cup {NoSession}
                                /\ j.mfa \in BOOLEAN
         /\ j.at \in {"found", "cleared", "doomed", "leaving"}
              => j.session \in Sids
         /\ j.at = "reassigning" => j.seen \subseteq Roles /\ j.role \in Roles
         /\ j.at = "revoking" => j.seen \subseteq Sids /\ j.kind \in Revocations
         /\ j.at \in {"idle", "checked", "accepting", "activated", "enrolling",
                      "granted", "found", "cleared", "doomed", "leaving",
                      "reassigning", "revoking"}
BY DEF Job, Idle

LEMMA BecomeType ==
  ASSUME TypeOK, NEW q \in Requests, NEW j \in Job, Become(q, j)
  PROVE  /\ job' \in [Requests -> Job]
         /\ job'[q] = j
         /\ \A p \in Requests : p # q => job'[p] = job[p]
BY DEF TypeOK, Become

\* Revoking sessions changes nothing of them but their state, and opens none.
LEMMA RevokeType ==
  ASSUME TypeOK, NEW S, Revoke(S)
  PROVE  /\ session' \in [Sids -> Session \cup {Unused}]
         /\ \A s \in Sids :
              /\ session'[s] = Unused <=> session[s] = Unused
              /\ session[s] # Unused =>
                   /\ session'[s].user = session[s].user
                   /\ session'[s].from = session[s].from
                   /\ session'[s].mfa = session[s].mfa
              /\ session'[s].state \in {"open", "lapsed"}
                   => session[s].state \in {"open", "lapsed"}
              /\ session[s].state = "revoked"
                   => session'[s].state = "revoked"
<1>1. ASSUME NEW s \in Sids, session[s] = Unused
      PROVE  session'[s] = Unused
  BY <1>1 DEF Revoke, Unused
<1>2. ASSUME NEW s \in Sids, session[s] # Unused
      PROVE  /\ session'[s] \in Session
             /\ session'[s].user = session[s].user
             /\ session'[s].from = session[s].from
             /\ session'[s].mfa = session[s].mfa
             /\ session'[s].state \in {"open", "lapsed"}
                  => session[s].state \in {"open", "lapsed"}
             /\ session[s].state = "revoked"
                  => session'[s].state = "revoked"
  <2>1. session[s] \in Session
    BY <1>2 DEF TypeOK
  <2> QED
    BY <2>1 DEF Revoke, Session
<1>3. \A r \in Session : r # Unused
  BY DEF Session, Unused
<1>4. session' \in [Sids -> Session \cup {Unused}]
  BY <1>1, <1>2 DEF Revoke
<1> QED
  BY <1>1, <1>2, <1>3, <1>4 DEF Unused

LEMMA IdleIsJob == Idle \in Job
BY DEF Job

\* The jobs the steps construct.
LEMMA NewJobs ==
  ASSUME NEW u \in Users
  PROVE  /\ \A at \in {"accepting", "activated", "enrolling"} :
              [at |-> at, user |-> u] \in Job
         /\ \A m \in Methods : [at |-> "checked", user |-> u, method |-> m] \in Job
         /\ \A from \in Sids \cup {NoSession}, mfa \in BOOLEAN :
              Grant(u, from, mfa) \in Job
         /\ \A at \in {"found", "cleared", "doomed", "leaving"}, s \in Sids :
              [at |-> at, user |-> u, session |-> s] \in Job
         /\ \A seen \in SUBSET Roles, r \in Roles :
              [at |-> "reassigning", user |-> u, seen |-> seen, role |-> r] \in Job
         /\ \A seen \in SUBSET Sids, k \in Revocations :
              [at |-> "revoking", user |-> u, seen |-> seen, kind |-> k] \in Job
BY DEF Job, Idle, Grant

LEMMA SessionFields ==
  ASSUME TypeOK, NEW s \in Sids
  PROVE  /\ session[s].state \in {"open", "lapsed", "revoked"} => session[s] # Unused
         /\ session[s] # Unused => session[s] \in Session
         /\ session[s] # Unused => /\ session[s].user \in Users
                                   /\ session[s].mfa \in BOOLEAN
                                   /\ session[s].from \in Sids \cup {NoSession}
BY DEF TypeOK, Session, Unused

\* CheckUser changes how far a refresh has got and nothing else of it.
LEMMA Checked ==
  ASSUME NEW j \in Job, j.at = "found", NEW at \in {"cleared", "doomed"}
  PROVE  /\ [j EXCEPT !.at = at] \in Job
         /\ [j EXCEPT !.at = at].at = at
         /\ [j EXCEPT !.at = at].user = j.user
         /\ [j EXCEPT !.at = at].session = j.session
<1>1. j \in [at : {"found", "cleared", "doomed", "leaving"}, user : Users,
             session : Sids]
  BY DEF Job, Idle
<1> QED
  BY <1>1 DEF Job

\* An update that commits takes rows out of the snapshot of another.
LEMMA SeenShrinks ==
  ASSUME NEW j \in Job, j.at = "reassigning", NEW S
  PROVE  /\ [j EXCEPT !.seen = @ \ S] \in Job
         /\ [j EXCEPT !.seen = @ \ S].at = "reassigning"
         /\ [j EXCEPT !.seen = @ \ S].user = j.user
<1>1. j \in [at : {"reassigning"}, user : Users, seen : SUBSET Roles,
             role : Roles]
  BY DEF Job, Idle
<1> QED
  BY <1>1 DEF Job

-----------------------------------------------------------------------------
(* Type correctness *)

\* The session a refresh or a logout holds is a row of the user it holds.
HeldSessions ==
  \A q \in Requests :
    job[q].at \in {"found", "cleared", "doomed", "leaving"} =>
      /\ session[job[q].session] # Unused
      /\ session[job[q].session].user = job[q].user

LEMMA TypeInit == Init => TypeOK
BY DEF Init, TypeOK, Job, Idle, Statuses, Methods

LEMMA TypeNext == TypeOK /\ HeldSessions /\ [Next]_vars => TypeOK'
<1> SUFFICES ASSUME TypeOK, HeldSessions, [Next]_vars PROVE TypeOK'
  OBVIOUS
<1> USE NewJobs, IdleIsJob
<1>1. CASE UNCHANGED vars
  BY <1>1 DEF TypeOK, vars, accountVars
<1>2. CASE Timeout
  BY <1>2 DEF Timeout, ExpireInvitation, ExpireChallenge, Lapse, TypeOK,
              accountVars, Session, Unused
<1>3. ASSUME NEW u \in Users, NEW r \in Roles, Invite(u, r) PROVE TypeOK'
  BY <1>3 DEF Invite, TypeOK, Statuses
<1>4. ASSUME NEW q \in Requests, AuthStep(q) PROVE TypeOK'
  <2>0. job[q] \in Job
    BY DEF TypeOK
  <2>1. ASSUME NEW u \in Users, ReadUser(q, u) PROVE TypeOK'
    <3>1. method[u] \in Methods
      BY DEF TypeOK
    <3> QED
      BY <2>1, <3>1, BecomeType DEF ReadUser, TypeOK, accountVars
  <2>2. ASSUME NEW u \in Users, VerifyMfaChallenge(q, u) PROVE TypeOK'
    BY <2>2, BecomeType DEF VerifyMfaChallenge, TypeOK, Methods
  <2>3. ASSUME NEW s \in Sids, FindSession(q, s) PROVE TypeOK'
    <3>1. session[s].user \in Users
      BY <2>3, SessionFields DEF FindSession
    <3> QED
      BY <2>3, <3>1, BecomeType DEF FindSession, TypeOK, accountVars
  <2>4. ASSUME NEW s \in Sids, FindToLeave(q, s) PROVE TypeOK'
    <3>1. session[s].user \in Users
      BY <2>4, SessionFields DEF FindToLeave
    <3> QED
      BY <2>4, <3>1, BecomeType DEF FindToLeave, TypeOK, accountVars
  <2>5. ASSUME NEW s \in Sids, IssueTokens(q, s) PROVE TypeOK'
    <3>1. job[q].user \in Users /\ job[q].from \in Sids \cup {NoSession}
          /\ job[q].mfa \in BOOLEAN
      BY <2>0, <2>5, JobFields DEF IssueTokens, Step
    <3>2. session' \in [Sids -> Session \cup {Unused}]
      BY <2>5, <3>1 DEF IssueTokens, TypeOK, Session
    <3> QED
      BY <2>5, <3>2, BecomeType DEF IssueTokens, TypeOK, accountVars
  <2>6. CASE LogIn(q)
    <3>1. job[q].user \in Users
      BY <2>0, <2>6, JobFields DEF LogIn, Step
    <3>2. job' \in [Requests -> Job] /\ challenge' \subseteq Users
      BY <2>6, <3>1, BecomeType DEF LogIn, TypeOK
    <3> QED
      BY <2>6, <3>2 DEF LogIn, TypeOK, accountVars
  <2>7. CASE CheckUser(q)
    <3>1. job[q].at = "found"
      BY <2>7 DEF CheckUser, Step
    <3>2. PICK at \in {"cleared", "doomed"} : Become(q, [job[q] EXCEPT !.at = at])
      BY <2>7 DEF CheckUser
    <3> QED
      BY <2>0, <2>7, <3>1, <3>2, Checked, BecomeType
      DEF CheckUser, TypeOK, accountVars
  <2>8. CASE RevokeInactive(q)
    BY <2>8, BecomeType, RevokeType DEF RevokeInactive, TypeOK, accountVars
  <2>9. CASE Rotate(q)
    <3>1. /\ job[q].user \in Users /\ job[q].session \in Sids
      BY <2>0, <2>9, JobFields DEF Rotate, Step
    <3>2. session[job[q].session].mfa \in BOOLEAN
      BY <2>9, <3>1, SessionFields DEF Rotate, Step, HeldSessions
    <3> QED
      BY <2>9, <3>1, <3>2, BecomeType, RevokeType DEF Rotate, TypeOK, accountVars
  <2>10. CASE Logout(q)
    BY <2>10, BecomeType, RevokeType DEF Logout, TypeOK, accountVars
  <2> QED
    BY <1>4, <2>1, <2>2, <2>3, <2>4, <2>5, <2>6, <2>7, <2>8, <2>9, <2>10
    DEF AuthStep
<1>5. ASSUME NEW q \in Requests, UsersStep(q) PROVE TypeOK'
  <2>0. job[q] \in Job
    BY DEF TypeOK
  <2>1. ASSUME NEW u \in Users, NEW r \in Roles, StartReassign(q, u, r)
        PROVE  TypeOK'
    <3>1. roles[u] \in SUBSET Roles
      BY DEF TypeOK
    <3> QED
      BY <2>1, <3>1, BecomeType DEF StartReassign, TypeOK, accountVars
  <2>2. ASSUME NEW u \in Users, NEW k \in Revocations, StartRevoke(q, u, k)
        PROVE  TypeOK'
    <3>1. OpenTo(u) \in SUBSET Sids
      BY DEF OpenTo
    <3> QED
      BY <2>2, <3>1, BecomeType DEF StartRevoke, TypeOK, accountVars
  <2>3. ASSUME NEW u \in Users, FindInvitation(q, u) PROVE TypeOK'
    BY <2>3, BecomeType DEF FindInvitation, TypeOK, accountVars
  <2>4. CASE Activate(q)
    <3>1. job[q].user \in Users
      BY <2>0, <2>4, JobFields DEF Activate, Step
    <3> QED
      BY <2>4, <3>1, BecomeType DEF Activate, TypeOK, Statuses
  <2>5. CASE ChooseEnrolment(q)
    <3>1. job[q].user \in Users
      BY <2>0, <2>5, JobFields DEF ChooseEnrolment, Step
    <3> QED
      BY <2>5, <3>1, BecomeType DEF ChooseEnrolment, TypeOK, accountVars
  <2>6. CASE Enrol(q)
    <3>1. job[q].user \in Users
      BY <2>0, <2>6, JobFields DEF Enrol, Step
    <3> QED
      BY <2>6, <3>1, BecomeType DEF Enrol, TypeOK, Methods
  <2>7. CASE Reassign(q)
    <3>1. job[q].user \in Users /\ job[q].role \in Roles
      BY <2>0, <2>7, JobFields DEF Reassign, Step
    <3>2. roles' \in [Users -> SUBSET Roles]
      BY <2>7, <3>1 DEF Reassign, TypeOK
    <3>3. job' \in [Requests -> Job]
      BY <2>7, SeenShrinks DEF Reassign, TypeOK, Step
    <3> QED
      BY <2>7, <3>1, <3>2, <3>3 DEF Reassign, TypeOK
  <2>8. CASE CommitRevoke(q)
    <3>1. job[q].user \in Users
      BY <2>0, <2>8, JobFields DEF CommitRevoke, Step
    <3>2. status' \in [Users -> Statuses]
      BY <2>8, <3>1 DEF CommitRevoke, TypeOK, Statuses
    <3> QED
      BY <2>8, <3>2, BecomeType, RevokeType DEF CommitRevoke, TypeOK
  <2> QED
    BY <1>5, <2>1, <2>2, <2>3, <2>4, <2>5, <2>6, <2>7, <2>8 DEF UsersStep
<1>6. ASSUME NEW q \in Requests, Fail(q) PROVE TypeOK'
  BY <1>6, BecomeType DEF Fail, TypeOK, accountVars
<1> QED
  BY <1>1, <1>2, <1>3, <1>4, <1>5, <1>6 DEF Next


-----------------------------------------------------------------------------
(* What every step does to the tables and to one request *)

\* The update of a role that q is about to commit, seen from another one.
Overtaken(q) ==
  /\ job[q].at = "reassigning" /\ job'[q].at = "reassigning"
  /\ job'[q].user = job[q].user

\* A request moves only by steps of its own, but for what another update of
\* the same roles does to its snapshot.
LEMMA OwnSteps ==
  ASSUME TypeOK, [Next]_vars, NEW q \in Requests
  PROVE  \/ job'[q] = job[q]
         \/ job'[q] = Idle
         \/ AuthStep(q) \/ UsersStep(q)
         \/ Overtaken(q)
<1>1. CASE UNCHANGED vars
  BY <1>1 DEF vars
<1>2. CASE Timeout
  BY <1>2 DEF Timeout, ExpireInvitation, ExpireChallenge, Lapse
<1>3. ASSUME NEW u \in Users, NEW r \in Roles, Invite(u, r)
      PROVE  job'[q] = job[q]
  BY <1>3 DEF Invite
<1>4. ASSUME NEW p \in Requests, p # q, AuthStep(p) PROVE job'[q] = job[q]
  BY <1>4 DEF AuthStep, ReadUser, VerifyMfaChallenge, FindSession,
              FindToLeave, IssueTokens, LogIn, CheckUser, RevokeInactive,
              Rotate, Logout, Become, TypeOK
<1>5. ASSUME NEW p \in Requests, p # q, UsersStep(p)
      PROVE  job'[q] = job[q] \/ Overtaken(q)
  <2>1. CASE Reassign(p)
    BY <1>5, <2>1, SeenShrinks DEF Reassign, Overtaken, Step, TypeOK
  <2> QED
    BY <1>5, <2>1 DEF UsersStep, StartReassign, StartRevoke, FindInvitation,
       Activate, ChooseEnrolment, Enrol, CommitRevoke, Become, TypeOK
<1>6. ASSUME NEW p \in Requests, Fail(p)
      PROVE  job'[q] = job[q] \/ job'[q] = Idle
  BY <1>6 DEF Fail, Become, TypeOK
<1> QED
  BY <1>1, <1>2, <1>3, <1>4, <1>5, <1>6 DEF Next

\* A sessions row that is not as it was: one that a granted request inserts,
\* or one whose state alone changed.
Inserted(s) ==
  \E q \in Requests :
    /\ job[q].at = "granted" /\ session[s] = Unused
    /\ session'[s] # Unused
    /\ session'[s].user = job[q].user
    /\ session'[s].from = job[q].from
    /\ session'[s].mfa = job[q].mfa
    /\ job' = [job EXCEPT ![q] = Idle]
    /\ UNCHANGED <<status, roles, reassigned>>

SameOwner(s) ==
  /\ session'[s] = Unused <=> session[s] = Unused
  /\ session[s] # Unused =>
       /\ session'[s].user = session[s].user
       /\ session'[s].from = session[s].from
       /\ session'[s].mfa = session[s].mfa
       /\ session'[s].state \in {"open", "lapsed"}
            => session[s].state \in {"open", "lapsed"}
       /\ session[s].state = "revoked" => session'[s].state = "revoked"

LEMMA OwnersKeep ==
  ASSUME TypeOK, [Next]_vars, NEW s \in Sids,
         \A q \in Requests, t \in Sids : ~IssueTokens(q, t)
  PROVE  SameOwner(s)
<1>1. ASSUME UNCHANGED session PROVE SameOwner(s)
  BY <1>1 DEF SameOwner
<1>2. ASSUME NEW S, Revoke(S) PROVE SameOwner(s)
  BY <1>2, RevokeType DEF SameOwner
<1>3. CASE UNCHANGED vars
  BY <1>1, <1>3 DEF vars
<1>4. CASE Timeout
  <2>1. ASSUME NEW t \in Sids, Lapse(t) PROVE SameOwner(s)
    <3>1. session[t] \in Session
      BY <2>1, SessionFields DEF Lapse
    <3> QED
      BY <2>1, <3>1 DEF Lapse, SameOwner, TypeOK, Session, Unused
  <2> QED
    BY <1>1, <1>4, <2>1 DEF Timeout, ExpireInvitation, ExpireChallenge
<1>5. ASSUME NEW u \in Users, NEW r \in Roles, Invite(u, r) PROVE SameOwner(s)
  BY <1>1, <1>5 DEF Invite
<1>6. ASSUME NEW q \in Requests, AuthStep(q) PROVE SameOwner(s)
  BY <1>1, <1>2, <1>6 DEF AuthStep, ReadUser, VerifyMfaChallenge,
     FindSession, FindToLeave, LogIn, CheckUser, RevokeInactive, Rotate, Logout
<1>7. ASSUME NEW q \in Requests, UsersStep(q) PROVE SameOwner(s)
  BY <1>1, <1>2, <1>7 DEF UsersStep, StartReassign, StartRevoke,
     FindInvitation, Activate, ChooseEnrolment, Enrol, Reassign, CommitRevoke
<1>8. ASSUME NEW q \in Requests, Fail(q) PROVE SameOwner(s)
  BY <1>1, <1>8 DEF Fail
<1> QED
  BY <1>3, <1>4, <1>5, <1>6, <1>7, <1>8 DEF Next

LEMMA SessionsKeep ==
  ASSUME TypeOK, [Next]_vars, NEW s \in Sids
  PROVE  SameOwner(s) \/ Inserted(s)
<1>1. ASSUME NEW q \in Requests, NEW t \in Sids, IssueTokens(q, t)
      PROVE  SameOwner(s) \/ Inserted(s)
  <2>1. CASE s = t
    BY <1>1, <2>1
    DEF IssueTokens, Inserted, TypeOK, Step, Become, Unused, accountVars
  <2>2. CASE s # t
    BY <1>1, <2>2 DEF IssueTokens, SameOwner, TypeOK
  <2> QED
    BY <2>1, <2>2
<1> QED
  BY <1>1, OwnersKeep

LEMMA HeldNext ==
  TypeOK /\ HeldSessions /\ [Next]_vars => HeldSessions'
<1> SUFFICES ASSUME TypeOK, HeldSessions, [Next]_vars, NEW q \in Requests,
                    job'[q].at \in {"found", "cleared", "doomed", "leaving"}
             PROVE  /\ session'[job'[q].session] # Unused
                    /\ session'[job'[q].session].user = job'[q].user
  BY DEF HeldSessions
<1>0. job[q] \in Job
  BY DEF TypeOK
<1>1. \A s \in Sids : session[s] # Unused =>
        session'[s] # Unused /\ session'[s].user = session[s].user
  BY SessionsKeep DEF SameOwner, Inserted
<1>2. CASE job'[q] = job[q]
  BY <1>0, <1>1, <1>2, JobFields DEF HeldSessions
<1>3. CASE job'[q] = Idle
  BY <1>3 DEF Idle
<1>4. ASSUME NEW s \in Sids, FindSession(q, s) \/ FindToLeave(q, s)
      PROVE  job'[q].session = s /\ job'[q].user = session[s].user
             /\ session[s] # Unused
  BY <1>4, SessionFields DEF FindSession, FindToLeave, Become, TypeOK
<1>5. CASE CheckUser(q)
  <2>1. job[q].at = "found" /\ job[q].session \in Sids
    BY <1>0, <1>5, JobFields DEF CheckUser, Step
  <2>2. job'[q].session = job[q].session /\ job'[q].user = job[q].user
    BY <1>0, <1>5, <2>1, Checked DEF CheckUser, Become, TypeOK
  <2> QED
    BY <1>1, <2>1, <2>2 DEF HeldSessions
<1>6. CASE AuthStep(q) /\ ~CheckUser(q)
           /\ \A s \in Sids : ~FindSession(q, s) /\ ~FindToLeave(q, s)
  BY <1>6 DEF AuthStep, ReadUser, VerifyMfaChallenge, IssueTokens, LogIn,
     RevokeInactive, Rotate, Logout, Become, Grant, Idle, TypeOK
<1>7. CASE UsersStep(q)
  BY <1>7 DEF UsersStep, StartReassign, StartRevoke, FindInvitation, Activate,
     ChooseEnrolment, Enrol, Reassign, CommitRevoke, Become, Grant, Idle, TypeOK
<1> QED
  BY <1>1, <1>2, <1>3, <1>4, <1>5, <1>6, <1>7, OwnSteps DEF Overtaken

LEMMA HeldInit == Init => HeldSessions
BY DEF Init, HeldSessions, Idle

\* Every reachable state is well typed.
THEOREM TypeCorrect == Spec => []TypeOK
<1>1. TypeOK /\ HeldSessions /\ [Next]_vars => (TypeOK /\ HeldSessions)'
  BY TypeNext, HeldNext
<1> QED
  BY TypeInit, HeldInit, <1>1, PTL DEF Spec

-----------------------------------------------------------------------------
(* A suspended user stays out *)

PastCheck == {"checked", "accepting", "activated", "enrolling", "granted",
              "cleared"}

\* Only an acceptance ends a suspension.
LEMMA StatusStays ==
  ASSUME TypeOK, [Next]_vars, NEW u \in Users, status[u] = "suspended",
         \A q \in Requests : job[q].at = "accepting" => job[q].user # u
  PROVE  status'[u] = "suspended"
<1>1. CASE UNCHANGED vars \/ Timeout
  BY <1>1 DEF vars, accountVars, Timeout, ExpireInvitation, ExpireChallenge, Lapse
<1>2. ASSUME NEW v \in Users, NEW r \in Roles, Invite(v, r)
      PROVE  status'[u] = "suspended"
  BY <1>2 DEF Invite, TypeOK
<1>3. ASSUME NEW q \in Requests, AuthStep(q) \/ Fail(q)
      PROVE  status' = status
  BY <1>3 DEF AuthStep, ReadUser, VerifyMfaChallenge, FindSession, FindToLeave,
     IssueTokens, LogIn, CheckUser, RevokeInactive, Rotate, Logout, Fail,
     accountVars
<1>4. ASSUME NEW q \in Requests, UsersStep(q) PROVE status'[u] = "suspended"
  <2>1. CASE Activate(q)
    BY <2>1 DEF Activate, Step, TypeOK
  <2>2. CASE CommitRevoke(q)
    BY <2>2 DEF CommitRevoke, TypeOK
  <2> QED
    BY <1>4, <2>1, <2>2 DEF UsersStep, StartReassign, StartRevoke,
       FindInvitation, ChooseEnrolment, Enrol, Reassign, accountVars
<1> QED
  BY <1>1, <1>2, <1>3, <1>4 DEF Next

\* A challenge is signed for a user whose login or enrolment was in flight,
\* and ends it.
LEMMA ChallengesCost ==
  ASSUME TypeOK, [Next]_vars, NEW u \in Users,
         u \notin challenge, u \in challenge'
  PROVE  \E q \in Requests :
           /\ job[q].at \in {"checked", "enrolling"} /\ job[q].user = u
           /\ job'[q] = Idle
<1>1. CASE UNCHANGED vars \/ Timeout
  BY <1>1 DEF vars, Timeout, ExpireInvitation, ExpireChallenge, Lapse
<1>2. ASSUME NEW v \in Users, NEW r \in Roles, Invite(v, r)
      PROVE  challenge' = challenge
  BY <1>2 DEF Invite
<1>3. ASSUME NEW q \in Requests, LogIn(q) \/ Enrol(q)
      PROVE  /\ job[q].at \in {"checked", "enrolling"} /\ job[q].user = u
             /\ job'[q] = Idle
  BY <1>3 DEF LogIn, Enrol, Step, Become, TypeOK
<1>4. ASSUME NEW q \in Requests,
             (AuthStep(q) /\ ~LogIn(q)) \/ Fail(q) \/ (UsersStep(q) /\ ~Enrol(q))
      PROVE  u \notin challenge'
  BY <1>4 DEF AuthStep, ReadUser, VerifyMfaChallenge, FindSession, FindToLeave,
     IssueTokens, CheckUser, RevokeInactive, Rotate, Logout, Fail,
     UsersStep, StartReassign, StartRevoke, FindInvitation, Activate,
     ChooseEnrolment, Reassign, CommitRevoke
<1> QED
  BY <1>1, <1>2, <1>3, <1>4 DEF Next

\* A step cannot bring a request of a suspended user past the checks.
LEMMA NothingTakesOff ==
  ASSUME TypeOK, [Next]_vars, NEW u \in Users,
         status[u] = "suspended", u \notin challenge,
         NEW q \in Requests, job'[q].at \in PastCheck, job'[q].user = u
  PROVE  job[q].at \in PastCheck /\ job[q].user = u
<1>0. job[q] \in Job
  BY DEF TypeOK
<1>1. CASE job'[q] = job[q] \/ job'[q] = Idle \/ Overtaken(q)
  BY <1>1 DEF PastCheck, Idle, Overtaken
<1>2. ASSUME NEW v \in Users, ReadUser(q, v) \/ VerifyMfaChallenge(q, v)
                              \/ FindInvitation(q, v)
      PROVE  FALSE
  <2>1. job'[q].user = v
    BY <1>2 DEF ReadUser, VerifyMfaChallenge, FindInvitation, Become, Grant,
                TypeOK
  <2>2. v # u
    BY <1>2 DEF ReadUser, VerifyMfaChallenge, FindInvitation
  <2> QED
    BY <2>1, <2>2
<1>3. CASE CheckUser(q)
  <2>1. job[q].at = "found" /\ job[q].user \in Users
    BY <1>0, <1>3, JobFields DEF CheckUser, Step
  <2>2. CASE status[job[q].user] = "active"
    BY <1>0, <1>3, <2>1, <2>2, Checked DEF CheckUser, Become, TypeOK
  <2>3. CASE status[job[q].user] # "active"
    <3>1. job'[q] = [job[q] EXCEPT !.at = "doomed"]
      BY <1>3, <2>3 DEF CheckUser, Become, TypeOK
    <3> QED
      BY <1>0, <2>1, <3>1, Checked DEF PastCheck
  <2> QED
    BY <2>2, <2>3
<1>4. CASE LogIn(q) \/ Rotate(q) \/ Activate(q) \/ ChooseEnrolment(q)
  <2>1. job[q].at \in PastCheck
    BY <1>4 DEF LogIn, Rotate, Activate, ChooseEnrolment, Step, PastCheck
  <2>2. job'[q] = Idle \/ job'[q].user = job[q].user
    BY <1>4 DEF LogIn, Rotate, Activate, ChooseEnrolment, Become, Grant, TypeOK
  <2> QED
    BY <2>1, <2>2 DEF PastCheck, Idle
<1>5. ASSUME NEW s \in Sids, FindSession(q, s) \/ FindToLeave(q, s)
                             \/ IssueTokens(q, s)
      PROVE  job'[q].at \notin PastCheck
  BY <1>5 DEF FindSession, FindToLeave, IssueTokens, Become, Idle, TypeOK,
              PastCheck
<1>6. CASE RevokeInactive(q) \/ Logout(q) \/ Enrol(q) \/ Reassign(q)
           \/ CommitRevoke(q)
  BY <1>6 DEF RevokeInactive, Logout, Enrol, Reassign, CommitRevoke, Become,
              Idle, TypeOK, PastCheck
<1>7. ASSUME NEW v \in Users, \/ \E r \in Roles : StartReassign(q, v, r)
                              \/ \E k \in Revocations : StartRevoke(q, v, k)
      PROVE  job'[q].at \notin PastCheck
  BY <1>7 DEF StartReassign, StartRevoke, Become, TypeOK, PastCheck
<1> QED
  BY <1>1, <1>2, <1>3, <1>4, <1>5, <1>6, <1>7, OwnSteps DEF AuthStep, UsersStep

\* A session is opened by a request in flight, which ends with it.
LEMMA SessionsCost ==
  ASSUME TypeOK, [Next]_vars, NEW u \in Users
  PROVE  \/ OpenTo(u)' \subseteq OpenTo(u)
         \/ /\ challenge' = challenge
            /\ \E q \in InFlight(u) : job'[q] = Idle
            /\ \A s, t \in OpenTo(u)' \ OpenTo(u) : s = t
<1>1. ASSUME NEW q \in Requests, NEW s \in Sids, IssueTokens(q, s)
      PROVE  \/ OpenTo(u)' \subseteq OpenTo(u)
             \/ /\ challenge' = challenge
                /\ \E p \in InFlight(u) : job'[p] = Idle
                /\ \A r, t \in OpenTo(u)' \ OpenTo(u) : r = t
  <2>1. OpenTo(u)' \subseteq OpenTo(u) \cup {s}
    BY <1>1 DEF IssueTokens, OpenTo, TypeOK
  <2>2. CASE job[q].user = u
    BY <1>1, <2>1, <2>2 DEF IssueTokens, Step, Become, InFlight, TypeOK
  <2>3. CASE job[q].user # u
    <3>1. session'[s].user # u
      BY <1>1, <2>3 DEF IssueTokens, TypeOK
    <3> QED
      BY <2>1, <3>1 DEF OpenTo
  <2> QED
    BY <2>2, <2>3
<1>2. CASE \A q \in Requests, s \in Sids : ~IssueTokens(q, s)
  <2>1. \A s \in Sids : SameOwner(s)
    BY <1>2, OwnersKeep
  <2> QED
    BY <2>1 DEF SameOwner, OpenTo, Unused
<1> QED
  BY <1>1, <1>2

\* While a user is suspended and unchallenged only what was in flight lets
\* the user in, each request once, and only an acceptance among it ends the
\* suspension.
THEOREM SuspensionPrevails == Spec => SuspendedStaysOut
<1>1. ASSUME TypeOK, [Next]_vars, NEW u \in Users,
             status[u] = "suspended", u \notin challenge
      PROVE  /\ InFlight(u)' \subseteq InFlight(u)
             /\ \/ OpenTo(u)' \subseteq OpenTo(u) /\ u \notin challenge'
                \/ /\ InFlight(u)' # InFlight(u)
                   /\ \A s, t \in OpenTo(u)' \ OpenTo(u) : s = t
             /\ \/ status'[u] = "suspended"
                \/ \E q \in InFlight(u) : job[q].at = "accepting"
  <2>1. InFlight(u)' \subseteq InFlight(u)
    BY <1>1, NothingTakesOff DEF InFlight, PastCheck
  <2>2. status'[u] = "suspended" \/ \E q \in InFlight(u) : job[q].at = "accepting"
    BY <1>1, StatusStays DEF InFlight
  <2>3. ASSUME NEW q \in InFlight(u), job'[q] = Idle
        PROVE  InFlight(u)' # InFlight(u)
    BY <2>3 DEF InFlight, Idle
  <2>4. u \in challenge' => \E q \in InFlight(u) : job'[q] = Idle
    BY <1>1, ChallengesCost DEF InFlight
  <2>5. \/ OpenTo(u)' \subseteq OpenTo(u) /\ u \notin challenge'
        \/ /\ InFlight(u)' # InFlight(u)
           /\ \A s, t \in OpenTo(u)' \ OpenTo(u) : s = t
    BY <1>1, <2>3, <2>4, SessionsCost
  <2> QED
    BY <2>1, <2>2, <2>5
<1>2. TypeOK /\ [Next]_vars
      => [\A u \in Users :
            status[u] = "suspended" /\ u \notin challenge =>
              /\ InFlight(u)' \subseteq InFlight(u)
              /\ \/ OpenTo(u)' \subseteq OpenTo(u) /\ u \notin challenge'
                 \/ /\ InFlight(u)' # InFlight(u)
                    /\ \A s, t \in OpenTo(u)' \ OpenTo(u) : s = t
              /\ \/ status'[u] = "suspended"
                 \/ \E q \in InFlight(u) : job[q].at = "accepting"]_vars
  BY <1>1
<1> QED
  BY <1>2, TypeCorrect, PTL DEF Spec, SuspendedStaysOut

-----------------------------------------------------------------------------
(* Roles, and MFA before a session *)

\* Requests, challenges and sessions are those of users that exist.
UsersExist ==
  /\ \A q \in Requests : job[q] # Idle => status[job[q].user] # "absent"
  /\ \A u \in challenge : status[u] # "absent"
  /\ \A s \in Sids :
       session[s] # Unused => status[session[s].user] # "absent"

\* A request let in without a TOTP check is one MfaBeforePrivilege allows.
GrantsAreChecked ==
  \A q \in Requests :
    /\ job[q].at = "granted" /\ ~job[q].mfa
    /\ job[q].user \notin reassigned
    => ~NeedsMfa(job[q].user)

AccessInv ==
  /\ TypeOK /\ HeldSessions /\ UsersExist
  /\ NobodyIsRoleless /\ GrantsAreChecked /\ MfaBeforePrivilege

\* The roles of a user change when the user is created and when an update is
\* committed, and neither leaves none.
LEMMA RolesChange ==
  ASSUME TypeOK, UsersExist, [Next]_vars, NEW u \in Users
  PROVE  /\ status[u] # "absent" => status'[u] # "absent"
         /\ u \in reassigned => u \in reassigned'
         /\ \/ /\ roles'[u] = roles[u]
               /\ status'[u] # "absent" => status[u] # "absent"
            \/ /\ roles'[u] # {}
               /\ status[u] = "absent" \/ u \in reassigned'
<1>1. CASE UNCHANGED vars \/ Timeout
  BY <1>1 DEF vars, accountVars, Timeout, ExpireInvitation, ExpireChallenge, Lapse
<1>2. ASSUME NEW v \in Users, NEW r \in Roles, Invite(v, r)
      PROVE  /\ status[u] # "absent" => status'[u] # "absent"
             /\ reassigned' = reassigned
             /\ \/ roles'[u] = roles[u] /\ status'[u] = status[u]
                \/ roles'[u] # {} /\ status[u] = "absent"
  BY <1>2 DEF Invite, TypeOK
<1>3. ASSUME NEW q \in Requests, AuthStep(q) \/ Fail(q)
      PROVE  status' = status /\ roles' = roles /\ reassigned' = reassigned
  BY <1>3 DEF AuthStep, ReadUser, VerifyMfaChallenge, FindSession, FindToLeave,
     IssueTokens, LogIn, CheckUser, RevokeInactive, Rotate, Logout, Fail,
     accountVars
<1>4. ASSUME NEW q \in Requests, UsersStep(q)
      PROVE  /\ status[u] # "absent" => status'[u] # "absent"
             /\ reassigned \subseteq reassigned'
             /\ status'[u] # "absent" => status[u] # "absent"
             /\ \/ roles'[u] = roles[u]
                \/ roles'[u] # {} /\ u \in reassigned'
  <2>1. CASE Activate(q)
    <3>1. status[job[q].user] # "absent"
      BY <2>1 DEF Activate, Step, Idle, UsersExist
    <3> QED
      BY <2>1, <3>1 DEF Activate, TypeOK
  <2>2. CASE CommitRevoke(q)
    <3>1. status[job[q].user] # "absent"
      BY <2>2 DEF CommitRevoke, Step, Idle, UsersExist
    <3> QED
      BY <2>2, <3>1 DEF CommitRevoke, TypeOK
  <2>3. CASE Reassign(q)
    BY <2>3 DEF Reassign, TypeOK
  <2> QED
    BY <1>4, <2>1, <2>2, <2>3 DEF UsersStep, StartReassign, StartRevoke,
       FindInvitation, ChooseEnrolment, Enrol, accountVars
<1> QED
  BY <1>1, <1>2, <1>3, <1>4 DEF Next

LEMMA UsersExistNext ==
  TypeOK /\ HeldSessions /\ UsersExist /\ [Next]_vars => UsersExist'
<1> SUFFICES ASSUME TypeOK, HeldSessions, UsersExist, [Next]_vars
             PROVE  UsersExist'
  OBVIOUS
<1>0. /\ \A u \in Users : status[u] # "absent" => status'[u] # "absent"
      /\ challenge \subseteq Users
      /\ \A q \in Requests : job[q] \in Job
  BY RolesChange DEF TypeOK
<1>1. ASSUME NEW q \in Requests, job'[q] # Idle
      PROVE  status'[job'[q].user] # "absent"
  <2>1. CASE job'[q] = job[q]
    BY <1>0, <1>1, <2>1, JobFields DEF UsersExist
  <2>2. ASSUME NEW u \in Users,
               \/ ReadUser(q, u) \/ VerifyMfaChallenge(q, u)
               \/ FindInvitation(q, u)
               \/ \E r \in Roles : StartReassign(q, u, r)
               \/ \E k \in Revocations : StartRevoke(q, u, k)
        PROVE  status'[job'[q].user] # "absent"
    <3>1. job'[q].user = u /\ status[u] # "absent"
      BY <2>2 DEF ReadUser, VerifyMfaChallenge, FindInvitation, StartReassign,
                  StartRevoke, Become, Grant, TypeOK, UsersExist
    <3> QED
      BY <1>0, <3>1
  <2>3. ASSUME NEW s \in Sids, FindSession(q, s) \/ FindToLeave(q, s)
        PROVE  status'[job'[q].user] # "absent"
    <3>1. session[s] # Unused /\ session[s].user \in Users
      BY <2>3, SessionFields DEF FindSession, FindToLeave
    <3>2. job'[q].user = session[s].user
      BY <2>3 DEF FindSession, FindToLeave, Become, TypeOK
    <3> QED
      BY <1>0, <3>1, <3>2 DEF UsersExist
  <2>4. CASE LogIn(q) \/ Rotate(q) \/ Activate(q) \/ ChooseEnrolment(q)
    <3>1. job[q].user \in Users /\ status[job[q].user] # "absent"
      BY <1>0, <2>4, JobFields DEF LogIn, Rotate, Activate, ChooseEnrolment,
         Step, UsersExist, Idle
    <3>2. job'[q] = Idle \/ job'[q].user = job[q].user
      BY <2>4 DEF LogIn, Rotate, Activate, ChooseEnrolment, Become, Grant, TypeOK
    <3> QED
      BY <1>0, <1>1, <3>1, <3>2
  <2>5. CASE CheckUser(q)
    <3>1. job[q].at = "found" /\ job[q].user \in Users
          /\ status[job[q].user] # "absent"
      BY <1>0, <2>5, JobFields DEF CheckUser, Step, UsersExist, Idle
    <3>2. job'[q].user = job[q].user
      BY <1>0, <2>5, <3>1, Checked DEF CheckUser, Become, TypeOK
    <3> QED
      BY <1>0, <3>1, <3>2
  <2>6. ASSUME \/ RevokeInactive(q) \/ Logout(q) \/ Enrol(q) \/ Reassign(q)
               \/ CommitRevoke(q) \/ \E s \in Sids : IssueTokens(q, s)
        PROVE  job'[q] = Idle
    BY <2>6 DEF RevokeInactive, Logout, Enrol, Reassign, CommitRevoke,
       IssueTokens, Become, TypeOK
  <2>7. CASE Overtaken(q)
    <3>1. job[q].user \in Users /\ status[job[q].user] # "absent"
      BY <1>0, <2>7, JobFields DEF Overtaken, UsersExist, Idle
    <3> QED
      BY <1>0, <2>7, <3>1 DEF Overtaken
  <2> QED
    BY <1>1, <2>1, <2>2, <2>3, <2>4, <2>5, <2>6, <2>7, OwnSteps
    DEF AuthStep, UsersStep
<1>2. ASSUME NEW u \in Users, u \in challenge' PROVE status'[u] # "absent"
  <2>1. CASE u \in challenge
    BY <1>0, <2>1 DEF UsersExist
  <2>2. CASE u \notin challenge
    <3>1. PICK q \in Requests :
            job[q].at \in {"checked", "enrolling"} /\ job[q].user = u
      BY <1>2, <2>2, ChallengesCost
    <3> QED
      BY <1>0, <3>1 DEF UsersExist, Idle
  <2> QED
    BY <2>1, <2>2
<1>3. ASSUME NEW s \in Sids, session'[s] # Unused
      PROVE  status'[session'[s].user] # "absent"
  <2>1. CASE SameOwner(s)
    <3>1. session[s] # Unused /\ session[s].user \in Users
      BY <1>3, <2>1, SessionFields DEF SameOwner
    <3> QED
      BY <1>0, <2>1, <3>1 DEF SameOwner, UsersExist
  <2>2. CASE Inserted(s)
    <3>1. PICK q \in Requests :
            job[q].at = "granted" /\ session'[s].user = job[q].user
      BY <2>2 DEF Inserted
    <3> QED
      BY <1>0, <3>1, JobFields DEF UsersExist, Idle
  <2> QED
    BY <2>1, <2>2, SessionsKeep
<1>4. challenge' \subseteq Users
  BY TypeNext DEF TypeOK
<1> QED
  BY <1>1, <1>2, <1>3, <1>4 DEF UsersExist

LEMMA NobodyIsRolelessNext ==
  TypeOK /\ UsersExist /\ NobodyIsRoleless /\ [Next]_vars => NobodyIsRoleless'
BY RolesChange DEF NobodyIsRoleless

\* A user whose roles have not been reassigned needs MFA after a step only if
\* already before it, or if there was no such user.
LEMMA NeedsMfaStays ==
  ASSUME TypeOK, UsersExist, [Next]_vars, NEW u \in Users,
         status[u] # "absent", u \notin reassigned'
  PROVE  u \notin reassigned /\ (NeedsMfa(u)' <=> NeedsMfa(u))
BY RolesChange DEF NeedsMfa

LEMMA GrantsAreCheckedNext == AccessInv /\ [Next]_vars => GrantsAreChecked'
<1> SUFFICES ASSUME AccessInv, [Next]_vars, NEW q \in Requests,
                    job'[q].at = "granted", ~job'[q].mfa,
                    job'[q].user \notin reassigned'
             PROVE  roles'[job'[q].user] \cap MfaRequired = {}
  BY DEF GrantsAreChecked, NeedsMfa
<1> USE DEF AccessInv
<1>0. job[q] \in Job
  BY DEF TypeOK
<1>1. ASSUME NEW u \in Users, job'[q].user = u, status[u] # "absent",
             u \notin reassigned => ~NeedsMfa(u)
      PROVE  roles'[job'[q].user] \cap MfaRequired = {}
  BY <1>1, NeedsMfaStays DEF NeedsMfa
<1>2. CASE job'[q] = job[q]
  <2>1. job[q].user \in Users /\ status[job[q].user] # "absent"
    BY <1>0, <1>2, JobFields DEF UsersExist, Idle
  <2> QED
    BY <1>1, <1>2, <2>1 DEF GrantsAreChecked
<1>3. CASE ChooseEnrolment(q) \/ LogIn(q)
  <2>1. job[q].user \in Users /\ status[job[q].user] # "absent"
    BY <1>0, <1>3, JobFields DEF ChooseEnrolment, LogIn, Step, UsersExist, Idle
  <2>2. job'[q].user = job[q].user /\ ~NeedsMfa(job[q].user)
    BY <1>3 DEF ChooseEnrolment, LogIn, Become, Grant, Idle, TypeOK
  <2> QED
    BY <1>1, <2>1, <2>2
<1>4. CASE Rotate(q)
  <2>1. /\ job[q].session \in Sids /\ job[q].user \in Users
        /\ status[job[q].user] # "absent"
        /\ session[job[q].session] # Unused
        /\ session[job[q].session].user = job[q].user
    BY <1>0, <1>4, JobFields DEF Rotate, Step, UsersExist, HeldSessions, Idle
  <2>2. job'[q].user = job[q].user /\ job'[q].mfa = session[job[q].session].mfa
    BY <1>4 DEF Rotate, Become, Grant, TypeOK
  <2> QED
    BY <1>1, <2>1, <2>2 DEF MfaBeforePrivilege
<1>5. ASSUME NEW u \in Users,
             \/ ReadUser(q, u) \/ VerifyMfaChallenge(q, u)
             \/ FindInvitation(q, u)
             \/ \E r \in Roles : StartReassign(q, u, r)
             \/ \E k \in Revocations : StartRevoke(q, u, k)
      PROVE  FALSE
  BY <1>5 DEF ReadUser, VerifyMfaChallenge, FindInvitation, StartReassign,
              StartRevoke, Become, Grant, TypeOK
<1>6. ASSUME \/ \E s \in Sids : FindSession(q, s) \/ FindToLeave(q, s)
                                 \/ IssueTokens(q, s)
             \/ RevokeInactive(q) \/ Logout(q) \/ Activate(q) \/ Enrol(q)
             \/ Reassign(q) \/ CommitRevoke(q) \/ job'[q] = Idle
      PROVE  FALSE
  BY <1>6 DEF FindSession, FindToLeave, IssueTokens, RevokeInactive, Logout,
     Activate, Enrol, Reassign, CommitRevoke, Become, Idle, TypeOK
<1>7. CASE CheckUser(q)
  <2>1. job[q].at = "found"
    BY <1>7 DEF CheckUser, Step
  <2> QED
    BY <1>0, <1>7, <2>1, Checked DEF CheckUser, Become, TypeOK
<1> QED
  BY <1>2, <1>3, <1>4, <1>5, <1>6, <1>7, OwnSteps
  DEF AuthStep, UsersStep, Overtaken

LEMMA MfaBeforePrivilegeNext ==
  AccessInv /\ [Next]_vars => MfaBeforePrivilege'
<1> SUFFICES ASSUME AccessInv, [Next]_vars, NEW s \in Sids,
                    session'[s] # Unused, ~session'[s].mfa,
                    session'[s].user \notin reassigned'
             PROVE  roles'[session'[s].user] \cap MfaRequired = {}
  BY DEF MfaBeforePrivilege, NeedsMfa
<1> USE DEF AccessInv
<1>1. CASE SameOwner(s)
  <2>1. session[s] # Unused /\ session[s].user \in Users
        /\ status[session[s].user] # "absent"
    BY <1>1, SessionFields DEF SameOwner, UsersExist
  <2> QED
    BY <1>1, <2>1, NeedsMfaStays DEF SameOwner, MfaBeforePrivilege, NeedsMfa
<1>2. CASE Inserted(s)
  BY <1>2 DEF Inserted, GrantsAreChecked, NeedsMfa
<1> QED
  BY <1>1, <1>2, SessionsKeep

LEMMA AccessInit == Init => AccessInv
<1> SUFFICES ASSUME Init PROVE AccessInv
  OBVIOUS
<1>1. TypeOK /\ HeldSessions
  BY TypeInit, HeldInit
<1> QED
  BY <1>1 DEF Init, AccessInv, UsersExist, NobodyIsRoleless, GrantsAreChecked,
              MfaBeforePrivilege, Idle

LEMMA AccessNext == AccessInv /\ [Next]_vars => AccessInv'
BY TypeNext, HeldNext, UsersExistNext, NobodyIsRolelessNext,
   GrantsAreCheckedNext, MfaBeforePrivilegeNext DEF AccessInv

\* Neither an acceptance nor a login nor a refresh lets in a user whose roles
\* always required a TOTP check without one.
THEOREM MfaComesFirst == Spec => []MfaBeforePrivilege
<1>1. AccessInv => MfaBeforePrivilege
  BY DEF AccessInv
<1> QED
  BY AccessInit, AccessNext, <1>1, PTL DEF Spec

\* However role changes overlap, no user is left without a role.
THEOREM RolesRemain == Spec => []NobodyIsRoleless
<1>1. AccessInv => NobodyIsRoleless
  BY DEF AccessInv
<1> QED
  BY AccessInit, AccessNext, <1>1, PTL DEF Spec

-----------------------------------------------------------------------------
(* How far refreshes multiply a session *)

\* Only a revoked session has successors, or a refresh about to make one.
ParentsAreRevoked ==
  /\ \A s, t \in Sids : session[t] # Unused /\ session[t].from = s
       => session[s].state = "revoked"
  /\ \A q \in Requests, s \in Sids : job[q].at = "granted" /\ job[q].from = s
       => session[s].state = "revoked"

RotationInv ==
  TypeOK /\ HeldSessions /\ ParentsAreRevoked /\ SuccessorsAreBounded

\* What is granted to a request beyond its user: a parent only by Rotate.
LEMMA GrantedFrom ==
  ASSUME TypeOK, [Next]_vars, NEW q \in Requests, NEW s \in Sids,
         job'[q].at = "granted", job'[q].from = s
  PROVE  \/ job[q].at = "granted" /\ job[q].from = s
         \/ Rotate(q) /\ job[q].at = "cleared" /\ job[q].session = s
<1>1. CASE job'[q] = job[q]
  BY <1>1
<1>2. CASE job'[q] = Idle
  BY <1>2 DEF Idle
<1>3. CASE AuthStep(q) /\ ~CheckUser(q)
  BY <1>3 DEF AuthStep, ReadUser, VerifyMfaChallenge, FindSession, FindToLeave,
     IssueTokens, LogIn, RevokeInactive, Rotate, Logout, Become, Grant, Idle,
     Step, TypeOK
<1>4. CASE CheckUser(q)
  <2>1. job[q].at = "found" /\ job[q] \in Job
    BY <1>4 DEF CheckUser, Step, TypeOK
  <2> QED
    BY <1>4, <2>1, Checked DEF CheckUser, Become, TypeOK
<1>5. CASE UsersStep(q)
  BY <1>5 DEF UsersStep, StartReassign, StartRevoke, FindInvitation, Activate,
     ChooseEnrolment, Enrol, Reassign, CommitRevoke, Become, Grant, Idle, TypeOK
<1> QED
  BY <1>1, <1>2, <1>3, <1>4, <1>5, OwnSteps DEF Overtaken

LEMMA ParentsNext == RotationInv /\ [Next]_vars => ParentsAreRevoked'
<1> SUFFICES ASSUME RotationInv, [Next]_vars PROVE ParentsAreRevoked'
  OBVIOUS
<1> USE DEF RotationInv
<1>0. \A s \in Sids : session[s].state = "revoked" => session'[s].state = "revoked"
  BY SessionsKeep DEF SameOwner, Inserted, Unused
<1>1. ASSUME NEW s \in Sids, NEW t \in Sids, session'[t] # Unused,
             session'[t].from = s
      PROVE  session'[s].state = "revoked"
  BY <1>0, <1>1, SessionsKeep DEF SameOwner, Inserted, ParentsAreRevoked
<1>2. ASSUME NEW q \in Requests, NEW s \in Sids, job'[q].at = "granted",
             job'[q].from = s
      PROVE  session'[s].state = "revoked"
  <2>1. CASE job[q].at = "granted" /\ job[q].from = s
    BY <1>0, <2>1 DEF ParentsAreRevoked
  <2>2. CASE Rotate(q) /\ job[q].at = "cleared" /\ job[q].session = s
    <3>1. session[s] \in Session
      BY <2>2, SessionFields DEF HeldSessions
    <3> QED
      BY <2>2, <3>1 DEF Rotate, Revoke, Session
  <2> QED
    BY <1>2, <2>1, <2>2, GrantedFrom
<1> QED
  BY <1>1, <1>2 DEF ParentsAreRevoked

LEMMA Finite ==
  ASSUME NEW s
  PROVE  /\ IsFiniteSet(Successors(s)) /\ Cardinality(Successors(s)) \in Nat
         /\ IsFiniteSet(Claimants(s)) /\ Cardinality(Claimants(s)) \in Nat
         /\ Cardinality(Claimants(s)) <= Cardinality(Requests)
         /\ Cardinality(Requests) \in Nat
<1>1. Successors(s) \in SUBSET Sids /\ Claimants(s) \in SUBSET Requests
  BY DEF Successors, Claimants
<1>2. IsFiniteSet(Successors(s)) /\ IsFiniteSet(Claimants(s))
  BY <1>1, FS_Subset
<1> QED
  BY <1>1, <1>2, FS_Subset, FS_CardinalityType

\* The same of the next state.
LEMMA FiniteNext ==
  ASSUME NEW s
  PROVE  /\ IsFiniteSet(Successors(s)') /\ Cardinality(Successors(s)') \in Nat
         /\ IsFiniteSet(Claimants(s)') /\ Cardinality(Claimants(s)') \in Nat
         /\ Cardinality(Claimants(s)') <= Cardinality(Requests)
<1>1. Successors(s)' \in SUBSET Sids /\ Claimants(s)' \in SUBSET Requests
  BY DEF Successors, Claimants
<1>2. IsFiniteSet(Successors(s)') /\ IsFiniteSet(Claimants(s)')
  BY <1>1, FS_Subset
<1> QED
  BY <1>1, <1>2, FS_Subset, FS_CardinalityType

\* Nobody claims a revoked session who did not before: FindSession wants it
\* open, and the rest of a refresh keeps the session it found.
LEMMA NoNewClaimants ==
  ASSUME TypeOK, [Next]_vars, NEW s \in Sids, session[s].state = "revoked"
  PROVE  Claimants(s)' \subseteq Claimants(s)
<1> SUFFICES ASSUME NEW q \in Requests,
                    \/ job'[q].at \in {"found", "cleared"} /\ job'[q].session = s
                    \/ job'[q].at = "granted" /\ job'[q].from = s
             PROVE  q \in Claimants(s)
  BY DEF Claimants
<1>0. job[q] \in Job
  BY DEF TypeOK
<1>1. CASE job'[q].at = "granted" /\ job'[q].from = s
  BY <1>1, GrantedFrom DEF Claimants
<1>2. CASE job'[q].at \in {"found", "cleared"} /\ job'[q].session = s
  <2>1. CASE job'[q] = job[q]
    BY <1>2, <2>1 DEF Claimants
  <2>2. CASE CheckUser(q)
    <3>1. job[q].at = "found"
      BY <2>2 DEF CheckUser, Step
    <3>2. job'[q].session = job[q].session
      BY <1>0, <2>2, <3>1, Checked DEF CheckUser, Become, TypeOK
    <3> QED
      BY <1>2, <3>1, <3>2 DEF Claimants
  <2>3. ASSUME NEW t \in Sids, FindSession(q, t) PROVE FALSE
    BY <1>2, <2>3 DEF FindSession, Become, TypeOK
  <2>4. ASSUME \/ \E u \in Users : \/ ReadUser(q, u) \/ VerifyMfaChallenge(q, u)
                                   \/ FindInvitation(q, u)
                                   \/ \E r \in Roles : StartReassign(q, u, r)
                                   \/ \E k \in Revocations : StartRevoke(q, u, k)
               \/ \E t \in Sids : FindToLeave(q, t) \/ IssueTokens(q, t)
        PROVE  FALSE
    BY <1>2, <2>4 DEF ReadUser, VerifyMfaChallenge, FindInvitation,
       StartReassign, StartRevoke, FindToLeave, IssueTokens, Become, Grant,
       Idle, TypeOK
  <2>5. ASSUME \/ LogIn(q) \/ RevokeInactive(q) \/ Rotate(q) \/ Logout(q)
               \/ Activate(q) \/ ChooseEnrolment(q) \/ Enrol(q) \/ Reassign(q)
               \/ CommitRevoke(q) \/ job'[q] = Idle
        PROVE  FALSE
    BY <1>2, <2>5 DEF LogIn, RevokeInactive, Rotate, Logout, Activate,
       ChooseEnrolment, Enrol, Reassign, CommitRevoke, Become, Grant, Idle,
       TypeOK
  <2> QED
    BY <1>2, <2>1, <2>2, <2>3, <2>4, <2>5, OwnSteps
    DEF AuthStep, UsersStep, Overtaken
<1> QED
  BY <1>1, <1>2

\* A claimant of a revoked session that becomes a successor stops claiming.
LEMMA BoundNext == RotationInv /\ [Next]_vars => SuccessorsAreBounded'
<1> SUFFICES ASSUME RotationInv, [Next]_vars, NEW s \in Sids
             PROVE  Cardinality(Successors(s)') + Cardinality(Claimants(s)')
                      <= Cardinality(Requests)
  BY DEF SuccessorsAreBounded
<1> USE DEF RotationInv
<1>0. Cardinality(Successors(s)) + Cardinality(Claimants(s))
        <= Cardinality(Requests)
  BY DEF SuccessorsAreBounded
<1>1. CASE session[s].state # "revoked"
  <2>1. Successors(s)' = {}
    <3>1. /\ \A t \in Sids : ~(session[t] # Unused /\ session[t].from = s)
          /\ \A q \in Requests : ~(job[q].at = "granted" /\ job[q].from = s)
      BY <1>1 DEF ParentsAreRevoked
    <3>2. \A t \in Sids : ~(session'[t] # Unused /\ session'[t].from = s)
      BY <3>1, SessionsKeep DEF SameOwner, Inserted
    <3> QED
      BY <3>2 DEF Successors
  <2> QED
    BY <2>1, FiniteNext, Finite, FS_EmptySet
<1>2. CASE session[s].state = "revoked"
  <2>1. CASE \A q \in Requests, t \in Sids : ~IssueTokens(q, t)
    <3>1. Successors(s)' = Successors(s)
      BY <2>1, OwnersKeep DEF Successors, SameOwner
    <3>2. Cardinality(Claimants(s)') <= Cardinality(Claimants(s))
      BY <1>2, NoNewClaimants, Finite, FS_Subset
    <3> QED
      BY <1>0, <3>1, <3>2, Finite, FiniteNext
  <2>2. ASSUME NEW q \in Requests, NEW t \in Sids, IssueTokens(q, t)
        PROVE  Cardinality(Successors(s)') + Cardinality(Claimants(s)')
                 <= Cardinality(Requests)
    <3>1. /\ job[q].at = "granted" /\ session[t] = Unused
          /\ session'[t] # Unused /\ session'[t].from = job[q].from
          /\ \A r \in Sids : r # t => session'[r] = session[r]
          /\ job'[q] = Idle
      BY <2>2 DEF IssueTokens, Step, Become, Unused, TypeOK
    <3>2. Claimants(s)' \subseteq Claimants(s)
      BY <1>2, NoNewClaimants
    <3>3. CASE job[q].from = s
      <4>1. Successors(s)' = Successors(s) \cup {t} /\ t \notin Successors(s)
        BY <3>1, <3>3 DEF Successors
      <4>2. q \in Claimants(s) /\ q \notin Claimants(s)'
        BY <3>1, <3>3 DEF Claimants, Idle
      <4>3. Claimants(s)' \in SUBSET (Claimants(s) \ {q})
        BY <3>2, <4>2
      <4>4. Cardinality(Successors(s)') = Cardinality(Successors(s)) + 1
        BY <4>1, Finite, FS_AddElement
      <4>5. /\ IsFiniteSet(Claimants(s) \ {q})
            /\ Cardinality(Claimants(s) \ {q}) = Cardinality(Claimants(s)) - 1
        BY <4>2, Finite, FS_RemoveElement
      <4>6. Cardinality(Claimants(s)') <= Cardinality(Claimants(s)) - 1
        BY <4>3, <4>5, FS_Subset
      <4> QED
        BY <1>0, <4>4, <4>6, Finite, FiniteNext
    <3>4. CASE job[q].from # s
      <4>1. Successors(s)' = Successors(s)
        BY <3>1, <3>4 DEF Successors
      <4>2. Cardinality(Claimants(s)') <= Cardinality(Claimants(s))
        BY <3>2, Finite, FS_Subset
      <4> QED
        BY <1>0, <4>1, <4>2, Finite, FiniteNext
    <3> QED
      BY <3>3, <3>4
  <2> QED
    BY <2>1, <2>2
<1> QED
  BY <1>1, <1>2

LEMMA RotationInit == Init => RotationInv
<1> SUFFICES ASSUME Init PROVE RotationInv
  OBVIOUS
<1>1. TypeOK /\ HeldSessions
  BY TypeInit, HeldInit
<1>2. ParentsAreRevoked
  BY DEF Init, ParentsAreRevoked, Idle
<1>3. ASSUME NEW s \in Sids PROVE Successors(s) = {} /\ Claimants(s) = {}
  BY DEF Init, Successors, Claimants, Idle
<1>4. SuccessorsAreBounded
  BY <1>3, Finite, FS_EmptySet DEF SuccessorsAreBounded
<1> QED
  BY <1>1, <1>2, <1>4 DEF RotationInv

\* However often and however late the token of a session is presented, the
\* sessions made from it are at most as many as the requests in flight at once.
THEOREM RotationIsBounded == Spec => []SuccessorsAreBounded
<1>1. RotationInv /\ [Next]_vars => RotationInv'
  <2>1. RotationInv /\ [Next]_vars => TypeOK' /\ HeldSessions'
    BY TypeNext, HeldNext DEF RotationInv
  <2> QED
    BY <2>1, ParentsNext, BoundNext DEF RotationInv
<1>2. RotationInv => SuccessorsAreBounded
  BY DEF RotationInv
<1> QED
  BY RotationInit, <1>1, <1>2, PTL DEF Spec
=============================================================================
