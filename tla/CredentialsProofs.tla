------------------------- MODULE CredentialsProofs -------------------------
(***************************************************************************)
(* The lockout, the sessions and the links of Credentials, for any number  *)
(* of requests, passwords and links and any limit. The type invariant says *)
(* what a request can hold; beyond it, the counter needs no strengthening, *)
(* the sessions that a request about to open one is in the same case as    *)
(* the sessions that are open, and the links that what can still be found  *)
(* is not dead.                                                            *)
(***************************************************************************)
EXTENDS Credentials, TLAPS

FoundAlive ==
  /\ invited # None => Invitation \notin dead
  /\ link # None => link \notin dead

\* What a request goes by that is past its check, if no revocation has missed
\* it.
Matches(j, now, rest) ==
  /\ j.at \in {"clearing", "granted"} =>
       j.password = now \/ j.missed \/ j.password \in rest
  /\ j.at = "found" =>
       \/ j.session.password = now \/ j.missed
       \/ j.session.password \in rest

JobsMatchPassword == \A q \in Requests : Matches(job[q], password, replaced)

Matching == SessionsMatchPassword /\ JobsMatchPassword

IInv == TypeOK /\ LockoutCounts /\ Matching /\ FoundAlive

-----------------------------------------------------------------------------

LEMMA JobTypes ==
  ASSUME TypeOK, NEW q \in Requests
  PROVE  /\ job[q] = Idle <=> job[q].at = "idle"
         /\ Step(q, "failing") => job[q].count \in 0..(MaxWrong - 1)
         /\ Step(q, "clearing") \/ Step(q, "granted")
              => job[q].password \in Passwords /\ job[q].missed \in BOOLEAN
         /\ Step(q, "found") => /\ job[q].session \in Session
                                /\ job[q].session.password \in Passwords
                                /\ job[q].missed \in BOOLEAN
         /\ Step(q, "accepting") => job[q].password \in Passwords
         /\ Step(q, "resetting") => /\ job[q].password \in Passwords
                                    /\ job[q].token \in Links
BY DEF TypeOK, Job, Idle, Step, Session

\* A revocation changes of a request in flight only that it is missed.
LEMMA MissedJob ==
  ASSUME TypeOK, NEW q \in Requests
  PROVE  /\ Missed(q) \in Job
         /\ Missed(q).at = job[q].at
         /\ job[q].at \in {"clearing", "granted", "found"} => Missed(q).missed
<1>1. job[q] \in Job
  BY DEF TypeOK
<1>2. CASE job[q].at \in {"clearing", "granted"}
  <2>1. job[q] \in [at : {"clearing", "granted"}, password : Passwords,
                    missed : BOOLEAN]
    BY <1>1, <1>2 DEF Job, Idle
  <2>2. Missed(q) \in [at : {"clearing", "granted"}, password : Passwords,
                       missed : BOOLEAN]
    BY <1>2, <2>1 DEF Missed
  <2> QED
    BY <1>2, <2>1, <2>2 DEF Missed, Job
<1>3. CASE job[q].at = "found"
  <2>1. job[q] \in [at : {"found"}, session : Session, missed : BOOLEAN]
    BY <1>1, <1>3 DEF Job, Idle
  <2>2. Missed(q) \in [at : {"found"}, session : Session, missed : BOOLEAN]
    BY <1>3, <2>1 DEF Missed
  <2> QED
    BY <1>3, <2>1, <2>2 DEF Missed, Job
<1>4. CASE job[q].at \notin {"clearing", "granted", "found"}
  BY <1>1, <1>4 DEF Missed
<1> QED
  BY <1>2, <1>3, <1>4

\* After a revocation every request in flight counts as missed.
LEMMA MissedMatches ==
  ASSUME TypeOK, NEW q \in Requests, NEW now, NEW rest
  PROVE  Matches(Missed(q), now, rest)
BY MissedJob DEF Matches

LEMMA ZeroFits == 0 \in 0..MaxWrong /\ ~(0 >= MaxFailed)
BY CredentialsAssumption

LEMMA IdleIsJob == Idle \in Job /\ \A now, rest : Matches(Idle, now, rest)
BY DEF Job, Idle, Matches

LEMMA InitIInv == Init => IInv
<1> SUFFICES ASSUME Init PROVE IInv
  OBVIOUS
<1>1. TypeOK
  BY IdleIsJob, ZeroFits DEF Init, TypeOK
<1>2. LockoutCounts
  BY ZeroFits DEF Init, LockoutCounts
<1>3. Matching /\ FoundAlive
  BY IdleIsJob
  DEF Init, Matching, SessionsMatchPassword, JobsMatchPassword, FoundAlive
<1> QED
  BY <1>1, <1>2, <1>3 DEF IInv

\* A step of a request that leaves the password and what was replaced alone,
\* and opens no session.
LEMMA JobKeepsMatching ==
  ASSUME IInv, NEW q \in Requests, NEW j,
         Matches(j, password, replaced), Become(q, j),
         UNCHANGED <<password, replaced>>, session' \subseteq session
  PROVE  Matching'
<1>1. \A p \in Requests : job'[p] = j \/ job'[p] = job[p]
  BY DEF Become, IInv, TypeOK
<1>2. JobsMatchPassword'
  BY <1>1 DEF IInv, Matching, JobsMatchPassword
<1>3. SessionsMatchPassword'
  BY DEF IInv, Matching, SessionsMatchPassword
<1> QED
  BY <1>2, <1>3 DEF Matching

\* A revocation of all sessions, whatever password there is afterwards.
LEMMA RevocationKeepsMatching ==
  ASSUME IInv, RevokeAll,
         \A p \in Requests : job'[p] = Missed(p) \/ job'[p] = Idle
  PROVE  Matching'
<1>1. JobsMatchPassword'
  BY MissedMatches, IdleIsJob DEF IInv, JobsMatchPassword
<1> QED
  BY <1>1 DEF Matching, SessionsMatchPassword, RevokeAll

\* A step of a request that only changes what the request holds.
LEMMA JobKeepsIInv ==
  ASSUME IInv, NEW q \in Requests, NEW j \in Job,
         Matches(j, password, replaced), Become(q, j),
         UNCHANGED <<row, session, history>>
  PROVE  IInv'
<1>1. TypeOK'
  BY DEF IInv, TypeOK, Become, row, history
<1>2. Matching'
  BY JobKeepsMatching DEF row, history
<1>3. LockoutCounts' /\ FoundAlive'
  BY DEF IInv, LockoutCounts, FoundAlive, row, history
<1> QED
  BY <1>1, <1>2, <1>3 DEF IInv

LEMMA AttemptKeepsIInv ==
  ASSUME IInv, NEW q \in Requests, NEW typed \in Passwords, Attempt(q, typed)
  PROVE  IInv'
<1> DEFINE j == IF typed = password
                THEN [at |-> "clearing", password |-> typed, missed |-> FALSE]
                ELSE [at |-> "failing", count |-> failed]
<1>1. failed \in 0..(MaxWrong - 1)
  BY CredentialsAssumption DEF Attempt, IInv, TypeOK
<1>2. j \in Job
  BY <1>1 DEF Job
<1>3. Matches(j, password, replaced)
  BY DEF Matches
<1>4. Become(q, j) /\ UNCHANGED <<row, session, history>>
  BY DEF Attempt
<1> HIDE DEF j
<1> QED
  BY <1>2, <1>3, <1>4, JobKeepsIInv

LEMMA FindKeepsIInv ==
  ASSUME IInv, NEW q \in Requests, NEW typed \in Passwords,
         FindInvitation(q, typed) \/ FindLink(q, typed)
  PROVE  IInv'
<1>1. CASE FindInvitation(q, typed)
  <2> DEFINE j == [at |-> "accepting", password |-> typed, token |-> Invitation]
  <2>1. j \in Job /\ Matches(j, password, replaced)
    BY DEF Job, Matches
  <2>2. Become(q, j) /\ UNCHANGED <<row, session, history>>
    BY <1>1 DEF FindInvitation
  <2> HIDE DEF j
  <2> QED
    BY <2>1, <2>2, JobKeepsIInv
<1>2. CASE FindLink(q, typed)
  <2> DEFINE j == [at |-> "resetting", password |-> typed, token |-> link]
  <2>1. j \in Job /\ Matches(j, password, replaced)
    BY <1>2 DEF FindLink, Job, Matches, IInv, TypeOK
  <2>2. Become(q, j) /\ UNCHANGED <<row, session, history>>
    BY <1>2 DEF FindLink
  <2> HIDE DEF j
  <2> QED
    BY <2>1, <2>2, JobKeepsIInv
<1> QED
  BY <1>1, <1>2

\* A refresh holds what its session is.
LEMMA FindSessionKeepsIInv ==
  ASSUME IInv, NEW q \in Requests, FindSession(q)
  PROVE  IInv'
<1> PICK s \in session :
      /\ Become(q, [at |-> "found", session |-> s, missed |-> s.missed])
      /\ UNCHANGED <<row, session, history>>
  BY DEF FindSession
<1> DEFINE j == [at |-> "found", session |-> s, missed |-> s.missed]
<1>1. s \in Session
  BY DEF IInv, TypeOK
<1>2. j \in Job
  BY <1>1 DEF Job, Session
<1>3. Matches(j, password, replaced)
  BY DEF Matches, IInv, Matching, SessionsMatchPassword
<1>4. Become(q, j)
  OBVIOUS
<1> HIDE DEF j
<1> QED
  BY <1>2, <1>3, <1>4, JobKeepsIInv

LEMMA RotateKeepsIInv ==
  ASSUME IInv, NEW q \in Requests, Rotate(q)
  PROVE  IInv'
<1> DEFINE j == [at |-> "granted", password |-> job[q].session.password,
                 missed |-> job[q].missed]
<1>1. j \in Job
  BY JobTypes DEF Rotate, IInv, Job
<1>2. Matches(j, password, replaced)
  BY DEF Rotate, Step, Matches, IInv, Matching, JobsMatchPassword
<1>3. /\ Become(q, j) /\ UNCHANGED <<row, history>>
      /\ session' \subseteq session
  BY DEF Rotate
<1> HIDE DEF j
<1>4. TypeOK'
  BY <1>1, <1>3 DEF IInv, TypeOK, Become, row, history
<1>5. Matching'
  BY <1>2, <1>3, JobKeepsMatching DEF row, history
<1>6. LockoutCounts' /\ FoundAlive'
  BY <1>3 DEF IInv, LockoutCounts, FoundAlive, row, history
<1> QED
  BY <1>4, <1>5, <1>6 DEF IInv

LEMMA RegisterFailedLoginKeepsIInv ==
  ASSUME IInv, NEW q \in Requests, RegisterFailedLogin(q)
  PROVE  IInv'
<1>1. job[q].count \in 0..(MaxWrong - 1) /\ MaxWrong \in Nat /\ MaxFailed \in Nat
  BY JobTypes, CredentialsAssumption DEF RegisterFailedLogin, IInv
<1>2. TypeOK'
  BY <1>1, IdleIsJob DEF RegisterFailedLogin, IInv, TypeOK, Become
<1>3. LockoutCounts'
  BY <1>1 DEF RegisterFailedLogin, IInv, TypeOK, LockoutCounts, Reached
<1>4. Matching'
  BY IdleIsJob, JobKeepsMatching DEF RegisterFailedLogin
<1>5. FoundAlive'
  BY DEF RegisterFailedLogin, IInv, FoundAlive
<1> QED
  BY <1>2, <1>3, <1>4, <1>5 DEF IInv

LEMMA ClearFailuresKeepsIInv ==
  ASSUME IInv, NEW q \in Requests, ClearFailures(q)
  PROVE  IInv'
<1> DEFINE j == [job[q] EXCEPT !.at = "granted"]
<1>1. job[q] \in [at : {"clearing", "granted"}, password : Passwords,
                  missed : BOOLEAN]
  BY DEF ClearFailures, Step, IInv, TypeOK, Job, Idle
<1>2. j \in Job
  BY <1>1 DEF Job
<1>3. /\ j.at = "granted" /\ j.password = job[q].password
      /\ j.missed = job[q].missed
  BY <1>1
<1>4. Matches(j, password, replaced)
  BY <1>3 DEF ClearFailures, Step, Matches, IInv, Matching, JobsMatchPassword
<1>5. Become(q, j)
  BY DEF ClearFailures
<1> HIDE DEF j
<1>6. TypeOK'
  BY <1>2, <1>5, ZeroFits DEF ClearFailures, IInv, TypeOK, Become
<1>7. LockoutCounts'
  BY ZeroFits DEF ClearFailures, LockoutCounts
<1>8. Matching'
  BY <1>4, <1>5, JobKeepsMatching DEF ClearFailures
<1>9. FoundAlive'
  BY DEF ClearFailures, IInv, FoundAlive
<1> QED
  BY <1>6, <1>7, <1>8, <1>9 DEF IInv

LEMMA OpenSessionKeepsIInv ==
  ASSUME IInv, NEW q \in Requests, OpenSession(q)
  PROVE  IInv'
<1> DEFINE s == [password |-> job[q].password, missed |-> job[q].missed]
<1>1. s \in Session
  BY JobTypes DEF OpenSession, IInv, Session
<1>2. TypeOK'
  BY <1>1, IdleIsJob DEF OpenSession, IInv, TypeOK, Become, row, history
<1>3. Matching'
  <2>1. s.password = password \/ s.missed \/ s.password \in replaced
    BY DEF OpenSession, Step, Matches, IInv, Matching, JobsMatchPassword
  <2>2. /\ session' = session \cup {s}
        /\ password' = password /\ replaced' = replaced
    BY DEF OpenSession, row, history
  <2> HIDE DEF s
  <2>3. SessionsMatchPassword'
    BY <2>1, <2>2 DEF IInv, Matching, SessionsMatchPassword
  <2>4. \A p \in Requests : job'[p] = Idle \/ job'[p] = job[p]
    BY DEF OpenSession, Become, IInv, TypeOK
  <2>5. JobsMatchPassword'
    BY <2>2, <2>4, IdleIsJob DEF IInv, Matching, JobsMatchPassword
  <2> QED
    BY <2>3, <2>5 DEF Matching
<1>4. LockoutCounts' /\ FoundAlive'
  BY DEF OpenSession, IInv, LockoutCounts, FoundAlive, row, history
<1> QED
  BY <1>2, <1>3, <1>4 DEF IInv

\* The sessions of the password that is replaced are accounted for.
LEMMA ActivateKeepsIInv ==
  ASSUME IInv, NEW q \in Requests, Activate(q)
  PROVE  IInv'
<1> DEFINE j == [at |-> "granted", password |-> job[q].password,
                 missed |-> FALSE]
<1>1. job[q].password \in Passwords
  BY JobTypes DEF Activate, IInv
<1>2. j \in Job
  BY <1>1 DEF Job
<1>3. Become(q, j) /\ password' = job[q].password
      /\ replaced' = replaced \cup ({password} \ {None})
  BY DEF Activate
<1>4. Matches(j, password', replaced')
  BY <1>3 DEF Matches
<1> HIDE DEF j
<1>5. TypeOK'
  BY <1>1, <1>2, <1>3 DEF Activate, IInv, TypeOK, Become, Tokens
<1>6. ASSUME NEW p \in Passwords,
             NEW missed, p = password \/ missed \/ p \in replaced
      PROVE  p = password' \/ missed \/ p \in replaced'
  BY <1>3, <1>6, CredentialsAssumption
<1>7. SessionsMatchPassword'
  <2>1. \A s \in session : s.password \in Passwords
    BY DEF IInv, TypeOK, Session
  <2>2. session' = session
    BY DEF Activate
  <2> QED
    BY <1>6, <2>1, <2>2 DEF IInv, Matching, SessionsMatchPassword
<1>8. JobsMatchPassword'
  <2> SUFFICES ASSUME NEW p \in Requests PROVE Matches(job'[p], password', replaced')
    BY DEF JobsMatchPassword
  <2>1. CASE p = q
    BY <1>3, <1>4, <2>1 DEF Become, IInv, TypeOK
  <2>2. CASE p # q
    <3>1. job'[p] = job[p]
      BY <1>3, <2>2 DEF Become, IInv, TypeOK
    <3>2. /\ job[p].at \in {"clearing", "granted"}
               => job[p].password \in Passwords
          /\ job[p].at = "found" => job[p].session.password \in Passwords
      BY JobTypes DEF IInv, Step
    <3>3. Matches(job[p], password, replaced)
      BY DEF IInv, Matching, JobsMatchPassword
    <3> QED
      BY <1>6, <3>1, <3>2, <3>3 DEF Matches
  <2> QED
    BY <2>1, <2>2
<1>9. LockoutCounts'
  BY DEF Activate, IInv, LockoutCounts
<1>10. FoundAlive'
  BY CredentialsAssumption DEF Activate, IInv, TypeOK, FoundAlive
<1> QED
  BY <1>5, <1>7, <1>8, <1>9, <1>10 DEF IInv, Matching

LEMMA NewLinkKeepsIInv ==
  ASSUME IInv, NEW t \in Links, Forgot(t) \/ ResetCredentials(t)
  PROVE  IInv'
<1>1. CASE Forgot(t)
  <2>1. TypeOK'
    BY <1>1 DEF Forgot, IInv, TypeOK, Tokens
  <2>2. LockoutCounts' /\ Matching'
    BY <1>1 DEF Forgot, IInv, LockoutCounts, Matching, SessionsMatchPassword,
       JobsMatchPassword, Matches
  <2>3. FoundAlive'
    BY <1>1, CredentialsAssumption DEF Forgot, IInv, TypeOK, FoundAlive
  <2> QED
    BY <2>1, <2>2, <2>3 DEF IInv
<1>2. CASE ResetCredentials(t)
  <2>1. job' \in [Requests -> Job]
    BY <1>2, MissedJob DEF ResetCredentials, IInv
  <2>2. TypeOK'
    BY <1>2, <2>1 DEF ResetCredentials, RevokeAll, IInv, TypeOK, Tokens
  <2>3. LockoutCounts'
    BY <1>2 DEF ResetCredentials, IInv, LockoutCounts
  <2>4. Matching'
    BY <1>2, RevocationKeepsMatching DEF ResetCredentials
  <2>5. FoundAlive'
    BY <1>2, CredentialsAssumption DEF ResetCredentials, IInv, TypeOK, FoundAlive
  <2> QED
    BY <2>2, <2>3, <2>4, <2>5 DEF IInv
<1> QED
  BY <1>1, <1>2

LEMMA ResetPasswordKeepsIInv ==
  ASSUME IInv, NEW q \in Requests, ResetPassword(q)
  PROVE  IInv'
<1>1. job[q].password \in Passwords /\ job[q].token \in Links
  BY JobTypes DEF ResetPassword, IInv
<1>2. TypeOK'
  <2>1. job' \in [Requests -> Job]
    BY IdleIsJob, MissedJob DEF ResetPassword, IInv
  <2>2. dead' \subseteq Tokens
    BY <1>1 DEF ResetPassword, IInv, TypeOK, Tokens
  <2> QED
    BY <1>1, <2>1, <2>2, ZeroFits DEF ResetPassword, RevokeAll, IInv, TypeOK
<1>3. LockoutCounts'
  BY ZeroFits DEF ResetPassword, LockoutCounts
<1>4. Matching'
  BY RevocationKeepsMatching DEF ResetPassword
<1>5. FoundAlive'
  BY <1>1, CredentialsAssumption DEF ResetPassword, IInv, TypeOK, FoundAlive
<1> QED
  BY <1>2, <1>3, <1>4, <1>5 DEF IInv

LEMMA RevokeSessionsKeepsIInv ==
  ASSUME IInv, RevokeSessions
  PROVE  IInv'
<1>1. job' \in [Requests -> Job]
  BY MissedJob DEF RevokeSessions, IInv
<1>2. TypeOK'
  BY <1>1 DEF RevokeSessions, RevokeAll, IInv, TypeOK, row
<1>3. LockoutCounts' /\ FoundAlive'
  BY DEF RevokeSessions, IInv, LockoutCounts, FoundAlive, row
<1>4. Matching'
  BY RevocationKeepsMatching DEF RevokeSessions
<1> QED
  BY <1>2, <1>3, <1>4 DEF IInv

\* What time does.
LEMMA TimeKeepsIInv ==
  ASSUME IInv, LockEnds \/ ExpireLink \/ ExpireInvitation
  PROVE  IInv'
<1>1. TypeOK'
  BY DEF LockEnds, ExpireLink, ExpireInvitation, IInv, TypeOK, Tokens, history
<1>2. LockoutCounts'
  BY DEF LockEnds, ExpireLink, ExpireInvitation, IInv, LockoutCounts, history
<1>3. Matching'
  BY DEF LockEnds, ExpireLink, ExpireInvitation, IInv, Matching,
     SessionsMatchPassword, JobsMatchPassword, Matches, history
<1>4. FoundAlive'
  BY CredentialsAssumption DEF LockEnds, ExpireLink,
     ExpireInvitation, IInv, TypeOK, FoundAlive, history
<1> QED
  BY <1>1, <1>2, <1>3, <1>4 DEF IInv

LEMMA FailKeepsIInv ==
  ASSUME IInv, NEW q \in Requests, Fail(q)
  PROVE  IInv'
BY IdleIsJob, JobKeepsIInv DEF Fail

LEMMA NextIInv == IInv /\ [Next]_vars => IInv'
<1> SUFFICES ASSUME IInv, [Next]_vars PROVE IInv'
  OBVIOUS
<1>1. CASE UNCHANGED vars
  BY <1>1 DEF vars, row, history, IInv, TypeOK, LockoutCounts, Matching,
     SessionsMatchPassword, JobsMatchPassword, Matches, FoundAlive
<1>2. CASE \E q \in Requests, p \in Passwords :
             Attempt(q, p) \/ FindInvitation(q, p) \/ FindLink(q, p)
  BY <1>2, AttemptKeepsIInv, FindKeepsIInv
<1>3. CASE \E q \in Requests :
             \/ RegisterFailedLogin(q) \/ ClearFailures(q) \/ OpenSession(q)
             \/ FindSession(q) \/ Rotate(q)
             \/ Activate(q) \/ ResetPassword(q) \/ Fail(q)
  BY <1>3, RegisterFailedLoginKeepsIInv, ClearFailuresKeepsIInv,
     OpenSessionKeepsIInv, FindSessionKeepsIInv, RotateKeepsIInv,
     ActivateKeepsIInv, ResetPasswordKeepsIInv, FailKeepsIInv
<1>4. CASE \E t \in Links : Forgot(t) \/ ResetCredentials(t)
  BY <1>4, NewLinkKeepsIInv
<1>5. CASE LockEnds \/ RevokeSessions \/ ExpireLink \/ ExpireInvitation
  BY <1>5, TimeKeepsIInv, RevokeSessionsKeepsIInv
<1> QED
  BY <1>1, <1>2, <1>3, <1>4, <1>5 DEF Next

LEMMA Inductive == Spec => []IInv
BY InitIInv, NextIInv, PTL DEF Spec

\* Every column and every request holds what it can hold.
THEOREM TypeCorrect == Spec => []TypeOK
<1>1. IInv => TypeOK
  BY DEF IInv
<1> QED
  BY <1>1, Inductive, PTL

\* Unless two failures overlapped, the counter is the number of wrong
\* passwords since it was cleared and the lock has come exactly at the limit.
THEOREM LockoutIsExact == Spec => []LockoutCounts
<1>1. IInv => LockoutCounts
  BY DEF IInv
<1> QED
  BY <1>1, Inductive, PTL

\* A session goes back to a login or acceptance with the password that the
\* user has, unless it was refreshed or opened by a request past its check when
\* a revocation came, or goes back to an acceptance that another one replaced.
THEOREM SessionsFollowPassword == Spec => []SessionsMatchPassword
<1>1. IInv => SessionsMatchPassword
  BY DEF IInv, Matching
<1> QED
  BY <1>1, Inductive, PTL

\* No request begins with a link that was used, replaced or has expired.
THEOREM LinksWorkOnce == Spec => LinksAreSpent
<1> DEFINE Begins(q) ==
      job[q] = Idle /\ job'[q].at \in {"accepting", "resetting"}
        => job'[q].token \notin dead
<1>1. IInv /\ [Next]_vars => [\A q \in Requests : Begins(q)]_vars
  <2> SUFFICES ASSUME IInv, Next, NEW q \in Requests, job[q] = Idle,
                      job'[q].at \in {"accepting", "resetting"}
               PROVE  job'[q].token \notin dead
    OBVIOUS
  <2>1. job' # job
    BY DEF Idle
  <2>2. CASE \E r \in Requests, p \in Passwords : Attempt(r, p)
    BY <2>2 DEF Attempt, Become, IInv, TypeOK, Idle
  <2>3. CASE \E r \in Requests, p \in Passwords : FindInvitation(r, p)
    BY <2>3, CredentialsAssumption
    DEF FindInvitation, Become, IInv, TypeOK, FoundAlive, Idle
  <2>4. CASE \E r \in Requests, p \in Passwords : FindLink(r, p)
    BY <2>4 DEF FindLink, Become, IInv, TypeOK, FoundAlive, Idle
  <2>5. CASE \E r \in Requests :
               \/ RegisterFailedLogin(r) \/ OpenSession(r)
               \/ Rotate(r) \/ Activate(r) \/ Fail(r)
    BY <2>5 DEF RegisterFailedLogin, OpenSession, Rotate, Activate, Fail,
       Become, IInv, TypeOK, Idle
  <2>6. CASE \E r \in Requests : FindSession(r) \/ ClearFailures(r)
    <3>1. PICK r \in Requests : FindSession(r) \/ ClearFailures(r)
      BY <2>6
    <3>2. CASE FindSession(r)
      BY <3>2 DEF FindSession, Become, IInv, TypeOK, Idle
    <3>3. CASE ClearFailures(r)
      BY <3>3 DEF ClearFailures, Become, IInv, TypeOK, Idle, Step
    <3> QED
      BY <3>1, <3>2, <3>3
  <2>7. CASE \/ \E r \in Requests : ResetPassword(r)
             \/ \E t \in Links : ResetCredentials(t)
             \/ RevokeSessions
    <3>1. job'[q] = Missed(q) \/ job'[q] = Idle
      BY <2>7 DEF ResetPassword, ResetCredentials, RevokeSessions
    <3> QED
      BY <3>1 DEF Missed, Idle
  <2>8. CASE \/ \E t \in Links : Forgot(t)
             \/ LockEnds \/ ExpireLink \/ ExpireInvitation
    BY <2>1, <2>8 DEF Forgot, LockEnds, ExpireLink, ExpireInvitation
  <2> QED
    BY <2>2, <2>3, <2>4, <2>5, <2>6, <2>7, <2>8 DEF Next
<1> QED
  BY <1>1, Inductive, PTL DEF Spec, LinksAreSpent
=============================================================================
