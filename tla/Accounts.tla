------------------------------ MODULE Accounts ------------------------------
(***************************************************************************)
(* Platform users and their sessions: AuthService (src/apps/api/src/auth)  *)
(* and UsersService (src/apps/api/src/users), which share the tables       *)
(* platform_users, user_roles, mfa_methods and sessions.                   *)
(*                                                                         *)
(* A handler is a sequence of statements; job[q] is how far the handler of *)
(* request q has got and what it holds. Each step below is one statement,  *)
(* or one transaction whose statements all name rows by what an earlier    *)
(* step read. A request refused by a check at its first read changes       *)
(* nothing and is not a step. Fail is an error or a crash after any step.  *)
(*                                                                         *)
(* Passwords, codes and tokens are always the right ones: a wrong one is   *)
(* refused. The failed-login lockout and the audit events are left out,    *)
(* and so is the access token, which no table remembers. The login         *)
(* challenge is a signed token with an expiry, so any number of uses of it *)
(* are good while it lives.                                                *)
(***************************************************************************)
EXTENDS Naturals, FiniteSets

CONSTANTS
  Users,          \* ids of platform_users rows
  Roles,          \* role codes
  MfaRequired,    \* MFA_REQUIRED_ROLE_CODES
  Sids,           \* ids of sessions rows; bounds how many are ever made
  Requests,       \* the requests the API can have in flight
  NoSession       \* the parent of a session that no refresh made

ASSUME AccountsAssumption ==
  /\ MfaRequired \subseteq Roles
  /\ NoSession \notin Sids
  /\ IsFiniteSet(Sids) /\ IsFiniteSet(Requests)

VARIABLES
  status,       \* status of each user, "absent" before the row exists
  invitation,   \* users whose invitation token is stored and unexpired
  roles,        \* the user_roles of each user
  method,       \* the TOTP mfa_methods row of each user
  challenge,    \* users with an unexpired challenge token
  session,      \* the sessions table
  job,          \* what each request is doing
  reassigned    \* history: users whose roles an update has changed

accountVars == <<status, invitation, roles, method>>
vars == <<accountVars, challenge, session, job, reassigned>>

Statuses == {"absent", "invited", "active", "suspended"}
Methods == {"none", "pending", "verified"}

\* A sessions row. "open" is revokedAt null and unexpired, "lapsed" is
\* revokedAt null past expiresAt. from is the session whose refresh made it
\* and mfa tells whether its first login passed a TOTP check: both history.
Session == [state : {"open", "lapsed", "revoked"}, user : Users,
            from : Sids \cup {NoSession}, mfa : BOOLEAN]
Unused == [state |-> "unused"]

\* suspend and reset (resetPassword, resetCredentials) also write the user.
Revocations == {"suspend", "reset", "sessions"}

Idle == [at |-> "idle"]
Job ==
  {Idle}
  \cup [at : {"checked"}, user : Users, method : Methods]
  \cup [at : {"accepting", "activated", "enrolling"}, user : Users]
  \cup [at : {"granted"}, user : Users, from : Sids \cup {NoSession},
        mfa : BOOLEAN]
  \cup [at : {"found", "cleared", "doomed", "leaving"}, user : Users,
        session : Sids]
  \cup [at : {"reassigning"}, user : Users, seen : SUBSET Roles, role : Roles]
  \cup [at : {"revoking"}, user : Users, seen : SUBSET Sids,
        kind : Revocations]

Init ==
  /\ status = [u \in Users |-> "absent"]
  /\ invitation = {}
  /\ roles = [u \in Users |-> {}]
  /\ method = [u \in Users |-> "none"]
  /\ challenge = {}
  /\ session = [s \in Sids |-> Unused]
  /\ job = [q \in Requests |-> Idle]
  /\ reassigned = {}

Step(q, at) == job[q].at = at
Become(q, j) == job' = [job EXCEPT ![q] = j]
Revoke(S) ==
  session' = [s \in Sids |->
                IF s \in S /\ session[s].state \in {"open", "lapsed"}
                THEN [session[s] EXCEPT !.state = "revoked"]
                ELSE session[s]]

NeedsMfa(u) == roles[u] \cap MfaRequired /= {}
Grant(u, from, mfa) ==
  [at |-> "granted", user |-> u, from |-> from, mfa |-> mfa]

\* The row lock that the first statement of the suspend and reset
\* transactions takes on the user until they commit.
UserLocked(u) ==
  \E q \in Requests :
    /\ Step(q, "revoking")
    /\ job[q].user = u /\ job[q].kind /= "sessions"

-----------------------------------------------------------------------------
(* Invitations *)

\* email is UNIQUE, so of two invitations of one address one fails.
Invite(u, r) ==
  /\ status[u] = "absent"
  /\ status' = [status EXCEPT ![u] = "invited"]
  /\ invitation' = invitation \cup {u}
  /\ roles' = [roles EXCEPT ![u] = {r}]
  /\ UNCHANGED <<method, challenge, session, job, reassigned>>

ExpireInvitation(u) ==
  /\ u \in invitation
  /\ invitation' = invitation \ {u}
  /\ UNCHANGED <<status, roles, method, challenge, session, job, reassigned>>

\* Mutant of FindInvitation: the token alone is enough.
FindAnyInvitation(q, u) ==
  /\ job[q] = Idle
  /\ u \in invitation
  /\ Become(q, [at |-> "accepting", user |-> u])
  /\ UNCHANGED <<accountVars, challenge, session, reassigned>>

FindInvitation(q, u) ==
  /\ job[q] = Idle
  /\ u \in invitation /\ status[u] = "invited"
  /\ Become(q, [at |-> "accepting", user |-> u])
  /\ UNCHANGED <<accountVars, challenge, session, reassigned>>

\* Names the user by id: what happened since FindInvitation is not seen.
Activate(q) ==
  /\ Step(q, "accepting")
  /\ LET u == job[q].user IN
       /\ ~UserLocked(u)
       /\ status' = [status EXCEPT ![u] = "active"]
       /\ invitation' = invitation \ {u}
       /\ Become(q, [at |-> "activated", user |-> u])
  /\ UNCHANGED <<roles, method, challenge, session, reassigned>>

\* Mutant of ChooseEnrolment: everybody is let in at once.
SkipEnrolment(q) ==
  /\ Step(q, "activated")
  /\ Become(q, Grant(job[q].user, NoSession, FALSE))
  /\ UNCHANGED <<accountVars, challenge, session, reassigned>>

ChooseEnrolment(q) ==
  /\ Step(q, "activated")
  /\ LET u == job[q].user IN
       Become(q, IF NeedsMfa(u) THEN [at |-> "enrolling", user |-> u]
                                ELSE Grant(u, NoSession, FALSE))
  /\ UNCHANGED <<accountVars, challenge, session, reassigned>>

\* (userId, type) is UNIQUE: a second enrolment ends in an error (Fail).
Enrol(q) ==
  /\ Step(q, "enrolling")
  /\ LET u == job[q].user IN
       /\ method[u] = "none"
       /\ method' = [method EXCEPT ![u] = "pending"]
       /\ challenge' = challenge \cup {u}
  /\ Become(q, Idle)
  /\ UNCHANGED <<status, invitation, roles, session, reassigned>>

-----------------------------------------------------------------------------
(* Login *)

\* Reads the user and its method, then verifies the password.
ReadUser(q, u) ==
  /\ job[q] = Idle
  /\ status[u] = "active"
  /\ Become(q, [at |-> "checked", user |-> u, method |-> method[u]])
  /\ UNCHANGED <<accountVars, challenge, session, reassigned>>

\* Resets the lockout counter, reads the roles and decides. The last
\* disjunct answers 403.
LogIn(q) ==
  /\ Step(q, "checked")
  /\ LET u == job[q].user IN
       /\ ~UserLocked(u)
       /\ \/ /\ job[q].method = "verified"
             /\ challenge' = challenge \cup {u}
             /\ Become(q, Idle)
          \/ /\ job[q].method /= "verified" /\ ~NeedsMfa(u)
             /\ Become(q, Grant(u, NoSession, FALSE))
             /\ UNCHANGED challenge
          \/ /\ job[q].method /= "verified" /\ NeedsMfa(u)
             /\ Become(q, Idle)
             /\ UNCHANGED challenge
  /\ UNCHANGED <<accountVars, session, reassigned>>

\* The challenge of a login and that of an enrolment are verified alike.
\* The status of the user is not read again.
VerifyMfaChallenge(q, u) ==
  /\ job[q] = Idle
  /\ u \in challenge /\ method[u] /= "none"
  /\ method' = [method EXCEPT ![u] = "verified"]
  /\ Become(q, Grant(u, NoSession, TRUE))
  /\ UNCHANGED <<status, invitation, roles, challenge, session, reassigned>>

ExpireChallenge(u) ==
  /\ u \in challenge
  /\ challenge' = challenge \ {u}
  /\ UNCHANGED <<accountVars, session, job, reassigned>>

IssueTokens(q, s) ==
  /\ Step(q, "granted")
  /\ session[s] = Unused
  /\ session' = [session EXCEPT ![s] =
       [state |-> "open", user |-> job[q].user, from |-> job[q].from,
        mfa |-> job[q].mfa]]
  /\ Become(q, Idle)
  /\ UNCHANGED <<accountVars, challenge, reassigned>>

-----------------------------------------------------------------------------
(* Refresh and logout *)

\* Mutant of FindSession: revokedAt is not part of the query.
FindRevokedToo(q, s) ==
  /\ job[q] = Idle
  /\ session[s].state \in {"open", "revoked"}
  /\ Become(q, [at |-> "found", user |-> session[s].user, session |-> s])
  /\ UNCHANGED <<accountVars, challenge, session, reassigned>>

FindSession(q, s) ==
  /\ job[q] = Idle
  /\ session[s].state = "open"
  /\ Become(q, [at |-> "found", user |-> session[s].user, session |-> s])
  /\ UNCHANGED <<accountVars, challenge, session, reassigned>>

CheckUser(q) ==
  /\ Step(q, "found")
  /\ Become(q, [job[q] EXCEPT
       !.at = IF status[job[q].user] = "active" THEN "cleared" ELSE "doomed"])
  /\ UNCHANGED <<accountVars, challenge, session, reassigned>>

RevokeInactive(q) ==
  /\ Step(q, "doomed")
  /\ Revoke({job[q].session})
  /\ Become(q, Idle)
  /\ UNCHANGED <<accountVars, challenge, reassigned>>

\* Names the session by id: it may have been revoked since FindSession.
Rotate(q) ==
  /\ Step(q, "cleared")
  /\ LET s == job[q].session IN
       /\ Revoke({s})
       /\ Become(q, Grant(job[q].user, s, session[s].mfa))
  /\ UNCHANGED <<accountVars, challenge, reassigned>>

FindToLeave(q, s) ==
  /\ job[q] = Idle
  /\ session[s].state \in {"open", "lapsed"}
  /\ Become(q, [at |-> "leaving", user |-> session[s].user, session |-> s])
  /\ UNCHANGED <<accountVars, challenge, session, reassigned>>

Logout(q) ==
  /\ Step(q, "leaving")
  /\ Revoke({job[q].session})
  /\ Become(q, Idle)
  /\ UNCHANGED <<accountVars, challenge, reassigned>>

Lapse(s) ==
  /\ session[s].state = "open"
  /\ session' = [session EXCEPT ![s].state = "lapsed"]
  /\ UNCHANGED <<accountVars, challenge, job, reassigned>>

-----------------------------------------------------------------------------
(* Administration *)

\* Mutant of StartReassign: the delete commits on its own.
StartReassignApart(q, u, r) ==
  /\ job[q] = Idle
  /\ status[u] /= "absent"
  /\ roles' = [roles EXCEPT ![u] = {}]
  /\ Become(q, [at |-> "reassigning", user |-> u, seen |-> roles[u], role |-> r])
  /\ UNCHANGED <<status, invitation, method, challenge, session, reassigned>>

\* Under READ COMMITTED deleteMany removes the roles its snapshot shows;
\* a concurrent transaction may replace them before this one commits.
StartReassign(q, u, r) ==
  /\ job[q] = Idle
  /\ status[u] /= "absent"
  /\ Become(q, [at |-> "reassigning", user |-> u, seen |-> roles[u], role |-> r])
  /\ UNCHANGED <<accountVars, challenge, session, reassigned>>

\* The rows it deletes are gone from the snapshots of the others too: a row
\* of the same role inserted since is another one. The (userId, roleId) key
\* refuses a role that is there by then: that transaction ends in Fail.
Reassign(q) ==
  /\ Step(q, "reassigning")
  /\ LET u == job[q].user
         kept == roles[u] \ job[q].seen
     IN /\ job[q].role \notin kept
        /\ roles' = [roles EXCEPT ![u] = kept \cup {job[q].role}]
        /\ reassigned' = reassigned \cup {u}
        /\ job' = [p \in Requests |->
             IF p = q THEN Idle
             ELSE IF Step(p, "reassigning") /\ job[p].user = u
             THEN [job[p] EXCEPT !.seen = @ \ job[q].seen]
             ELSE job[p]]
  /\ UNCHANGED <<status, invitation, method, challenge, session>>

OpenTo(u) == {s \in Sids : session[s].state \in {"open", "lapsed"}
                           /\ session[s].user = u}

\* The updateMany of suspend, revokeSessions, resetPassword and
\* resetCredentials revokes the sessions its snapshot shows.
StartRevoke(q, u, kind) ==
  /\ job[q] = Idle
  /\ status[u] /= "absent"
  /\ kind /= "sessions" => ~UserLocked(u)
  /\ Become(q, [at |-> "revoking", user |-> u, seen |-> OpenTo(u),
                kind |-> kind])
  /\ UNCHANGED <<accountVars, challenge, session, reassigned>>

CommitRevoke(q) ==
  /\ Step(q, "revoking")
  /\ status' = IF job[q].kind = "suspend"
               THEN [status EXCEPT ![job[q].user] = "suspended"]
               ELSE status
  /\ Revoke(job[q].seen)
  /\ Become(q, Idle)
  /\ UNCHANGED <<invitation, roles, method, challenge, reassigned>>

Fail(q) ==
  /\ job[q] /= Idle
  /\ Become(q, Idle)
  /\ UNCHANGED <<accountVars, challenge, session, reassigned>>

-----------------------------------------------------------------------------

Timeout ==
  \/ \E u \in Users : ExpireInvitation(u) \/ ExpireChallenge(u)
  \/ \E s \in Sids : Lapse(s)

AuthStep(q) ==
  \/ \E u \in Users : ReadUser(q, u) \/ VerifyMfaChallenge(q, u)
  \/ \E s \in Sids : FindSession(q, s) \/ FindToLeave(q, s) \/ IssueTokens(q, s)
  \/ LogIn(q) \/ CheckUser(q) \/ RevokeInactive(q) \/ Rotate(q) \/ Logout(q)

UsersStep(q) ==
  \/ \E u \in Users, r \in Roles : StartReassign(q, u, r)
  \/ \E u \in Users, k \in Revocations : StartRevoke(q, u, k)
  \/ \E u \in Users : FindInvitation(q, u)
  \/ Activate(q) \/ ChooseEnrolment(q) \/ Enrol(q)
  \/ Reassign(q) \/ CommitRevoke(q)

Next ==
  \/ Timeout
  \/ \E u \in Users, r \in Roles : Invite(u, r)
  \/ \E q \in Requests : AuthStep(q) \/ UsersStep(q) \/ Fail(q)

Spec == Init /\ [][Next]_vars

-----------------------------------------------------------------------------

\* Every variable holds what its table, token or handler can hold.
TypeOK ==
  /\ status \in [Users -> Statuses]
  /\ invitation \subseteq Users
  /\ roles \in [Users -> SUBSET Roles]
  /\ method \in [Users -> Methods]
  /\ challenge \subseteq Users
  /\ session \in [Sids -> Session \cup {Unused}]
  /\ job \in [Requests -> Job]
  /\ reassigned \subseteq Users

\* The requests of u that are past their check of the user's status.
InFlight(u) ==
  {q \in Requests :
     /\ job[q].at \in {"checked", "accepting", "activated", "enrolling",
                       "granted", "cleared"}
     /\ job[q].user = u}

\* While a user is suspended and has no challenge left, nothing begins that
\* could let the user in: every request in flight was past its check of the
\* status before, and each gives the user one session or one challenge at
\* most and is over with it. What the suspension does not stop are those
\* requests, a challenge signed before it (it lives 5 minutes), and an
\* acceptance among the requests, which writes the user active by id and so
\* ends the suspension itself (users.service.ts:153-161, 233-252, the status
\* checks of auth.service.ts:91 and 195 and users.service.ts:147).
SuspendedStaysOut ==
  [][\A u \in Users :
       status[u] = "suspended" /\ u \notin challenge =>
         /\ InFlight(u)' \subseteq InFlight(u)
         /\ \/ OpenTo(u)' \subseteq OpenTo(u) /\ u \notin challenge'
            \/ /\ InFlight(u)' /= InFlight(u)
               /\ \A s, t \in OpenTo(u)' \ OpenTo(u) : s = t
         /\ \/ status'[u] = "suspended"
            \/ \E q \in InFlight(u) : job[q].at = "accepting"]_vars

\* The sessions that refreshes made from s, and the requests that hold s and
\* may still make one.
Successors(s) == {t \in Sids : session[t] /= Unused /\ session[t].from = s}
Claimants(s) ==
  {q \in Requests :
     \/ job[q].at \in {"found", "cleared"} /\ job[q].session = s
     \/ job[q].at = "granted" /\ job[q].from = s}

\* A session has at most as many successors as there are requests at once,
\* however late and however often its token is presented: it serves only
\* refreshes that overlap the first one to succeed. Those do multiply it:
\* each makes a successor of its own (auth.service.ts:183-208).
SuccessorsAreBounded ==
  \A s \in Sids :
    Cardinality(Successors(s)) + Cardinality(Claimants(s))
      <= Cardinality(Requests)

\* A session that began without a TOTP check belongs to a user whose roles
\* never required one, unless an update changed the roles: neither an
\* acceptance nor a login nor a refresh skips the check
\* (auth.service.ts:108-119, users.service.ts:178-196).
MfaBeforePrivilege ==
  \A s \in Sids :
    /\ session[s] /= Unused /\ ~session[s].mfa
    /\ session[s].user \notin reassigned
    => ~NeedsMfa(session[s].user)

\* Concurrent role changes can leave a user with several roles but never
\* with none (users.service.ts:209-214).
NobodyIsRoleless ==
  \A u \in Users : status[u] /= "absent" => roles[u] /= {}

\* An active user whose role requires MFA has it or is enrolling: what the
\* comment at auth.service.ts:114-115 says of the 403 that follows it.
MfaIsConfigured ==
  \A u \in Users :
    /\ status[u] = "active" /\ NeedsMfa(u)
    /\ \A q \in Requests : job[q] /= Idle => job[q].user /= u
    => method[u] = "verified" \/ u \in challenge
=============================================================================
