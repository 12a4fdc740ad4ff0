---------------------------- MODULE Credentials ----------------------------
(***************************************************************************)
(* The credentials of one platform user: its password, the lockout after   *)
(* failed logins, and the links that set a password, in AuthService        *)
(* (src/apps/api/src/auth/auth.service.ts) and UsersService                *)
(* (src/apps/api/src/users/users.service.ts).                              *)
(*                                                                         *)
(* A request reads the user's row, spends a while on a password hash, and  *)
(* then writes the row by its id: what others wrote in between is not      *)
(* looked at again. job[q] is what request q holds between the two. The    *)
(* transaction of a reset is one step: a session inserted while it is open *)
(* is one it does not see, as is a session inserted after it.              *)
(*                                                                         *)
(* Not modelled: roles, MFA and suspension, which Accounts has; the wait   *)
(* between a right password and its session stands for the MFA challenge   *)
(* too. A logout, like the end of a session by itself, only makes less of  *)
(* them.                                                                   *)
(***************************************************************************)
EXTENDS Naturals, FiniteSets

CONSTANTS
  Requests,     \* the requests the API can have in flight
  Passwords,    \* what can be typed
  Links,        \* reset tokens; bounds how many are ever made
  Invitation,   \* the token of the invitation
  None,         \* no password, no token
  MaxFailed,    \* MAX_FAILED_LOGIN_ATTEMPTS
  MaxWrong      \* bound on the wrong passwords in a row

ASSUME CredentialsAssumption ==
  /\ None \notin Passwords \cup Links \cup {Invitation}
  /\ Invitation \notin Links
  /\ MaxFailed \in Nat \ {0} /\ MaxWrong \in Nat

VARIABLES
  status,     \* invited or active
  password,   \* passwordHash
  failed,     \* failedLoginCount
  lock,       \* lockedUntil: null, in the future, or past
  invited,    \* invitationTokenHash, while it has not expired
  link,       \* passwordResetTokenHash, while it has not expired
  session,    \* the kinds of session that are open
  job,        \* what each request is doing
  wrong,      \* history: wrong passwords counted since the counter was cleared
  overlap,    \* history: one of them was counted from a count of before
  dead,       \* history: tokens that were used or replaced
  replaced    \* history: passwords an acceptance replaced, sessions and all

row == <<status, password, failed, lock, invited, link>>
history == <<wrong, overlap, dead, replaced>>
vars == <<row, session, job, history>>

Tokens == Links \cup {Invitation}

\* The kinds of open sessions: the password it goes back to, and whether a
\* revocation has missed it, which is history.
Session == [password : Passwords, missed : BOOLEAN]

Idle == [at |-> "idle"]
Job ==
  {Idle}
  \cup [at : {"failing"}, count : 0..(MaxWrong - 1)]
  \cup [at : {"clearing", "granted"}, password : Passwords, missed : BOOLEAN]
  \cup [at : {"found"}, session : Session, missed : BOOLEAN]
  \cup [at : {"accepting"}, password : Passwords, token : {Invitation}]
  \cup [at : {"resetting"}, password : Passwords, token : Links]

Init ==
  /\ status = "invited" /\ password = None
  /\ failed = 0 /\ lock = "none"
  /\ invited = Invitation /\ link = None
  /\ session = {}
  /\ job = [q \in Requests |-> Idle]
  /\ wrong = 0 /\ overlap = FALSE /\ dead = {} /\ replaced = {}

Step(q, at) == job[q].at = at
Become(q, j) == job' = [job EXCEPT ![q] = j]

\* A revocation ends the sessions in the table and is over. The requests let
\* in before it, whose session is still to come, are missed by it.
Missed(p) ==
  IF job[p].at \in {"clearing", "granted", "found"}
  THEN [job[p] EXCEPT !.missed = TRUE] ELSE job[p]
RevokeAll == session' = {} /\ replaced' = {}

-----------------------------------------------------------------------------
(* Login *)

\* Reads the row and verifies the password, unless the account is locked. A
\* right password is no use before the invitation is accepted.
Attempt(q, typed) ==
  /\ job[q] = Idle
  /\ password # None /\ lock # "future"
  /\ typed = password => status = "active"
  /\ failed < MaxWrong
  /\ Become(q, IF typed = password
               THEN [at |-> "clearing", password |-> typed, missed |-> FALSE]
               ELSE [at |-> "failing", count |-> failed])
  /\ UNCHANGED <<row, session, history>>

\* Mutant of Reached: one failure too many is let pass.
Passed(count) == count > MaxFailed

Reached(count) == count >= MaxFailed

\* registerFailedLogin, with the count that was read.
RegisterFailedLogin(q) ==
  /\ Step(q, "failing")
  /\ wrong < MaxWrong
  /\ LET count == job[q].count + 1 IN
       /\ failed' = count
       /\ lock' = IF Reached(count) THEN "future" ELSE "none"
  /\ wrong' = wrong + 1
  /\ overlap' = (overlap \/ job[q].count # failed)
  /\ Become(q, Idle)
  /\ UNCHANGED <<status, password, invited, link, session, dead, replaced>>

\* A right password clears the counter; the session is still to come.
ClearFailures(q) ==
  /\ Step(q, "clearing")
  /\ failed' = 0 /\ lock' = "none"
  /\ wrong' = 0 /\ overlap' = FALSE
  /\ Become(q, [job[q] EXCEPT !.at = "granted"])
  /\ UNCHANGED <<status, password, invited, link, session, dead, replaced>>

\* issueTokens; neither the password nor a revocation is looked at again.
OpenSession(q) ==
  /\ Step(q, "granted")
  /\ session' = session \cup
       {[password |-> job[q].password, missed |-> job[q].missed]}
  /\ Become(q, Idle)
  /\ UNCHANGED <<row, history>>

\* refresh; the user is active, having a session.
FindSession(q) ==
  \E s \in session :
    /\ job[q] = Idle
    /\ Become(q, [at |-> "found", session |-> s, missed |-> s.missed])
    /\ UNCHANGED <<row, session, history>>

\* Names the session by id: it may have been revoked since FindSession, and
\* there may be others of its kind.
Rotate(q) ==
  /\ Step(q, "found")
  /\ session' \in {session, session \ {job[q].session}}
  /\ Become(q, [at |-> "granted", password |-> job[q].session.password,
                missed |-> job[q].missed])
  /\ UNCHANGED <<row, history>>

\* Fifteen minutes pass. The count stays as it is.
LockEnds ==
  /\ lock = "future"
  /\ lock' = "past"
  /\ UNCHANGED <<status, password, failed, invited, link, session, job, history>>

-----------------------------------------------------------------------------
(* The links that set a password *)

\* Mutant of FindInvitation: whoever was invited once.
FindUser(q, typed) ==
  /\ job[q] = Idle
  /\ Become(q, [at |-> "accepting", password |-> typed, token |-> Invitation])
  /\ UNCHANGED <<row, session, history>>

FindInvitation(q, typed) ==
  /\ job[q] = Idle
  /\ invited = Invitation /\ status = "invited"
  /\ Become(q, [at |-> "accepting", password |-> typed, token |-> Invitation])
  /\ UNCHANGED <<row, session, history>>

\* Names the user by id, so a second acceptance that found the invitation too
\* replaces the password of the first, and no session is revoked.
Activate(q) ==
  /\ Step(q, "accepting")
  /\ password' = job[q].password
  /\ status' = "active" /\ invited' = None
  /\ dead' = dead \cup {Invitation}
  /\ replaced' = replaced \cup ({password} \ {None})
  /\ Become(q, [at |-> "granted", password |-> job[q].password,
                missed |-> FALSE])
  /\ UNCHANGED <<failed, lock, link, session, wrong, overlap>>

\* forgotPassword, and the token of resetCredentials: whatever link there was
\* is replaced.
Forgot(t) ==
  /\ t \notin dead /\ t # link
  /\ link' = t
  /\ dead' = dead \cup ({link} \ {None})
  /\ UNCHANGED <<status, password, failed, lock, invited, session, job, wrong,
                 overlap, replaced>>

ResetCredentials(t) ==
  /\ t \notin dead /\ t # link
  /\ link' = t
  /\ dead' = dead \cup ({link} \ {None})
  /\ RevokeAll
  /\ job' = [p \in Requests |-> Missed(p)]
  /\ UNCHANGED <<status, password, failed, lock, invited, wrong, overlap>>

RevokeSessions ==
  /\ session # {}
  /\ RevokeAll
  /\ job' = [p \in Requests |-> Missed(p)]
  /\ UNCHANGED <<row, wrong, overlap, dead>>

FindLink(q, typed) ==
  /\ job[q] = Idle
  /\ link # None
  /\ Become(q, [at |-> "resetting", password |-> typed, token |-> link])
  /\ UNCHANGED <<row, session, history>>

\* Mutant of ResetPassword: the sessions are left alone.
ResetPasswordOnly(q) ==
  /\ Step(q, "resetting")
  /\ password' = job[q].password
  /\ link' = None /\ failed' = 0 /\ lock' = "none"
  /\ dead' = dead \cup ({link, job[q].token} \ {None})
  /\ wrong' = 0 /\ overlap' = FALSE
  /\ Become(q, Idle)
  /\ UNCHANGED <<status, invited, session, replaced>>

\* Names the user by id: the link may have been used or replaced since, and
\* whatever link there is goes.
ResetPassword(q) ==
  /\ Step(q, "resetting")
  /\ password' = job[q].password
  /\ link' = None /\ failed' = 0 /\ lock' = "none"
  /\ RevokeAll
  /\ dead' = dead \cup ({link, job[q].token} \ {None})
  /\ wrong' = 0 /\ overlap' = FALSE
  /\ job' = [p \in Requests |-> IF p = q THEN Idle ELSE Missed(p)]
  /\ UNCHANGED <<status, invited>>

ExpireLink ==
  /\ link # None
  /\ link' = None
  /\ dead' = dead \cup {link}
  /\ UNCHANGED <<status, password, failed, lock, invited, session, job, wrong,
                 overlap, replaced>>

ExpireInvitation ==
  /\ invited # None
  /\ invited' = None
  /\ dead' = dead \cup {Invitation}
  /\ UNCHANGED <<status, password, failed, lock, link, session, job, wrong,
                 overlap, replaced>>

\* An error, a crash, or a caller who does not go on with the challenge.
Fail(q) ==
  /\ job[q] # Idle
  /\ Become(q, Idle)
  /\ UNCHANGED <<row, session, history>>

-----------------------------------------------------------------------------

Next ==
  \/ \E q \in Requests, p \in Passwords :
       Attempt(q, p) \/ FindInvitation(q, p) \/ FindLink(q, p)
  \/ \E q \in Requests :
       \/ RegisterFailedLogin(q) \/ ClearFailures(q) \/ OpenSession(q)
       \/ FindSession(q) \/ Rotate(q)
       \/ Activate(q) \/ ResetPassword(q) \/ Fail(q)
  \/ \E t \in Links : Forgot(t) \/ ResetCredentials(t)
  \/ LockEnds \/ RevokeSessions \/ ExpireLink \/ ExpireInvitation

Spec == Init /\ [][Next]_vars

-----------------------------------------------------------------------------

\* Every column and every request holds what it can hold.
TypeOK ==
  /\ status \in {"invited", "active"}
  /\ password \in Passwords \cup {None}
  /\ failed \in 0..MaxWrong
  /\ lock \in {"none", "future", "past"}
  /\ invited \in {Invitation, None}
  /\ link \in Links \cup {None}
  /\ session \subseteq Session
  /\ job \in [Requests -> Job]
  /\ wrong \in 0..MaxWrong /\ overlap \in BOOLEAN
  /\ dead \subseteq Tokens /\ replaced \subseteq Passwords

\* The lockout counts: unless two failures have overlapped since it was last
\* cleared, the counter is the number of wrong passwords since then, and the
\* account has been locked exactly when they reached the limit
\* (auth.service.ts:72-75, 355-370).
LockoutCounts ==
  ~overlap =>
    /\ failed = wrong
    /\ lock # "none" <=> wrong >= MaxFailed

\* A session does not outlive its password: the open sessions go back, by
\* whatever refreshes, to a login or acceptance with the current one. But for
\* those that a revocation missed, because the login, acceptance or refresh
\* that opened them was past its check when it came, and what was refreshed
\* from them; and but for those of an acceptance that another one replaced,
\* which revokes nothing (auth.service.ts:181-208, 264-291,
\* users.service.ts:141-154).
SessionsMatchPassword ==
  \A s \in session :
    s.password = password \/ s.missed \/ s.password \in replaced

\* A link works once: a request that begins when the link has been used,
\* replaced or has expired gets nothing from it, whatever it raced with
\* (auth.service.ts:264-283, users.service.ts:131-151).
LinksAreSpent ==
  [][\A q \in Requests :
       job[q] = Idle /\ job'[q].at \in {"accepting", "resetting"}
         => job'[q].token \notin dead]_vars
=============================================================================
