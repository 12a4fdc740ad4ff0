----------------------------- MODULE WebSession -----------------------------
(***************************************************************************)
(* The session of one browser: AuthProvider and the API client             *)
(* (src/apps/web-superadmin/src/lib/auth-context.tsx, api-client.ts) in    *)
(* several tabs that share localStorage, against the sessions of the API.  *)
(*                                                                         *)
(* A pair of tokens is named by the sessions row it was issued with. A tab *)
(* keeps one in memory (accessTokenRef and user), the browser one in       *)
(* localStorage. job[c] is one call of api.request: a request that gets    *)
(* 401 makes the client refresh with the stored token and try once more,   *)
(* and any failure of that refresh clears the session. Continuations run   *)
(* when a reply arrives, one at a time, whole.                             *)
(*                                                                         *)
(* Not modelled: who signs in, and the steps of a login before its tokens  *)
(* (Accounts has them). Session rows expire as access tokens do, at any    *)
(* moment.                                                                 *)
(***************************************************************************)
EXTENDS Naturals, FiniteSets

CONSTANTS
  Tabs,      \* tabs of the browser
  Calls,     \* the calls it can have in flight
  Sids,      \* ids of sessions rows; bounds how many are ever made
  None       \* no pair, no tab

ASSUME WebAssumption ==
  /\ None \notin Sids /\ None \notin Tabs
  /\ IsFiniteSet(Sids) /\ IsFiniteSet(Calls)

VARIABLES
  session,    \* the sessions rows of this browser
  expired,    \* the pairs whose access token has expired
  stored,     \* the pair in localStorage
  held,       \* the pair each tab has in memory
  job,        \* what each call is doing
  disturbed,  \* history: changes of the session overlapped, or one was lost
  severed     \* history: the browser could not learn that a session ended

vars == <<session, expired, stored, held, job, disturbed, severed>>

Pair == Sids \cup {None}
Kinds == {"request", "logout", "boot", "signIn"}
Refreshing == {"refreshing", "found", "rotated", "renewed", "refused"}

\* token goes in the Authorization header, or is the refresh token in the
\* body of a refresh; body is the token a logout sends; fresh is the pair in
\* the reply. A call of tab None is one whose tab was closed or reloaded.
Idle == [at |-> "idle"]
Call == [at : {"sent", "signing", "left"} \cup Refreshing, kind : Kinds,
         tab : Tabs \cup {None}, token : Pair, body : Pair, retried : BOOLEAN,
         fresh : Pair]
Job == {Idle} \cup Call

Init ==
  /\ session = [s \in Sids |-> "unused"]
  /\ expired = {}
  /\ stored = None
  /\ held = [t \in Tabs |-> None]
  /\ job = [c \in Calls |-> Idle]
  /\ disturbed = FALSE
  /\ severed = FALSE

Step(c, at) == job[c].at = at
Become(c, j) == job' = [job EXCEPT ![c] = j]
InFlight == {c \in Calls : job[c] # Idle}
Kept == {held[t] : t \in Tabs} \cup {stored} \cup {job[c].token : c \in InFlight}
Unused == {s \in Sids : session[s] = "unused"}

\* The bound: a call uses up at most one new session.
Room == Cardinality(Unused) > Cardinality(InFlight)

\* Calls that replace the session or end it.
Changing(c) ==
  job[c] # Idle /\ (Step(c, "sent") => job[c].kind = "logout")

\* What is recorded when a call begins to change the session, also when it is
\* a logout whose own request needs a refresh.
Begin ==
  disturbed' = (disturbed \/ \E c \in Calls : Changing(c))

ClearSession(t) ==
  /\ stored' = None
  /\ held' = [held EXCEPT ![t] = None]

ApplyTokens(t, s) ==
  /\ stored' = s
  /\ held' = [held EXCEPT ![t] = s]

Send(t, kind, body) ==
  [at |-> "sent", kind |-> kind, tab |-> t, token |-> held[t], body |-> body,
   retried |-> FALSE, fresh |-> None]

\* What a call does when its request has no more to give: a logout goes on to
\* clear the session, the others throw or return.
Settled(c) ==
  IF job[c].kind = "logout" /\ job[c].tab # None
  THEN [job[c] EXCEPT !.at = "left"] ELSE Idle

-----------------------------------------------------------------------------
(* Requests *)

Request(c, t) ==
  /\ job[c] = Idle /\ Room
  /\ held[t] # None
  /\ Become(c, Send(t, "request", None))
  /\ UNCHANGED <<session, expired, stored, held, disturbed, severed>>

Authorized(c) == job[c].token # None /\ job[c].token \notin expired

\* Any answer but 401.
Answer(c) ==
  /\ Step(c, "sent") /\ Authorized(c) /\ job[c].kind = "request"
  /\ Become(c, Idle)
  /\ UNCHANGED <<session, expired, stored, held, disturbed, severed>>

\* Mutant of RefreshToken: the pair the tab has in memory.
TokenInMemory(c) == IF job[c].tab = None THEN None ELSE held[job[c].tab]

\* The token refresh reads, at that moment.
RefreshToken(c) == stored

\* 401, the first time: onUnauthorized.
Refresh(c) ==
  /\ Step(c, "sent") /\ ~Authorized(c)
  /\ ~job[c].retried /\ job[c].tab # None /\ RefreshToken(c) # None
  /\ Become(c, [job[c] EXCEPT !.at = "refreshing", !.token = RefreshToken(c)])
  /\ Begin
  /\ UNCHANGED <<session, expired, stored, held, severed>>

\* Mutant of GiveUp: the request is repeated whatever came of the refresh.
RepeatAnyway(c) ==
  /\ Step(c, "sent") /\ ~Authorized(c)
  /\ job[c].retried \/ job[c].tab = None \/ RefreshToken(c) = None
  /\ Become(c, job[c])
  /\ UNCHANGED <<session, expired, stored, held, disturbed, severed>>

\* 401 again, or nothing stored to refresh with: the error is the caller's,
\* and the session stays as it is.
GiveUp(c) ==
  /\ Step(c, "sent") /\ ~Authorized(c)
  /\ job[c].retried \/ job[c].tab = None \/ RefreshToken(c) = None
  /\ Become(c, Settled(c))
  /\ UNCHANGED <<session, expired, stored, held, disturbed, severed>>

\* The network fails a request that is not a refresh.
Lose(c) ==
  /\ job[c].at \in {"sent", "signing"}
  /\ Become(c, Settled(c))
  /\ disturbed' = (disturbed \/ job[c].kind = "logout")
  /\ UNCHANGED <<session, expired, stored, held, severed>>

-----------------------------------------------------------------------------
(* POST /auth/refresh: AuthService.refresh finds the session, then rotates. *)

FindSession(c) ==
  /\ Step(c, "refreshing")
  /\ Become(c, [job[c] EXCEPT
       !.at = IF session[job[c].token] = "open" THEN "found" ELSE "refused"])
  /\ UNCHANGED <<session, expired, stored, held, disturbed, severed>>

\* The session found is revoked by its id, whatever became of it since.
Rotate(c) ==
  /\ Step(c, "found")
  /\ session' = [session EXCEPT ![job[c].token] = "revoked"]
  /\ Become(c, [job[c] EXCEPT !.at = "rotated"])
  /\ UNCHANGED <<expired, stored, held, disturbed, severed>>

IssueTokens(c, s) ==
  /\ Step(c, "rotated")
  /\ s \in Unused
  /\ session' = [session EXCEPT ![s] = "open"]
  /\ Become(c, [job[c] EXCEPT !.at = "renewed", !.fresh = s])
  /\ UNCHANGED <<expired, stored, held, disturbed, severed>>

\* The API fails between two of its statements, which share no transaction.
Break(c) ==
  /\ job[c].at \in {"found", "rotated"}
  /\ Become(c, [job[c] EXCEPT !.at = "refused"])
  /\ disturbed' = TRUE
  /\ UNCHANGED <<session, expired, stored, held, severed>>

\* The reply with a new pair, of a refresh or a sign-in. A request is sent
\* once more, with the new token and the old body.
Renewed(c) ==
  /\ Step(c, "renewed") /\ job[c].tab # None
  /\ ApplyTokens(job[c].tab, job[c].fresh)
  /\ Become(c, IF job[c].kind \in {"boot", "signIn"} THEN Idle
               ELSE [job[c] EXCEPT !.at = "sent", !.token = job[c].fresh,
                                   !.retried = TRUE, !.fresh = None])
  /\ disturbed' = (disturbed \/ (job[c].kind = "signIn" /\ stored # None))
  /\ UNCHANGED <<session, expired, severed>>

\* 401, 5xx or no reply at all: the catch of refresh clears the session.
Refused(c) ==
  /\ Step(c, "refused") /\ job[c].tab # None
  /\ ClearSession(job[c].tab)
  /\ Become(c, Settled(c))
  /\ UNCHANGED <<session, expired, disturbed, severed>>

\* Mutant of LoseRefresh: no answer is no reason to give the pair up.
LoseRefreshKeeps(c) ==
  /\ job[c].at \in {"refreshing", "renewed"} /\ job[c].tab # None
  /\ Become(c, Settled(c))
  /\ disturbed' = TRUE
  /\ UNCHANGED <<session, expired, stored, held, severed>>

LoseRefresh(c) ==
  /\ job[c].at \in {"refreshing", "renewed"} /\ job[c].tab # None
  /\ IF job[c].kind = "signIn" THEN UNCHANGED <<stored, held>>
     ELSE ClearSession(job[c].tab)
  /\ Become(c, Settled(c))
  /\ disturbed' = TRUE
  /\ UNCHANGED <<session, expired, severed>>

-----------------------------------------------------------------------------
(* Signing in and out *)

\* The page of an invitation does not ask whether someone is signed in.
SignIn(c, t) ==
  /\ job[c] = Idle /\ Room
  /\ Become(c, [Send(t, "signIn", None) EXCEPT !.at = "signing", !.token = None])
  /\ Begin
  /\ UNCHANGED <<session, expired, stored, held, severed>>

\* completeLogin and its reply.
Grant(c, s) ==
  /\ Step(c, "signing")
  /\ s \in Unused
  /\ session' = [session EXCEPT ![s] = "open"]
  /\ Become(c, [job[c] EXCEPT !.at = "renewed", !.fresh = s])
  /\ UNCHANGED <<expired, stored, held, disturbed, severed>>

\* The stored token is read here, and sent even after a refresh replaced it.
Logout(c, t) ==
  /\ job[c] = Idle /\ Room
  /\ held[t] # None
  /\ Become(c, IF stored = None THEN [Send(t, "logout", None) EXCEPT !.at = "left"]
               ELSE Send(t, "logout", stored))
  /\ Begin
  /\ UNCHANGED <<session, expired, stored, held, severed>>

\* AuthService.logout: a session already revoked is left as it is.
EndSession(c) ==
  /\ Step(c, "sent") /\ Authorized(c) /\ job[c].kind = "logout"
  /\ session' = [session EXCEPT ![job[c].body] = "revoked"]
  /\ Become(c, Settled(c))
  /\ UNCHANGED <<expired, stored, held, disturbed, severed>>

FinishLogout(c) ==
  /\ Step(c, "left")
  /\ ClearSession(job[c].tab)
  /\ Become(c, Idle)
  /\ UNCHANGED <<session, expired, disturbed, severed>>

-----------------------------------------------------------------------------
(* Tabs, and the world *)

\* A tab is reloaded, or closed and opened again: its calls go on without it,
\* and AuthProvider starts from what is stored.
Abandon(t) ==
  [d \in Calls |-> IF job[d] # Idle /\ job[d].tab = t
                   THEN IF Step(d, "left") THEN Idle
                        ELSE [job[d] EXCEPT !.tab = None]
                   ELSE job[d]]

Interrupted(t) ==
  \E d \in Calls : Changing(d) /\ job[d].tab = t

Reload(t) ==
  /\ stored = None \/ stored \notin expired
  /\ held' = [held EXCEPT ![t] = stored]
  /\ job' = Abandon(t)
  /\ disturbed' = (disturbed \/ Interrupted(t))
  /\ severed' = (severed \/ Interrupted(t))
  /\ UNCHANGED <<session, expired, stored>>

\* The access token has expired: refresh before anything is shown.
ReloadExpired(c, t) ==
  /\ stored \in expired
  /\ job[c] = Idle /\ Room
  /\ held' = [held EXCEPT ![t] = None]
  /\ job' = [Abandon(t) EXCEPT ![c] =
       [Send(t, "boot", None) EXCEPT !.at = "refreshing", !.token = stored]]
  /\ Begin
  /\ severed' = (severed \/ Interrupted(t))
  /\ UNCHANGED <<session, expired, stored>>

\* The reply to a tab that is gone.
Discard(c) ==
  /\ job[c] # Idle /\ job[c].tab = None
  /\ job[c].at \in {"renewed", "refused"}
  /\ Become(c, Idle)
  /\ UNCHANGED <<session, expired, stored, held, disturbed, severed>>

\* A pair nobody keeps may expire unnoticed.
Expire(s) ==
  /\ s \in Kept
  /\ s \notin expired
  /\ expired' = expired \cup {s}
  /\ UNCHANGED <<session, stored, held, job, disturbed, severed>>

\* An administrator revokes the user's sessions, or the row's own time is up.
Revoke(s) ==
  /\ session[s] = "open"
  /\ session' = [session EXCEPT ![s] = "revoked"]
  /\ disturbed' = TRUE
  /\ severed' = TRUE
  /\ UNCHANGED <<expired, stored, held, job>>

-----------------------------------------------------------------------------

\* A call under way goes on: the network delivers or fails, the API answers.
Proceed(c) ==
  \/ Answer(c) \/ Refresh(c) \/ GiveUp(c) \/ EndSession(c) \/ FinishLogout(c)
  \/ FindSession(c) \/ Rotate(c) \/ Renewed(c) \/ Refused(c) \/ Discard(c)
  \/ \E s \in Sids : IssueTokens(c, s) \/ Grant(c, s)

Next ==
  \/ \E c \in Calls : Proceed(c) \/ Lose(c) \/ Break(c) \/ LoseRefresh(c)
  \/ \E c \in Calls, t \in Tabs :
       Request(c, t) \/ SignIn(c, t) \/ Logout(c, t) \/ ReloadExpired(c, t)
  \/ \E t \in Tabs : Reload(t)
  \/ \E s \in Sids : Expire(s) \/ Revoke(s)

Spec == Init /\ [][Next]_vars

\* Users owe nothing, tokens need not expire, but a call is not forgotten.
FairSpec == Spec /\ \A c \in Calls : WF_vars(Proceed(c))

-----------------------------------------------------------------------------

\* Every variable holds what storage, memory, table or call can hold, and no
\* token names a session that was never made.
TypeOK ==
  /\ session \in [Sids -> {"unused", "open", "revoked"}]
  /\ expired \subseteq Sids
  /\ stored \in Pair
  /\ held \in [Tabs -> Pair]
  /\ job \in [Calls -> Job]
  /\ disturbed \in BOOLEAN /\ severed \in BOOLEAN
  /\ \A s \in Kept \ {None} : session[s] # "unused"

\* The browser does not keep a session that has ended: when nothing that
\* changes the session is in flight, the pair stored is of a session still open
\* at the API, although refreshes of several tabs rotated the same token, came
\* back late or not at all, broke in the middle, or crossed a login or a logout
\* (auth-context.tsx:80-95, 171-181). Only what the browser cannot learn of is
\* left out: an administrator who revokes the session, and a tab closed or
\* reloaded while its refresh or logout is in flight.
StoredSessionIsOpen ==
  ~severed /\ (\A c \in Calls : ~Changing(c)) =>
    stored = None \/ session[stored] = "open"

\* No session stays open behind a browser that does one thing at a time: the
\* only one open is the one stored. Every case in which the code does leave one
\* is in disturbed, and left out: two calls that change the session overlap, a
\* logout whose request needs a refresh among them; a reply is lost or the API
\* fails in the middle of a refresh; the tab of such a call is closed or
\* reloaded; a session is revoked elsewhere; and someone signs in while another
\* session is stored, which login and acceptInvitation overwrite without ending
\* it (auth-context.tsx:68-72, 123-169).
NoSessionIsLeftBehind ==
  ~disturbed /\ (\A c \in Calls : ~Changing(c)) =>
    {s \in Sids : session[s] = "open"} = {stored} \ {None}

\* A logout in one tab holds in all of them, although the others still have
\* tokens in memory: while nothing is stored no call begins that could store
\* any but a login, and of those in flight each does so once at most and is
\* over with it. What a logout does not stop is a refresh, of whatever tab, that
\* is in flight when it clears: its reply stores a session again
\* (auth-context.tsx:81-82, 89, 171-181).
Reviving == {c \in Calls : job[c].at \in Refreshing \cup {"signing"}}
LogoutHoldsInAllTabs ==
  [][stored = None =>
       /\ \/ Reviving' \subseteq Reviving
          \/ \E c \in Calls, t \in Tabs : SignIn(c, t)
       /\ stored' # None => \E c \in Reviving : c \notin Reviving']_vars

\* No call hangs or goes round: whatever happens to its tokens, a call is
\* answered, fails, or refreshes and is tried once more (api-client.ts:80-83).
EveryCallSettles == \A c \in Calls : job[c] # Idle ~> job[c] = Idle
=============================================================================
