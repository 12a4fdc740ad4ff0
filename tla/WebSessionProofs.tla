-------------------------- MODULE WebSessionProofs --------------------------
(***************************************************************************)
(* The browser's session, for any number of tabs, calls and sessions: no   *)
(* token is kept that the API never issued, and once out, a tab that still *)
(* has an access token brings no session back. For the first, a reply on   *)
(* its way carries a session that was made; for the second, nothing but a  *)
(* login under way can put tokens where there are none, since a refresh    *)
(* needs one.                                                              *)
(*                                                                         *)
(* Two theorems relate what is stored to what is open. While undisturbed,  *)
(* at most one call is changing the session, and how far it has come says  *)
(* what is stored and what is open (OneChange). With overlaps and lost     *)
(* replies, all that is left of that is that a stored session which ended  *)
(* is about to be replaced or cleared (Mended); it needs that no other     *)
(* call knows the pair of a reply on its way (Apart).                      *)
(***************************************************************************)
EXTENDS WebSession, TLAPS

FreshIsMade ==
  \A c \in Calls : Step(c, "renewed") =>
    job[c].fresh \in Sids /\ session[job[c].fresh] # "unused"

\* The conjuncts of TypeOK, but for the last, which is KeptIsMade.
Types ==
  /\ session \in [Sids -> {"unused", "open", "revoked"}]
  /\ expired \subseteq Sids
  /\ stored \in Pair
  /\ held \in [Tabs -> Pair]
  /\ job \in [Calls -> Job]
  /\ disturbed \in BOOLEAN /\ severed \in BOOLEAN

KeptIsMade ==
  /\ stored # None => session[stored] # "unused"
  /\ \A t \in Tabs : held[t] # None => session[held[t]] # "unused"
  /\ \A c \in Calls :
       job[c] # Idle /\ job[c].token # None => session[job[c].token] # "unused"

IInv == Types /\ KeptIsMade /\ FreshIsMade

-----------------------------------------------------------------------------

LEMMA JobTypes ==
  ASSUME Types, NEW c \in Calls
  PROVE  /\ job[c] = Idle <=> job[c].at = "idle"
         /\ job[c] # Idle => job[c] \in Call
BY DEF Types, Job, Idle, Call, Refreshing

LEMMA InitIInv == Init => IInv
<1> SUFFICES ASSUME Init PROVE IInv
  OBVIOUS
<1>1. Types
  BY DEF Init, Types, Pair, Job
<1>2. KeptIsMade /\ FreshIsMade
  BY DEF Init, KeptIsMade, FreshIsMade, Step, Idle
<1> QED
  BY <1>1, <1>2 DEF IInv

\* A step of one call: sessions once made stay made, and whatever pairs the
\* step puts in storage, in memory or in the call were made.
LEMMA CallKeepsIInv ==
  ASSUME IInv, NEW c \in Calls, NEW j \in Job, Become(c, j),
         session' \in [Sids -> {"unused", "open", "revoked"}],
         \A s \in Sids : session[s] # "unused" => session'[s] # "unused",
         stored' \in Pair, stored' # None => session'[stored'] # "unused",
         held' \in [Tabs -> Pair],
         \A t \in Tabs : held'[t] # None => session'[held'[t]] # "unused",
         expired' = expired, disturbed' \in BOOLEAN, severed' = severed,
         j # Idle => /\ j.token # None => session'[j.token] # "unused"
                     /\ j.at = "renewed" => /\ j.fresh \in Sids
                                            /\ session'[j.fresh] # "unused"
  PROVE  IInv'
<1>1. /\ job'[c] = j
      /\ \A d \in Calls : d # c => job'[d] = job[d]
      /\ job' \in [Calls -> Job]
  BY DEF Become, IInv, Types
<1>2. Types'
  BY <1>1 DEF IInv, Types
<1>3. KeptIsMade'
  <2>3. ASSUME NEW d \in Calls, job'[d] # Idle, job'[d].token # None
        PROVE  session'[job'[d].token] # "unused"
    <3>1. CASE d = c
      BY <1>1, <2>3, <3>1
    <3>2. CASE d # c
      <4>1. job[d] \in Call /\ job'[d] = job[d]
        BY <1>1, <2>3, <3>2, JobTypes DEF IInv
      <4>2. job[d].token \in Sids
        BY <2>3, <4>1 DEF Call, Pair
      <4> QED
        BY <2>3, <4>1, <4>2 DEF IInv, KeptIsMade
    <3> QED
      BY <3>1, <3>2
  <2> QED
    BY <2>3 DEF KeptIsMade
<1>4. FreshIsMade'
  <2> SUFFICES ASSUME NEW d \in Calls, job'[d].at = "renewed"
               PROVE  job'[d].fresh \in Sids /\ session'[job'[d].fresh] # "unused"
    BY DEF FreshIsMade, Step
  <2>1. CASE d = c
    BY <1>1, <2>1 DEF Idle
  <2>2. CASE d # c
    BY <1>1, <2>2 DEF IInv, FreshIsMade, Step
  <2> QED
    BY <2>1, <2>2
<1> QED
  BY <1>2, <1>3, <1>4 DEF IInv

\* What CallKeepsIInv asks of the sessions and the pairs when a step leaves
\* them alone.
LEMMA SameSessions ==
  ASSUME IInv, UNCHANGED session
  PROVE  /\ session' \in [Sids -> {"unused", "open", "revoked"}]
         /\ \A s \in Sids : session[s] # "unused" => session'[s] # "unused"
BY DEF IInv, Types

LEMMA SamePairs ==
  ASSUME IInv, UNCHANGED <<stored, held>>,
         \A s \in Sids : session[s] # "unused" => session'[s] # "unused"
  PROVE  /\ stored' \in Pair /\ (stored' # None => session'[stored'] # "unused")
         /\ held' \in [Tabs -> Pair]
         /\ \A t \in Tabs : held'[t] # None => session'[held'[t]] # "unused"
BY DEF IInv, Types, KeptIsMade, Pair

\* The call c of a state where it is not idle.
LEMMA CallAsKept ==
  ASSUME IInv, NEW c \in Calls, job[c] # Idle
  PROVE  /\ job[c] \in Call
         /\ job[c].token \in Sids => session[job[c].token] # "unused"
         /\ Settled(c) \in Job
         /\ Settled(c) # Idle => /\ Settled(c).token = job[c].token
                                /\ Settled(c).at = "left"
<1>1. job[c] \in Call
  BY JobTypes DEF IInv
<1>2. [job[c] EXCEPT !.at = "left"] \in Call
  BY <1>1 DEF Call
<1>3. [job[c] EXCEPT !.at = "left"].token = job[c].token
      /\ [job[c] EXCEPT !.at = "left"].at = "left"
  BY <1>1 DEF Call
<1>4. job[c].token \in Sids => session[job[c].token] # "unused"
  BY WebAssumption DEF IInv, KeptIsMade
<1> QED
  BY <1>1, <1>2, <1>3, <1>4 DEF Settled, Job

\* Send starts from what the tab has in memory.
LEMMA SendIsKept ==
  ASSUME IInv, NEW t \in Tabs, NEW kind \in Kinds, NEW body \in Pair
  PROVE  /\ Send(t, kind, body) \in Call
         /\ Send(t, kind, body).token # None
              => session[Send(t, kind, body).token] # "unused"
<1>1. held[t] \in Pair /\ None \in Pair
  BY DEF IInv, Types, Pair
<1> QED
  BY <1>1 DEF Send, Call, IInv, KeptIsMade, Refreshing

\* Replies and failures that change neither sessions nor pairs.
LEMMA SettleKeepsIInv ==
  ASSUME IInv, NEW c \in Calls,
         Answer(c) \/ GiveUp(c) \/ Lose(c) \/ Discard(c)
  PROVE  IInv'
<1>1. job[c] # Idle
  BY DEF Answer, GiveUp, Lose, Discard, Step, Idle
<1>2. disturbed' \in BOOLEAN
  BY DEF IInv, Types, Answer, GiveUp, Lose, Discard
<1>3. /\ UNCHANGED session /\ UNCHANGED <<stored, held>>
      /\ UNCHANGED <<expired, severed>>
  BY DEF Answer, GiveUp, Lose, Discard
<1>4. Become(c, Idle) \/ Become(c, Settled(c))
  BY DEF Answer, GiveUp, Lose, Discard
<1>5. CASE Become(c, Idle)
  <2>1. Idle \in Job
    BY DEF Job
  <2> QED
    BY <1>2, <1>3, <1>5, <2>1, SameSessions, SamePairs, CallKeepsIInv
<1>6. CASE Become(c, Settled(c))
  <2>1. Settled(c) \in Job
    BY <1>1, CallAsKept
  <2>2. Settled(c) # Idle => /\ Settled(c).token # None
                                  => session'[Settled(c).token] # "unused"
                             /\ Settled(c).at # "renewed"
    BY <1>1, <1>3, CallAsKept DEF Call, Pair
  <2> QED
    BY <1>2, <1>3, <1>6, <2>1, <2>2, SameSessions, SamePairs, CallKeepsIInv
<1> QED
  BY <1>4, <1>5, <1>6

LEMMA StartKeepsIInv ==
  ASSUME IInv, NEW c \in Calls, NEW t \in Tabs,
         Request(c, t) \/ SignIn(c, t) \/ Logout(c, t)
  PROVE  IInv'
<1>1. disturbed' \in BOOLEAN
  BY DEF IInv, Types, Request, SignIn, Logout, Begin
<1>2. /\ UNCHANGED session /\ UNCHANGED <<stored, held>>
      /\ UNCHANGED <<expired, severed>>
  BY DEF Request, SignIn, Logout
<1>3. PICK kind \in Kinds, body \in Pair :
        \/ Become(c, Send(t, kind, body))
        \/ Become(c, [Send(t, kind, body) EXCEPT !.at = "left"])
        \/ Become(c, [Send(t, kind, body) EXCEPT !.at = "signing", !.token = None])
  <2>1. CASE Request(c, t)
    BY <2>1 DEF Request, Kinds, Pair
  <2>2. CASE SignIn(c, t)
    BY <2>2 DEF SignIn, Kinds, Pair
  <2>3. CASE Logout(c, t)
    <3>1. "logout" \in Kinds /\ None \in Pair /\ stored \in Pair
      BY DEF Kinds, Pair, IInv, Types
    <3> QED
      BY <2>3, <3>1 DEF Logout
  <2> QED
    BY <2>1, <2>2, <2>3
<1> DEFINE sent == Send(t, kind, body)
<1>4. sent \in Call /\ (sent.token # None => session[sent.token] # "unused")
  BY SendIsKept
<1>5. sent.at = "sent"
  BY DEF Send
<1> HIDE DEF sent
<1>6. PICK j \in Call : /\ Become(c, j) /\ j.at # "renewed"
                        /\ j.token \in {sent.token, None}
  <2>1. /\ [sent EXCEPT !.at = "left"] \in Call
        /\ [sent EXCEPT !.at = "left"].at = "left"
        /\ [sent EXCEPT !.at = "left"].token = sent.token
    BY <1>4 DEF Call
  <2>2. /\ [sent EXCEPT !.at = "signing", !.token = None] \in Call
        /\ [sent EXCEPT !.at = "signing", !.token = None].at = "signing"
        /\ [sent EXCEPT !.at = "signing", !.token = None].token = None
    BY <1>4 DEF Call, Pair
  <2> QED
    BY <1>3, <1>4, <1>5, <2>1, <2>2 DEF sent
<1>7. j \in Job
  BY DEF Job
<1> QED
  BY <1>1, <1>2, <1>4, <1>6, <1>7, SameSessions, SamePairs, CallKeepsIInv

LEMMA RefreshKeepsIInv ==
  ASSUME IInv, NEW c \in Calls, Refresh(c)
  PROVE  IInv'
<1> DEFINE j == [job[c] EXCEPT !.at = "refreshing", !.token = stored]
<1>1. job[c] \in Call
  BY JobTypes DEF Refresh, Step, IInv, Idle
<1>2. j \in Job /\ j.at = "refreshing" /\ j.token = stored
  BY <1>1 DEF IInv, Types, Job, Call, Refreshing
<1>3. /\ Become(c, j) /\ UNCHANGED <<session, expired, severed>>
      /\ UNCHANGED <<stored, held>>
  BY DEF Refresh, RefreshToken
<1>4. disturbed' \in BOOLEAN
  BY DEF Refresh, Begin, IInv, Types
<1>5. stored # None => session[stored] # "unused"
  BY DEF IInv, KeptIsMade
<1> HIDE DEF j
<1> QED
  BY <1>2, <1>3, <1>4, <1>5, SameSessions, SamePairs, CallKeepsIInv

\* The API finds the session or not, or breaks.
LEMMA FindSessionKeepsIInv ==
  ASSUME IInv, NEW c \in Calls, FindSession(c) \/ Break(c)
  PROVE  IInv'
<1>1. PICK at \in {"found", "refused"} : Become(c, [job[c] EXCEPT !.at = at])
  BY DEF FindSession, Break
<1> DEFINE j == [job[c] EXCEPT !.at = at]
<1>2. job[c] # Idle
  BY DEF FindSession, Break, Step, Idle
<1>3. j \in Job /\ j.at # "renewed" /\ j.token = job[c].token
  BY <1>2, CallAsKept DEF Job, Call, Refreshing
<1>4. job[c].token # None => session[job[c].token] # "unused"
  BY <1>2 DEF IInv, KeptIsMade
<1>5. UNCHANGED <<session, expired, severed>> /\ UNCHANGED <<stored, held>>
  BY DEF FindSession, Break
<1>6. disturbed' \in BOOLEAN
  BY DEF FindSession, Break, IInv, Types
<1> HIDE DEF j
<1> QED
  BY <1>1, <1>3, <1>4, <1>5, <1>6, SameSessions, SamePairs, CallKeepsIInv DEF j

\* A refresh or a login makes the session whose pair it replies with.
LEMMA IssueKeepsIInv ==
  ASSUME IInv, NEW c \in Calls, NEW s \in Sids, IssueTokens(c, s) \/ Grant(c, s)
  PROVE  IInv'
<1> DEFINE j == [job[c] EXCEPT !.at = "renewed", !.fresh = s]
<1>1. job[c] # Idle
  BY DEF IssueTokens, Grant, Step, Idle
<1>2. job[c] \in Call /\ s \in Pair
  BY <1>1, CallAsKept DEF Pair
<1>3. /\ j \in Job /\ j.at = "renewed" /\ j.fresh = s
      /\ j.token = job[c].token /\ job[c].token \in Pair
  BY <1>2 DEF Job, Call, Refreshing
<1>4. /\ Become(c, j) /\ UNCHANGED <<stored, held>>
      /\ UNCHANGED <<expired, disturbed, severed>>
  BY DEF IssueTokens, Grant
<1>5. /\ session' \in [Sids -> {"unused", "open", "revoked"}]
      /\ session'[s] = "open"
      /\ \A r \in Sids : session[r] # "unused" => session'[r] # "unused"
  BY DEF IssueTokens, Grant, IInv, Types
<1>6. disturbed' \in BOOLEAN
  BY <1>4 DEF IInv, Types
<1>7. j.token # None => session'[j.token] # "unused"
  BY <1>1, <1>3, <1>5 DEF IInv, KeptIsMade, Pair
<1> HIDE DEF j
<1> QED
  BY <1>3, <1>4, <1>5, <1>6, <1>7, SamePairs, CallKeepsIInv

LEMMA RotateKeepsIInv ==
  ASSUME IInv, NEW c \in Calls, Rotate(c)
  PROVE  IInv'
<1> DEFINE j == [job[c] EXCEPT !.at = "rotated"]
<1>1. job[c] # Idle
  BY DEF Rotate, Step, Idle
<1>2. /\ j \in Job /\ j.at = "rotated" /\ j.token = job[c].token
      /\ job[c].token \in Pair
  BY <1>1, CallAsKept DEF Job, Call, Refreshing, Pair
<1>3. /\ Become(c, j) /\ UNCHANGED <<stored, held>>
      /\ UNCHANGED <<expired, disturbed, severed>>
  BY DEF Rotate
<1>4. /\ session' \in [Sids -> {"unused", "open", "revoked"}]
      /\ \A r \in Sids : session[r] # "unused" => session'[r] # "unused"
  BY DEF Rotate, IInv, Types
<1>5. disturbed' \in BOOLEAN
  BY <1>3 DEF IInv, Types
<1>6. j.token # None => session'[j.token] # "unused"
  BY <1>1, <1>2, <1>4 DEF IInv, KeptIsMade, Pair
<1> HIDE DEF j
<1> QED
  BY <1>2, <1>3, <1>4, <1>5, <1>6, SamePairs, CallKeepsIInv

LEMMA RenewedKeepsIInv ==
  ASSUME IInv, NEW c \in Calls, Renewed(c)
  PROVE  IInv'
<1> DEFINE f == job[c].fresh
           j == IF job[c].kind \in {"boot", "signIn"} THEN Idle
                ELSE [job[c] EXCEPT !.at = "sent", !.token = f,
                                    !.retried = TRUE, !.fresh = None]
<1>1. job[c] # Idle
  BY DEF Renewed, Step, Idle
<1>2. job[c] \in Call /\ job[c].tab \in Tabs
  BY <1>1, CallAsKept DEF Renewed, Call
<1>3. f \in Sids /\ session[f] # "unused"
  BY DEF Renewed, IInv, FreshIsMade
<1>4. j \in Job /\ (j # Idle => j.at = "sent" /\ j.token = f)
  BY <1>2, <1>3 DEF Job, Call, Pair
<1>5. /\ Become(c, j) /\ UNCHANGED <<session, expired, severed>>
      /\ stored' = f /\ held' = [held EXCEPT ![job[c].tab] = f]
  BY DEF Renewed, ApplyTokens
<1>6. disturbed' \in BOOLEAN
  BY DEF Renewed, IInv, Types
<1>7. /\ stored' \in Pair /\ (stored' # None => session'[stored'] # "unused")
      /\ held' \in [Tabs -> Pair]
      /\ \A t \in Tabs : held'[t] # None => session'[held'[t]] # "unused"
  BY <1>2, <1>3, <1>5 DEF IInv, Types, KeptIsMade, Pair
<1> HIDE DEF j, f
<1> QED
  BY <1>3, <1>4, <1>5, <1>6, <1>7, SameSessions, CallKeepsIInv

\* Tokens are given up, after a refresh that failed or at the end of a logout.
LEMMA ClearKeepsIInv ==
  ASSUME IInv, NEW c \in Calls, Refused(c) \/ LoseRefresh(c) \/ FinishLogout(c)
  PROVE  IInv'
<1>1. job[c] # Idle
  BY DEF Refused, LoseRefresh, FinishLogout, Step, Idle
<1>2. PICK j \in {Idle, Settled(c)} : Become(c, j)
  BY DEF Refused, LoseRefresh, FinishLogout
<1>3. j \in Job /\ (j # Idle => j.token = job[c].token /\ j.at # "renewed")
  BY <1>1, CallAsKept DEF Job
<1>4. UNCHANGED <<session, expired, severed>> /\ disturbed' \in BOOLEAN
  BY DEF Refused, LoseRefresh, FinishLogout, IInv, Types
<1>5. /\ stored' \in Pair /\ (stored' # None => session'[stored'] # "unused")
      /\ held' \in [Tabs -> Pair]
      /\ \A t \in Tabs : held'[t] # None => session'[held'[t]] # "unused"
  BY <1>4 DEF Refused, LoseRefresh, FinishLogout, ClearSession, IInv, Types,
     KeptIsMade, Pair
<1>6. j # Idle => (j.token # None => session'[j.token] # "unused")
  BY <1>1, <1>3, <1>4 DEF IInv, KeptIsMade
<1> QED
  BY <1>2, <1>3, <1>4, <1>5, <1>6, SameSessions, CallKeepsIInv

LEMMA EndSessionKeepsIInv ==
  ASSUME IInv, NEW c \in Calls, EndSession(c)
  PROVE  IInv'
<1>1. job[c] # Idle
  BY DEF EndSession, Step, Idle
<1>2. /\ session' \in [Sids -> {"unused", "open", "revoked"}]
      /\ \A r \in Sids : session[r] # "unused" => session'[r] # "unused"
  BY DEF EndSession, IInv, Types
<1>3. /\ Become(c, Settled(c)) /\ UNCHANGED <<stored, held>>
      /\ UNCHANGED <<expired, disturbed, severed>>
  BY DEF EndSession
<1>4. Settled(c) \in Job
      /\ (Settled(c) # Idle => /\ Settled(c).token = job[c].token
                               /\ Settled(c).at # "renewed")
  BY <1>1, CallAsKept
<1>5. job[c].token # None => session'[job[c].token] # "unused"
  BY <1>1, <1>2, CallAsKept DEF Call, Pair
<1>6. disturbed' \in BOOLEAN
  BY <1>3 DEF IInv, Types
<1> QED
  BY <1>2, <1>3, <1>4, <1>5, <1>6, SamePairs, CallKeepsIInv

LEMMA AbandonIsKept ==
  ASSUME IInv, NEW t \in Tabs, NEW d \in Calls
  PROVE  /\ Abandon(t)[d] \in Job
         /\ Abandon(t)[d] # Idle =>
              /\ job[d] # Idle
              /\ Abandon(t)[d].token = job[d].token
              /\ Abandon(t)[d].fresh = job[d].fresh
              /\ Abandon(t)[d].at = job[d].at
              /\ Abandon(t)[d].kind = job[d].kind
              /\ Abandon(t)[d].body = job[d].body
<1>1. CASE job[d] = Idle
  BY <1>1 DEF Abandon, Job
<1>2. CASE job[d] # Idle
  <2>1. job[d] \in Call
    BY <1>2, JobTypes DEF IInv
  <2>2. /\ [job[d] EXCEPT !.tab = None] \in Call
        /\ [job[d] EXCEPT !.tab = None].token = job[d].token
        /\ [job[d] EXCEPT !.tab = None].fresh = job[d].fresh
        /\ [job[d] EXCEPT !.tab = None].at = job[d].at
        /\ [job[d] EXCEPT !.tab = None].kind = job[d].kind
        /\ [job[d] EXCEPT !.tab = None].body = job[d].body
    BY <2>1 DEF Call
  <2>3. Abandon(t)[d] \in {Idle, job[d], [job[d] EXCEPT !.tab = None]}
    BY <1>2 DEF Abandon
  <2> QED
    BY <1>2, <2>1, <2>2, <2>3 DEF Job
<1> QED
  BY <1>1, <1>2

\* A reload, whichever tab: calls lose their tab at most, and the one that may
\* begin carries the stored pair.
LEMMA ReloadKeepsIInv ==
  ASSUME IInv, NEW t \in Tabs,
         Reload(t) \/ \E c \in Calls : ReloadExpired(c, t)
  PROVE  IInv'
<1>1. /\ UNCHANGED <<session, expired, stored>>
      /\ disturbed' \in BOOLEAN /\ severed' \in BOOLEAN
      /\ \E pair \in {None, stored} : held' = [held EXCEPT ![t] = pair]
  BY DEF Reload, ReloadExpired, Begin, IInv, Types
<1>2. /\ Abandon(t) = [d \in Calls |-> Abandon(t)[d]]
      /\ Abandon(t) \in [Calls -> Job]
  BY AbandonIsKept DEF Abandon
<1> DEFINE boot == [Send(t, "boot", None) EXCEPT !.at = "refreshing", !.token = stored]
<1>3. /\ boot \in Job /\ boot.at = "refreshing" /\ boot.token = stored
  <2>1. Send(t, "boot", None) \in Call
    BY SendIsKept DEF Kinds, Pair
  <2> QED
    BY <2>1 DEF Call, Job, Refreshing, IInv, Types
<1> HIDE DEF boot
<1>4. \A d \in Calls : job'[d] = Abandon(t)[d] \/ job'[d] = boot
  BY <1>2 DEF Reload, ReloadExpired, boot
<1>5. job' \in [Calls -> Job]
  <2>1. CASE Reload(t)
    BY <1>2, <2>1 DEF Reload
  <2>2. CASE \E c \in Calls : ReloadExpired(c, t)
    BY <1>2, <1>3, <2>2 DEF ReloadExpired, boot
  <2> QED
    BY <2>1, <2>2
<1>6. Types'
  BY <1>1, <1>5 DEF IInv, Types, Pair
<1>7. KeptIsMade'
  <2>1. \A d \in Calls : job'[d] # Idle /\ job'[d].token # None
          => session[job'[d].token] # "unused"
    BY <1>3, <1>4, AbandonIsKept DEF IInv, KeptIsMade
  <2>2. \A u \in Tabs : held'[u] # None => session[held'[u]] # "unused"
    BY <1>1 DEF IInv, Types, KeptIsMade
  <2> QED
    BY <1>1, <2>1, <2>2 DEF IInv, KeptIsMade
<1>8. FreshIsMade'
  <2> SUFFICES ASSUME NEW d \in Calls, job'[d].at = "renewed"
               PROVE  job'[d].fresh \in Sids /\ session'[job'[d].fresh] # "unused"
    BY DEF FreshIsMade, Step
  <2>1. job'[d] = Abandon(t)[d] /\ Abandon(t)[d] # Idle
    BY <1>3, <1>4 DEF Idle
  <2>2. job'[d].fresh = job[d].fresh /\ Step(d, "renewed")
    BY <2>1, AbandonIsKept DEF Step
  <2> QED
    BY <1>1, <2>2 DEF IInv, FreshIsMade
<1> QED
  BY <1>6, <1>7, <1>8 DEF IInv

\* Time and the administrator unmake no session.
LEMMA WorldKeepsIInv ==
  ASSUME IInv, NEW s \in Sids, Expire(s) \/ Revoke(s)
  PROVE  IInv'
<1>1. /\ session' \in [Sids -> {"unused", "open", "revoked"}]
      /\ \A r \in Sids : session[r] # "unused" => session'[r] # "unused"
  BY DEF Expire, Revoke, IInv, Types
<1>2. UNCHANGED <<stored, held>> /\ job' = job
  BY DEF Expire, Revoke
<1>3. Types'
  BY <1>1, <1>2 DEF Expire, Revoke, IInv, Types
<1>4. KeptIsMade'
  <2>1. ASSUME NEW c \in Calls, job[c] # Idle, job[c].token # None
        PROVE  session'[job[c].token] # "unused"
    BY <1>1, <2>1, CallAsKept DEF Call, Pair
  <2> QED
    BY <1>1, <1>2, <2>1, SamePairs DEF KeptIsMade
<1>5. FreshIsMade'
  BY <1>1, <1>2 DEF IInv, FreshIsMade, Step
<1> QED
  BY <1>3, <1>4, <1>5 DEF IInv

LEMMA NextIInv == IInv /\ [Next]_vars => IInv'
<1> SUFFICES ASSUME IInv, [Next]_vars PROVE IInv'
  OBVIOUS
<1>1. CASE UNCHANGED vars
  BY <1>1 DEF vars, IInv, Types, KeptIsMade, FreshIsMade, Step
<1>2. CASE \E c \in Calls : Proceed(c) \/ Lose(c) \/ Break(c) \/ LoseRefresh(c)
  BY <1>2, SettleKeepsIInv, RefreshKeepsIInv, FindSessionKeepsIInv,
     RotateKeepsIInv, IssueKeepsIInv, RenewedKeepsIInv, ClearKeepsIInv, EndSessionKeepsIInv
  DEF Proceed
<1>3. CASE \E c \in Calls, t \in Tabs : Request(c, t) \/ SignIn(c, t) \/ Logout(c, t)
  BY <1>3, StartKeepsIInv
<1>4. CASE \E t \in Tabs : Reload(t) \/ \E c \in Calls : ReloadExpired(c, t)
  BY <1>4, ReloadKeepsIInv
<1>5. CASE \E s \in Sids : Expire(s) \/ Revoke(s)
  BY <1>5, WorldKeepsIInv
<1> QED
  BY <1>1, <1>2, <1>3, <1>4, <1>5 DEF Next

LEMMA Inductive == Spec => []IInv
BY InitIInv, NextIInv, PTL DEF Spec

\* No token in storage, in memory or on its way names a session that was
\* never made.
THEOREM TypeCorrect == Spec => []TypeOK
<1>1. IInv => TypeOK
  <2> SUFFICES ASSUME IInv PROVE TypeOK
    OBVIOUS
  <2>1. \A s \in Kept \ {None} : session[s] # "unused"
    BY DEF Kept, InFlight, IInv, KeptIsMade
  <2> QED
    BY <2>1 DEF IInv, Types, TypeOK
<1> QED
  BY <1>1, Inductive, PTL

\* A step of one call that brings it no nearer to storing a pair.
LEMMA CallRevivesNothing ==
  ASSUME IInv, NEW c \in Calls, NEW j, Become(c, j),
         c \in Reviving \/ j.at \notin Refreshing \cup {"signing"}
  PROVE  Reviving' \subseteq Reviving
<1>1. \A d \in Calls : job'[d] = IF d = c THEN j ELSE job[d]
  BY DEF Become, IInv, Types
<1> QED
  BY <1>1 DEF Reviving

\* While nothing is stored no call begins that could store tokens but a login:
\* no tab that still has some in memory can, whatever it sends, refreshes or
\* reloads. A refresh in flight when the session was cleared, and a login,
\* store tokens once at most and are over with it.
THEOREM LogoutIsFinal == Spec => LogoutHoldsInAllTabs
<1> DEFINE A == /\ \/ Reviving' \subseteq Reviving
                   \/ \E c \in Calls, t \in Tabs : SignIn(c, t)
                /\ stored' # None => \E c \in Reviving : c \notin Reviving'
<1>1. ASSUME IInv, stored = None, Next PROVE A
  <2>1. CASE \E c \in Calls : Answer(c) \/ GiveUp(c) \/ Lose(c)
                              \/ EndSession(c) \/ FinishLogout(c)
    <3>1. PICK c \in Calls : Answer(c) \/ GiveUp(c) \/ Lose(c)
                             \/ EndSession(c) \/ FinishLogout(c)
      BY <2>1
    <3>2. stored' = None
      BY <1>1, <3>1 DEF Answer, GiveUp, Lose, EndSession, FinishLogout,
         ClearSession
    <3>3. PICK j \in {Idle, Settled(c)} : Become(c, j)
      BY <3>1 DEF Answer, GiveUp, Lose, EndSession, FinishLogout
    <3>4. job[c] # Idle
      BY <3>1 DEF Answer, GiveUp, Lose, EndSession, FinishLogout, Step, Idle
    <3>5. j = Idle \/ j.at \in {"sent", "left"}
      BY <1>1, <3>3, <3>4, CallAsKept
    <3>6. j.at \notin Refreshing \cup {"signing"}
      BY <3>5 DEF Idle, Refreshing
    <3> QED
      BY <1>1, <3>2, <3>3, <3>6, CallRevivesNothing
  <2>2. CASE \E c \in Calls :
               \/ FindSession(c) \/ Refused(c) \/ Discard(c) \/ LoseRefresh(c)
               \/ Rotate(c) \/ Break(c)
               \/ \E s \in Sids : IssueTokens(c, s) \/ Grant(c, s)
    <3>1. PICK c \in Calls :
               \/ FindSession(c) \/ Refused(c) \/ Discard(c) \/ LoseRefresh(c)
               \/ Rotate(c) \/ Break(c)
               \/ \E s \in Sids : IssueTokens(c, s) \/ Grant(c, s)
      BY <2>2
    <3>2. c \in Reviving
      BY <3>1 DEF FindSession, Refused, Discard, LoseRefresh, Rotate, Break,
         IssueTokens, Grant, Step, Refreshing, Reviving
    <3>3. stored' = None
      BY <1>1, <3>1 DEF FindSession, Refused, Discard, LoseRefresh, Rotate,
         Break, IssueTokens, Grant, ClearSession
    <3>4. \E j : Become(c, j)
      BY <3>1 DEF FindSession, Refused, Discard, LoseRefresh, Rotate, Break,
         IssueTokens, Grant
    <3> QED
      BY <1>1, <3>2, <3>3, <3>4, CallRevivesNothing
  <2>3. CASE \E c \in Calls : Renewed(c)
    <3>1. PICK c \in Calls : Renewed(c)
      BY <2>3
    <3>2. c \in Reviving /\ job[c] # Idle
      BY <3>1 DEF Renewed, Step, Refreshing, Reviving, Idle
    <3> DEFINE again == [job[c] EXCEPT !.at = "sent", !.token = job[c].fresh,
                                       !.retried = TRUE, !.fresh = None]
    <3>3. job[c] \in Call /\ again.at = "sent"
      BY <1>1, <3>2, JobTypes DEF Call, IInv
    <3>4. Become(c, Idle) \/ Become(c, again)
      BY <3>1 DEF Renewed
    <3> HIDE DEF again
    <3>5. PICK j : Become(c, j) /\ (j = Idle \/ j = again)
      BY <3>4
    <3>6. j.at \notin Refreshing \cup {"signing"} /\ job'[c] = j
      BY <1>1, <3>3, <3>5 DEF Idle, Refreshing, Become, IInv, Types
    <3>7. c \notin Reviving'
      BY <3>6 DEF Reviving
    <3> QED
      BY <1>1, <3>2, <3>5, <3>7, CallRevivesNothing
  <2>4. CASE \E c \in Calls, t \in Tabs : Request(c, t) \/ Logout(c, t)
    <3>1. PICK c \in Calls, t \in Tabs : Request(c, t) \/ Logout(c, t)
      BY <2>4
    <3>2. stored' = None
      BY <1>1, <3>1 DEF Request, Logout
    <3> DEFINE left == [Send(t, "logout", None) EXCEPT !.at = "left"]
    <3>3. PICK j \in {Send(t, "request", None), left} : Become(c, j)
      BY <1>1, <3>1 DEF Request, Logout
    <3>4. j.at \in {"sent", "left"}
      BY <3>3 DEF Send
    <3> QED
      BY <1>1, <3>2, <3>3, <3>4, CallRevivesNothing DEF Refreshing
  <2>5. CASE \E c \in Calls, t \in Tabs : SignIn(c, t)
    BY <1>1, <2>5 DEF SignIn
  <2>6. CASE \E c \in Calls, t \in Tabs : ReloadExpired(c, t)
    BY <1>1, <2>6, WebAssumption DEF ReloadExpired, IInv, Types
  <2>7. CASE \E c \in Calls : Refresh(c)
    BY <1>1, <2>7 DEF Refresh, RefreshToken
  <2>8. CASE \E t \in Tabs : Reload(t)
    <3>1. PICK t \in Tabs : Reload(t)
      BY <2>8
    <3>2. stored' = None /\ job' = Abandon(t)
      BY <1>1, <3>1 DEF Reload
    <3>3. ASSUME NEW d \in Calls, job'[d].at \in Refreshing \cup {"signing"}
          PROVE  d \in Reviving
      <4>1. Abandon(t)[d] # Idle
        BY <3>2, <3>3 DEF Idle, Refreshing
      <4> QED
        BY <1>1, <3>2, <3>3, <4>1, AbandonIsKept DEF Reviving
    <3> QED
      BY <3>2, <3>3 DEF Reviving
  <2>9. CASE \E s \in Sids : Expire(s) \/ Revoke(s)
    BY <1>1, <2>9 DEF Expire, Revoke, Reviving
  <2> QED
    BY <1>1, <2>1, <2>2, <2>3, <2>4, <2>5, <2>6, <2>7, <2>8, <2>9
    DEF Next, Proceed
<1>2. IInv /\ [Next]_vars
        => [stored = None =>
              /\ \/ Reviving' \subseteq Reviving
                 \/ \E c \in Calls, t \in Tabs : SignIn(c, t)
              /\ stored' # None => \E c \in Reviving : c \notin Reviving']_vars
  BY <1>1
<1> QED
  BY <1>2, Inductive, PTL DEF Spec, LogoutHoldsInAllTabs

-----------------------------------------------------------------------------
(* The session stored is the one open at the API. While undisturbed, at most *)
(* one call changes the session, and what is open follows from how far that  *)
(* call has come.                                                            *)

Open == {s \in Sids : session[s] = "open"}
StoredIsOpen == Open = {stored} \ {None}

InStep(c) ==
  /\ job[c].tab # None
  /\ \/ /\ job[c].at \in {"refreshing", "found"} /\ job[c].kind # "logout"
        /\ stored # None /\ job[c].token = stored /\ StoredIsOpen
     \/ /\ job[c].at = "rotated" /\ job[c].kind # "logout"
        /\ stored # None /\ Open = {}
     \/ /\ job[c].at = "signing" /\ job[c].kind = "signIn" /\ StoredIsOpen
     \/ /\ job[c].at = "renewed" /\ job[c].kind # "logout"
        /\ \/ Open = {job[c].fresh}
           \/ /\ job[c].kind = "signIn"
              /\ Open = {job[c].fresh} \cup ({stored} \ {None})
     \/ /\ job[c].at = "sent" /\ job[c].kind = "logout" /\ ~job[c].retried
        /\ stored # None /\ job[c].body = stored /\ StoredIsOpen
     \/ job[c].at = "left" /\ Open = {}

OneChange ==
  /\ \A c, d \in Calls : Changing(c) /\ Changing(d) => c = d
  /\ \A c \in Calls : Changing(c) => InStep(c)
  /\ (\A c \in Calls : ~Changing(c)) => StoredIsOpen

InOrder == ~disturbed => OneChange

\* Steps that change no session, storage or call that matters.
LEMMA QuietKeepsOrder ==
  ASSUME OneChange, UNCHANGED <<session, stored>>,
         \A d \in Calls : Changing(d)' <=> Changing(d),
         \A d \in Calls : Changing(d) => job'[d] = job[d]
  PROVE  OneChange'
<1>1. Open' = Open /\ StoredIsOpen' = StoredIsOpen
  BY DEF Open, StoredIsOpen
<1>2. ASSUME NEW d \in Calls, Changing(d)' PROVE InStep(d)'
  <2>1. Changing(d) /\ InStep(d) /\ job'[d] = job[d]
    BY <1>2 DEF OneChange
  <2> QED
    BY <1>1, <2>1 DEF InStep
<1> QED
  BY <1>1, <1>2 DEF OneChange

\* Steps after which only c may be changing the session.
LEMMA AloneKeepsOrder ==
  ASSUME NEW c \in Calls, \A d \in Calls : d # c => ~Changing(d)',
         \/ Changing(c)' /\ InStep(c)'
         \/ ~Changing(c)' /\ StoredIsOpen'
  PROVE  OneChange'
BY DEF OneChange

\* A step of c, the only call that changes the session or the first to.
LEMMA CallKeepsOrder ==
  ASSUME IInv, OneChange, NEW c \in Calls, NEW j \in Job, Become(c, j),
         Changing(c) \/ \A d \in Calls : ~Changing(d),
         \/ Changing(c)' /\ InStep(c)'
         \/ ~Changing(c)' /\ StoredIsOpen'
  PROVE  OneChange'
<1>1. \A d \in Calls : d # c => job'[d] = job[d]
  BY DEF Become, IInv, Types
<1>2. \A d \in Calls : d # c => ~Changing(d)'
  BY <1>1 DEF OneChange, Changing, Step
<1> QED
  BY <1>2, AloneKeepsOrder

\* A step of a call that does not change the session before or after it.
LEMMA BystanderKeepsOrder ==
  ASSUME IInv, OneChange, NEW c \in Calls, NEW j, Become(c, j),
         UNCHANGED <<session, stored>>, ~Changing(c), ~Changing(c)'
  PROVE  OneChange'
<1>1. \A d \in Calls : d # c => job'[d] = job[d]
  BY DEF Become, IInv, Types
<1>2. \A d \in Calls : d # c => (Changing(d)' <=> Changing(d))
  BY <1>1 DEF Changing, Step
<1> QED
  BY <1>1, <1>2, QuietKeepsOrder

LEMMA IdleDoesNotChange ==
  ASSUME NEW c \in Calls, job[c] = Idle
  PROVE  ~Changing(c)
BY DEF Changing

\* What it takes to begin undisturbed.
LEMMA BeginsAlone ==
  ASSUME IInv, InOrder, Begin, ~disturbed'
  PROVE  OneChange /\ StoredIsOpen /\ \A d \in Calls : ~Changing(d)
BY DEF Begin, InOrder, OneChange, IInv, Types

\* The one call under way while undisturbed, and where it is.
LEMMA GoesOnAlone ==
  ASSUME IInv, InOrder, ~disturbed, NEW c \in Calls,
         job[c].at \in Refreshing \cup {"signing", "left"}
  PROVE  OneChange /\ Changing(c) /\ InStep(c) /\ job[c] \in Call
<1>1. job[c] # Idle
  BY DEF Refreshing, Idle
<1>2. Changing(c)
  BY <1>1 DEF Changing, Step, Refreshing
<1> QED
  BY <1>1, <1>2, JobTypes DEF InOrder, OneChange, IInv

\* A logout on its way while undisturbed, and any other request.
LEMMA SentAlone ==
  ASSUME IInv, InOrder, ~disturbed, NEW c \in Calls, Step(c, "sent")
  PROVE  /\ OneChange /\ job[c] \in Call /\ job[c] # Idle
         /\ Changing(c) <=> job[c].kind = "logout"
         /\ Changing(c) => InStep(c)
<1>1. job[c] # Idle
  BY DEF Step, Idle
<1> QED
  BY <1>1, JobTypes DEF Changing, InOrder, OneChange, IInv

LEMMA SettleKeepsOrder ==
  ASSUME IInv, InOrder, NEW c \in Calls, Answer(c) \/ GiveUp(c) \/ Lose(c)
  PROVE  InOrder'
<1> SUFFICES ASSUME ~disturbed' PROVE OneChange'
  BY DEF InOrder
<1>1. ~disturbed
  BY DEF Answer, GiveUp, Lose, IInv, Types
<1>2. UNCHANGED <<session, stored>>
  BY DEF Answer, GiveUp, Lose
<1>3. job[c].kind # "logout" /\ Become(c, Idle)
  <2>1. CASE Answer(c)
    BY <2>1 DEF Answer
  <2>2. CASE GiveUp(c)
    <3>1. job[c].kind # "logout"
      BY <1>1, <2>2, SentAlone DEF GiveUp, RefreshToken, InStep, Step
    <3> QED
      BY <2>2, <3>1 DEF GiveUp, Settled
  <2>3. CASE Lose(c)
    BY <2>3 DEF Lose, Settled
  <2> QED
    BY <2>1, <2>2, <2>3
<1>4. job'[c] = Idle /\ ~Changing(c)'
  BY <1>3 DEF Become, IInv, Types, Changing
<1>5. CASE Step(c, "sent")
  <2>1. OneChange /\ ~Changing(c)
    BY <1>1, <1>3, <1>5, SentAlone
  <2> QED
    BY <1>2, <1>3, <1>4, <2>1, BystanderKeepsOrder
<1>6. CASE Step(c, "signing")
  <2>1. OneChange /\ Changing(c) /\ StoredIsOpen
    BY <1>1, <1>6, GoesOnAlone DEF Step, InStep
  <2>2. StoredIsOpen'
    BY <1>2, <2>1 DEF StoredIsOpen, Open
  <2>3. Idle \in Job
    BY DEF Job
  <2> QED
    BY <1>3, <1>4, <2>1, <2>2, <2>3, CallKeepsOrder
<1> QED
  BY <1>5, <1>6 DEF Answer, GiveUp, Lose, Step

LEMMA RequestKeepsOrder ==
  ASSUME IInv, InOrder, NEW c \in Calls, NEW t \in Tabs, Request(c, t)
  PROVE  InOrder'
<1> DEFINE j == Send(t, "request", None)
<1>1. /\ Become(c, j) /\ UNCHANGED <<session, stored>>
      /\ disturbed' = disturbed /\ job[c] = Idle
  BY DEF Request
<1>2. j.at = "sent" /\ j.kind = "request"
  BY DEF Send
<1> HIDE DEF j
<1>3. job'[c] = j
  BY <1>1 DEF Become, IInv, Types
<1>4. ~Changing(c) /\ ~Changing(c)'
  BY <1>1, <1>2, <1>3 DEF Changing, Step
<1> QED
  BY <1>1, <1>4, BystanderKeepsOrder DEF InOrder

LEMMA RefreshKeepsOrder ==
  ASSUME IInv, InOrder, NEW c \in Calls, Refresh(c)
  PROVE  InOrder'
<1> SUFFICES ASSUME ~disturbed' PROVE OneChange'
  BY DEF InOrder
<1> DEFINE j == [job[c] EXCEPT !.at = "refreshing", !.token = stored]
<1>1. OneChange /\ StoredIsOpen /\ \A d \in Calls : ~Changing(d)
  BY BeginsAlone DEF Refresh
<1>2. ~disturbed
  BY DEF Refresh, Begin, IInv, Types
<1>3. job[c] \in Call /\ job[c].kind # "logout"
  BY <1>1, <1>2, SentAlone DEF Refresh
<1>4. /\ j \in Job /\ j.at = "refreshing" /\ j.token = stored
      /\ j.kind = job[c].kind /\ j.tab = job[c].tab /\ j # Idle
  BY <1>3 DEF IInv, Types, Job, Call, Refreshing, Idle
<1>5. /\ Become(c, j) /\ UNCHANGED <<session, stored>>
      /\ job[c].tab # None /\ stored # None
  BY DEF Refresh, RefreshToken
<1> HIDE DEF j
<1>6. job'[c] = j
  BY <1>5 DEF Become, IInv, Types
<1>7. Changing(c)' /\ InStep(c)'
  BY <1>1, <1>3, <1>4, <1>5, <1>6 DEF Changing, Step, InStep, StoredIsOpen, Open
<1> QED
  BY <1>1, <1>4, <1>5, <1>7, CallKeepsOrder


LEMMA FindSessionKeepsOrder ==
  ASSUME IInv, InOrder, NEW c \in Calls, FindSession(c)
  PROVE  InOrder'
<1> SUFFICES ASSUME ~disturbed' PROVE OneChange'
  BY DEF InOrder
<1>1. ~disturbed /\ UNCHANGED <<session, stored>>
  BY DEF FindSession
<1>2. OneChange /\ Changing(c) /\ InStep(c) /\ job[c] \in Call
  BY <1>1, GoesOnAlone DEF FindSession, Step, Refreshing
<1>3. /\ stored # None /\ job[c].token = stored /\ StoredIsOpen
      /\ job[c].kind # "logout" /\ job[c].tab # None
  BY <1>2 DEF FindSession, Step, InStep
<1> DEFINE j == [job[c] EXCEPT !.at = "found"]
<1>4. Become(c, j)
  BY <1>3 DEF FindSession, StoredIsOpen, Open
<1>5. /\ j \in Job /\ j.at = "found" /\ j.token = stored /\ j # Idle
      /\ j.kind = job[c].kind /\ j.tab = job[c].tab
  BY <1>2, <1>3 DEF Job, Call, Refreshing, Idle
<1> HIDE DEF j
<1>6. job'[c] = j
  BY <1>4 DEF Become, IInv, Types
<1>7. Changing(c)' /\ InStep(c)'
  BY <1>1, <1>3, <1>5, <1>6 DEF Changing, Step, InStep, StoredIsOpen, Open
<1> QED
  BY <1>2, <1>4, <1>5, <1>7, CallKeepsOrder

\* The session found is the only one open, and the one that ends.
LEMMA RotateKeepsOrder ==
  ASSUME IInv, InOrder, NEW c \in Calls, Rotate(c)
  PROVE  InOrder'
<1> SUFFICES ASSUME ~disturbed' PROVE OneChange'
  BY DEF InOrder
<1> DEFINE j == [job[c] EXCEPT !.at = "rotated"]
<1>1. ~disturbed /\ UNCHANGED stored /\ Become(c, j)
  BY DEF Rotate
<1>2. OneChange /\ Changing(c) /\ InStep(c) /\ job[c] \in Call
  BY <1>1, GoesOnAlone DEF Rotate, Step, Refreshing
<1>3. /\ j \in Job /\ j.at = "rotated" /\ j # Idle
      /\ j.kind = job[c].kind /\ j.tab = job[c].tab
  BY <1>2 DEF Job, Call, Refreshing, Idle
<1> HIDE DEF j
<1>4. job'[c] = j
  BY <1>1 DEF Become, IInv, Types
<1>5. /\ job[c].token = stored /\ stored # None /\ StoredIsOpen
      /\ job[c].kind # "logout" /\ job[c].tab # None
  BY <1>2 DEF Rotate, Step, InStep
<1>6. Open' = {}
  BY <1>5 DEF Rotate, StoredIsOpen, Open, IInv, Types, Pair
<1>7. Changing(c)' /\ InStep(c)'
  BY <1>1, <1>3, <1>4, <1>5, <1>6 DEF Changing, Step, InStep
<1> QED
  BY <1>1, <1>2, <1>3, <1>7, CallKeepsOrder

\* A new session takes the place of the one refreshed, or joins the one stored.
LEMMA IssueKeepsOrder ==
  ASSUME IInv, InOrder, NEW c \in Calls, NEW s \in Sids,
         IssueTokens(c, s) \/ Grant(c, s)
  PROVE  InOrder'
<1> SUFFICES ASSUME ~disturbed' PROVE OneChange'
  BY DEF InOrder
<1> DEFINE j == [job[c] EXCEPT !.at = "renewed", !.fresh = s]
<1>1. /\ ~disturbed /\ UNCHANGED stored /\ Become(c, j)
      /\ session' = [session EXCEPT ![s] = "open"]
  BY DEF IssueTokens, Grant
<1>2. OneChange /\ Changing(c) /\ InStep(c) /\ job[c] \in Call
  BY <1>1, GoesOnAlone DEF IssueTokens, Grant, Step, Refreshing
<1>3. /\ j \in Job /\ j.at = "renewed" /\ j.fresh = s /\ j # Idle
      /\ j.kind = job[c].kind /\ j.tab = job[c].tab
  BY <1>2 DEF Job, Call, Refreshing, Pair, Idle
<1> HIDE DEF j
<1>4. job'[c] = j
  BY <1>1 DEF Become, IInv, Types
<1>5. Open' = Open \cup {s}
  BY <1>1 DEF Open, IInv, Types
<1>6. CASE IssueTokens(c, s)
  <2>1. job[c].kind # "logout" /\ job[c].tab # None /\ Open = {}
    BY <1>2, <1>6 DEF IssueTokens, Step, InStep
  <2>2. Open' = {j.fresh}
    BY <1>3, <1>5, <2>1
  <2>3. Changing(c)' /\ InStep(c)'
    BY <1>3, <1>4, <2>1, <2>2 DEF Changing, Step, InStep
  <2> QED
    BY <1>1, <1>2, <1>3, <2>3, CallKeepsOrder
<1>7. CASE Grant(c, s)
  <2>1. job[c].kind = "signIn" /\ StoredIsOpen /\ job[c].tab # None
    BY <1>2, <1>7 DEF Grant, Step, InStep
  <2>2. Open' = {j.fresh} \cup ({stored'} \ {None})
    BY <1>1, <1>3, <1>5, <2>1 DEF StoredIsOpen
  <2>3. Changing(c)' /\ InStep(c)'
    BY <1>3, <1>4, <2>1, <2>2 DEF Changing, Step, InStep
  <2> QED
    BY <1>1, <1>2, <1>3, <2>3, CallKeepsOrder
<1> QED
  BY <1>6, <1>7

\* The new pair is stored while the session it names is the only one open.
LEMMA RenewedKeepsOrder ==
  ASSUME IInv, InOrder, NEW c \in Calls, Renewed(c)
  PROVE  InOrder'
<1> SUFFICES ASSUME ~disturbed' PROVE OneChange'
  BY DEF InOrder
<1> DEFINE f == job[c].fresh
           j == IF job[c].kind \in {"boot", "signIn"} THEN Idle
                ELSE [job[c] EXCEPT !.at = "sent", !.token = f,
                                    !.retried = TRUE, !.fresh = None]
<1>1. /\ ~disturbed /\ UNCHANGED session /\ Become(c, j) /\ stored' = f
      /\ job[c].kind = "signIn" => stored = None
  BY DEF Renewed, ApplyTokens, IInv, Types
<1>2. OneChange /\ Changing(c) /\ InStep(c) /\ job[c] \in Call
  BY <1>1, GoesOnAlone DEF Renewed, Step, Refreshing
<1>3. f \in Sids /\ f # None
  BY WebAssumption DEF Renewed, IInv, FreshIsMade
<1>4. job[c].kind # "logout" /\ Open = {f}
  BY <1>1, <1>2 DEF Renewed, Step, InStep
<1>5. j \in Job /\ (j # Idle => j.at = "sent" /\ j.kind # "logout")
  BY <1>2, <1>3, <1>4 DEF Job, Call, Pair
<1> HIDE DEF j, f
<1>6. job'[c] = j
  BY <1>1 DEF Become, IInv, Types
<1>7. ~Changing(c)'
  BY <1>5, <1>6 DEF Changing, Step
<1>8. StoredIsOpen'
  BY <1>1, <1>3, <1>4 DEF StoredIsOpen, Open
<1> QED
  BY <1>1, <1>2, <1>5, <1>7, <1>8, CallKeepsOrder

\* While undisturbed a refresh is not refused and no reply finds its tab gone.
LEMMA NothingIsRefused ==
  ASSUME IInv, InOrder, NEW c \in Calls, Refused(c) \/ Discard(c)
  PROVE  disturbed
<1> SUFFICES ASSUME ~disturbed PROVE FALSE
  BY DEF IInv, Types
<1>1. job[c].at \in Refreshing
  BY DEF Refused, Discard, Step, Refreshing
<1>2. InStep(c)
  BY <1>1, GoesOnAlone
<1> QED
  BY <1>2 DEF Refused, Discard, Step, InStep

LEMMA SignInKeepsOrder ==
  ASSUME IInv, InOrder, NEW c \in Calls, NEW t \in Tabs, SignIn(c, t)
  PROVE  InOrder'
<1> SUFFICES ASSUME ~disturbed' PROVE OneChange'
  BY DEF InOrder
<1> DEFINE j == [Send(t, "signIn", None) EXCEPT !.at = "signing", !.token = None]
<1>1. OneChange /\ StoredIsOpen /\ \A d \in Calls : ~Changing(d)
  BY BeginsAlone DEF SignIn
<1>2. Become(c, j) /\ UNCHANGED <<session, stored>>
  BY DEF SignIn
<1>3. Send(t, "signIn", None) \in Call
  BY SendIsKept DEF Kinds, Pair
<1>4. j \in Job /\ j.at = "signing" /\ j.kind = "signIn" /\ j.tab = t /\ j # Idle
  BY <1>3 DEF Send, Job, Call, Pair, Idle
<1> HIDE DEF j
<1>5. job'[c] = j
  BY <1>2 DEF Become, IInv, Types
<1>6. Changing(c)' /\ InStep(c)'
  BY <1>1, <1>2, <1>4, <1>5, WebAssumption
  DEF Changing, Step, InStep, StoredIsOpen, Open
<1> QED
  BY <1>1, <1>2, <1>4, <1>6, CallKeepsOrder

LEMMA LogoutKeepsOrder ==
  ASSUME IInv, InOrder, NEW c \in Calls, NEW t \in Tabs, Logout(c, t)
  PROVE  InOrder'
<1> SUFFICES ASSUME ~disturbed' PROVE OneChange'
  BY DEF InOrder
<1>1. OneChange /\ StoredIsOpen /\ \A d \in Calls : ~Changing(d)
  BY BeginsAlone DEF Logout
<1>2. UNCHANGED <<session, stored>> /\ stored \in Pair /\ None \in Pair
  BY DEF Logout, IInv, Types, Pair
<1>3. PICK j \in Job : /\ Become(c, j) /\ j.tab = t /\ j # Idle
                       /\ \/ stored = None /\ j.at = "left"
                          \/ /\ stored # None /\ j.at = "sent" /\ ~j.retried
                             /\ j.kind = "logout" /\ j.body = stored
  <2>1. CASE stored = None
    <3>1. Send(t, "logout", None) \in Call
      BY <1>2, SendIsKept DEF Kinds
    <3>2. [Send(t, "logout", None) EXCEPT !.at = "left"] \in Call
      BY <3>1 DEF Call
    <3> QED
      BY <2>1, <3>2 DEF Logout, Job, Send, Idle
  <2>2. CASE stored # None
    <3>1. Send(t, "logout", stored) \in Call
      BY <1>2, SendIsKept DEF Kinds
    <3> QED
      BY <2>2, <3>1 DEF Logout, Job, Send, Idle
  <2> QED
    BY <2>1, <2>2
<1>4. job'[c] = j
  BY <1>3 DEF Become, IInv, Types
<1>5. Changing(c)' /\ InStep(c)'
  BY <1>1, <1>2, <1>3, <1>4, WebAssumption
  DEF Changing, Step, InStep, StoredIsOpen, Open
<1> QED
  BY <1>1, <1>3, <1>5, CallKeepsOrder

\* The session that ends is the one that was stored when the logout began.
LEMMA EndSessionKeepsOrder ==
  ASSUME IInv, InOrder, NEW c \in Calls, EndSession(c)
  PROVE  InOrder'
<1> SUFFICES ASSUME ~disturbed' PROVE OneChange'
  BY DEF InOrder
<1>1. ~disturbed
  BY DEF EndSession
<1>2. OneChange /\ Changing(c) /\ InStep(c) /\ job[c] \in Call
  BY <1>1, SentAlone DEF EndSession
<1>3. /\ stored # None /\ job[c].body = stored /\ StoredIsOpen
      /\ job[c].tab # None
  BY <1>2 DEF EndSession, Step, InStep
<1> DEFINE j == [job[c] EXCEPT !.at = "left"]
<1>4. Become(c, j)
  BY <1>3 DEF EndSession, Settled
<1>5. j \in Job /\ j.at = "left" /\ j.tab = job[c].tab /\ j # Idle
  BY <1>2 DEF Job, Call, Idle
<1> HIDE DEF j
<1>6. job'[c] = j
  BY <1>4 DEF Become, IInv, Types
<1>7. Open' = {}
  BY <1>3 DEF EndSession, Open, StoredIsOpen, IInv, Types, Pair
<1>8. Changing(c)' /\ InStep(c)'
  BY <1>3, <1>5, <1>6, <1>7 DEF Changing, Step, InStep
<1> QED
  BY <1>2, <1>4, <1>5, <1>8, CallKeepsOrder

LEMMA FinishLogoutKeepsOrder ==
  ASSUME IInv, InOrder, NEW c \in Calls, FinishLogout(c)
  PROVE  InOrder'
<1> SUFFICES ASSUME ~disturbed' PROVE OneChange'
  BY DEF InOrder
<1>1. /\ ~disturbed /\ UNCHANGED session /\ stored' = None
      /\ Become(c, Idle) /\ Idle \in Job
  BY DEF FinishLogout, ClearSession, Job
<1>2. OneChange /\ Changing(c) /\ InStep(c)
  BY <1>1, GoesOnAlone DEF FinishLogout, Step
<1>3. Open = {}
  BY <1>2 DEF FinishLogout, Step, InStep
<1>4. StoredIsOpen'
  BY <1>1, <1>3 DEF StoredIsOpen, Open
<1>5. ~Changing(c)'
  BY <1>1 DEF Become, IInv, Types, Changing
<1> QED
  BY <1>1, <1>2, <1>4, <1>5, CallKeepsOrder

\* A reload leaves undisturbed only calls that do not change the session, or
\* belong to another tab.
LEMMA AbandonIsQuiet ==
  ASSUME IInv, NEW t \in Tabs, ~Interrupted(t), NEW d \in Calls,
         job'[d] = Abandon(t)[d]
  PROVE  /\ Changing(d)' <=> Changing(d)
         /\ Changing(d) => job'[d] = job[d]
<1>1. CASE job[d] = Idle
  BY <1>1 DEF Abandon, Changing
<1>2. CASE job[d] # Idle /\ job[d].tab # t
  BY <1>2 DEF Abandon, Changing, Step
<1>3. CASE job[d] # Idle /\ job[d].tab = t
  <2>1. ~Changing(d) /\ job[d] \in Call
    BY <1>3, JobTypes DEF Interrupted, IInv
  <2>2. Step(d, "sent") /\ job[d].kind # "logout"
    BY <1>3, <2>1 DEF Changing
  <2>3. job'[d] = [job[d] EXCEPT !.tab = None]
    BY <1>3, <2>2 DEF Abandon, Step
  <2>4. job'[d].at = "sent" /\ job'[d].kind # "logout"
    BY <2>1, <2>2, <2>3 DEF Call, Step
  <2> QED
    BY <2>1, <2>4 DEF Changing, Step
<1> QED
  BY <1>1, <1>2, <1>3

LEMMA ReloadKeepsOrder ==
  ASSUME IInv, InOrder, NEW t \in Tabs, Reload(t)
  PROVE  InOrder'
<1> SUFFICES ASSUME ~disturbed' PROVE OneChange'
  BY DEF InOrder
<1>1. ~disturbed /\ ~Interrupted(t) /\ UNCHANGED <<session, stored>>
  BY DEF Reload, IInv, Types
<1>2. \A d \in Calls : job'[d] = Abandon(t)[d]
  BY DEF Reload
<1> QED
  BY <1>1, <1>2, AbandonIsQuiet, QuietKeepsOrder DEF InOrder

LEMMA ReloadExpiredKeepsOrder ==
  ASSUME IInv, InOrder, NEW c \in Calls, NEW t \in Tabs, ReloadExpired(c, t)
  PROVE  InOrder'
<1> SUFFICES ASSUME ~disturbed' PROVE OneChange'
  BY DEF InOrder
<1> DEFINE j == [Send(t, "boot", None) EXCEPT !.at = "refreshing", !.token = stored]
<1>1. OneChange /\ StoredIsOpen /\ \A d \in Calls : ~Changing(d)
  BY BeginsAlone DEF ReloadExpired
<1>2. /\ UNCHANGED <<session, stored>> /\ stored \in Sids /\ stored # None
      /\ job' = [Abandon(t) EXCEPT ![c] = j]
  BY WebAssumption DEF ReloadExpired, IInv, Types
<1>3. Send(t, "boot", None) \in Call
  BY SendIsKept DEF Kinds, Pair
<1>4. /\ j.at = "refreshing" /\ j.kind = "boot" /\ j.tab = t
      /\ j.token = stored /\ j # Idle
  BY <1>3 DEF Send, Call, Idle
<1> HIDE DEF j
<1>5. job'[c] = j /\ \A d \in Calls : d # c => job'[d] = Abandon(t)[d]
  BY <1>2 DEF Abandon
<1>6. \A d \in Calls : d # c => ~Changing(d)'
  BY <1>1, <1>5, AbandonIsQuiet DEF Interrupted
<1>7. Changing(c)' /\ InStep(c)'
  BY <1>1, <1>2, <1>4, <1>5, WebAssumption
  DEF Changing, Step, InStep, StoredIsOpen, Open
<1> QED
  BY <1>6, <1>7, AloneKeepsOrder

LEMMA InitInOrder == Init => InOrder
<1> SUFFICES ASSUME Init PROVE OneChange
  BY DEF InOrder
<1>1. \A c \in Calls : ~Changing(c)
  BY DEF Init, Changing
<1>2. StoredIsOpen
  BY DEF Init, StoredIsOpen, Open
<1> QED
  BY <1>1, <1>2 DEF OneChange

LEMMA NextInOrder == IInv /\ InOrder /\ [Next]_vars => InOrder'
<1> SUFFICES ASSUME IInv, InOrder, [Next]_vars PROVE InOrder'
  OBVIOUS
<1>1. CASE UNCHANGED vars
  <2>1. \A d \in Calls : Changing(d)' <=> Changing(d)
    BY <1>1 DEF vars, Changing, Step
  <2> QED
    BY <1>1, <2>1, QuietKeepsOrder DEF vars, InOrder
<1>2. CASE \E c \in Calls : Proceed(c) \/ Lose(c)
  <2>1. PICK c \in Calls : Proceed(c) \/ Lose(c)
    BY <1>2
  <2>2. CASE Refused(c) \/ Discard(c)
    BY <2>2, NothingIsRefused DEF Refused, Discard, InOrder
  <2> QED
    BY <2>1, <2>2, SettleKeepsOrder, RefreshKeepsOrder, FindSessionKeepsOrder,
       RotateKeepsOrder, IssueKeepsOrder, RenewedKeepsOrder, EndSessionKeepsOrder,
       FinishLogoutKeepsOrder
    DEF Proceed
<1>3. CASE \E c \in Calls, t \in Tabs :
             Request(c, t) \/ SignIn(c, t) \/ Logout(c, t) \/ ReloadExpired(c, t)
  BY <1>3, RequestKeepsOrder, SignInKeepsOrder, LogoutKeepsOrder,
     ReloadExpiredKeepsOrder
<1>4. CASE \E t \in Tabs : Reload(t)
  BY <1>4, ReloadKeepsOrder
<1>5. CASE \E s \in Sids : Expire(s)
  <2>1. UNCHANGED <<session, stored, job, disturbed>>
    BY <1>5 DEF Expire
  <2>2. \A d \in Calls : Changing(d)' <=> Changing(d)
    BY <2>1 DEF Changing, Step
  <2> QED
    BY <2>1, <2>2, QuietKeepsOrder DEF InOrder
<1>6. CASE \/ \E c \in Calls : LoseRefresh(c) \/ Break(c)
           \/ \E s \in Sids : Revoke(s)
  BY <1>6 DEF LoseRefresh, Break, Revoke, InOrder
<1> QED
  BY <1>1, <1>2, <1>3, <1>4, <1>5, <1>6 DEF Next

\* However many tabs, calls and sessions there are and whatever expired
\* before, a browser that does one thing at a time, undisturbed in the sense
\* of the property, has no session open but the one it stores.
THEOREM NothingIsLeftBehind == Spec => []NoSessionIsLeftBehind
<1>1. IInv /\ InOrder /\ [Next]_vars => (IInv /\ InOrder)'
  BY NextIInv, NextInOrder
<1>2. InOrder => NoSessionIsLeftBehind
  BY DEF InOrder, OneChange, NoSessionIsLeftBehind, StoredIsOpen, Open
<1> QED
  BY <1>1, <1>2, InitIInv, InitInOrder, PTL DEF Spec

-----------------------------------------------------------------------------
(* Overlaps, lost replies and failures included, a session that has ended is *)
(* not kept: some call is then about to replace the stored pair or clear it. *)
(* The pair of a reply on its way is open, since no other call knows it yet. *)

SignInSteps ==
  \A c \in Calls : job[c] # Idle /\ job[c].kind = "signIn" =>
    job[c].at \in {"signing", "renewed"}

BodiesAreMade ==
  \A c \in Calls : job[c] # Idle /\ job[c].body # None =>
    session[job[c].body] # "unused"

\* d has no way to end session s, nor will it store it.
Ignores(d, s) ==
  /\ job[d] # Idle => job[d].body # s
  /\ job[d].at \in {"refreshing", "found"} => job[d].token # s
  /\ job[d].at = "renewed" => job[d].fresh # s

FreshIsNew ==
  \A c \in Calls : Step(c, "renewed") =>
    /\ job[c].fresh # stored /\ job[c].body # job[c].fresh
    /\ \A d \in Calls : d # c => Ignores(d, job[c].fresh)

Apart == IInv /\ SignInSteps /\ BodiesAreMade /\ FreshIsNew

\* c will store a new pair or none.
Replaces(c) ==
  /\ job[c].at \in {"rotated", "renewed", "refused", "left"}
  /\ job[c].tab # None /\ job[c].kind # "signIn"

Mended ==
  ~severed =>
    /\ \A c \in Calls : Changing(c) => job[c].tab # None
    /\ \A c \in Calls : Step(c, "renewed") => session[job[c].fresh] = "open"
    /\ stored # None /\ session[stored] # "open" => \E c \in Calls : Replaces(c)

\* A step of one call: it takes up no pair that is on its way to another.
LEMMA CallKeepsApart ==
  ASSUME Apart, IInv', NEW c \in Calls, NEW j \in Job, Become(c, j),
         \A s \in Sids : session[s] # "unused" => session'[s] # "unused",
         j # Idle => /\ j.kind = "signIn" => j.at \in {"signing", "renewed"}
                     /\ j.body # None => session'[j.body] # "unused",
         \A d \in Calls : d # c /\ Step(d, "renewed") =>
           /\ stored' # job[d].fresh
           /\ j # Idle => j.body # job[d].fresh
           /\ j.at \in {"refreshing", "found"} => j.token # job[d].fresh
           /\ j.at = "renewed" => j.fresh # job[d].fresh,
         j.at = "renewed" =>
           /\ j.fresh # stored' /\ j.body # j.fresh
           /\ \A d \in Calls : d # c => Ignores(d, j.fresh)
  PROVE  Apart'
<1>1. job'[c] = j /\ \A d \in Calls : d # c => job'[d] = job[d]
  BY DEF Become, Apart, IInv, Types
<1>2. SignInSteps'
  BY <1>1 DEF Apart, SignInSteps
<1>3. BodiesAreMade'
  <2> SUFFICES ASSUME NEW d \in Calls, job'[d] # Idle, job'[d].body # None
               PROVE  session'[job'[d].body] # "unused"
    BY DEF BodiesAreMade
  <2>1. CASE d = c
    BY <1>1, <2>1
  <2>2. CASE d # c
    <3>1. job[d] \in Call /\ job'[d] = job[d]
      BY <1>1, <2>2, JobTypes DEF Apart, IInv
    <3>2. job[d].body \in Sids /\ session[job[d].body] # "unused"
      BY <3>1 DEF Call, Pair, Apart, BodiesAreMade
    <3> QED
      BY <3>1, <3>2
  <2> QED
    BY <2>1, <2>2
<1>4. FreshIsNew'
  <2> SUFFICES ASSUME NEW e \in Calls, job'[e].at = "renewed"
               PROVE  /\ job'[e].fresh # stored' /\ job'[e].body # job'[e].fresh
                      /\ \A d \in Calls : d # e => Ignores(d, job[e].fresh)'
    BY DEF FreshIsNew, Step
  <2>1. CASE e = c
    BY <1>1, <2>1 DEF Ignores
  <2>2. CASE e # c
    <3>1. job'[e] = job[e] /\ Step(e, "renewed") /\ job[e] # Idle
      BY <1>1, <2>2 DEF Step, Idle
    <3>2. ASSUME NEW d \in Calls, d # e PROVE Ignores(d, job[e].fresh)'
      <4>1. CASE d = c
        BY <1>1, <2>2, <3>1, <4>1 DEF Ignores
      <4>2. CASE d # c
        BY <1>1, <3>1, <3>2, <4>2 DEF Apart, FreshIsNew, Ignores
      <4> QED
        BY <4>1, <4>2
    <3> QED
      BY <2>2, <3>1, <3>2 DEF Apart, FreshIsNew
  <2> QED
    BY <2>1, <2>2
<1> QED
  BY <1>2, <1>3, <1>4 DEF Apart

\* Steps that leave a call its body and its kind, and give it no pair.
LEMMA SettledKeepsApart ==
  ASSUME Apart, IInv', NEW c \in Calls, job[c] # Idle, NEW j \in Job, Become(c, j),
         \A s \in Sids : session[s] # "unused" => session'[s] # "unused",
         stored' \in {stored, None},
         j # Idle => /\ j.kind = job[c].kind /\ j.kind # "signIn"
                     /\ j.body = job[c].body
                     /\ j.at \in {"rotated", "refused", "left"}
  PROVE  Apart'
<1>1. job[c] \in Call
  BY JobTypes DEF Apart, IInv
<1>2. j # Idle => (j.body # None => session'[j.body] # "unused")
  BY <1>1 DEF Call, Pair, Apart, BodiesAreMade
<1>3. ASSUME NEW d \in Calls, d # c, Step(d, "renewed")
      PROVE  /\ stored' # job[d].fresh
             /\ j # Idle => j.body # job[d].fresh
  BY <1>3, WebAssumption DEF Apart, FreshIsNew, Ignores, IInv, FreshIsMade
<1>4. j = Idle => j.at = "idle"
  BY DEF Idle
<1> QED
  BY <1>2, <1>3, <1>4, CallKeepsApart

LEMMA SettleKeepsApart ==
  ASSUME Apart, IInv', NEW c \in Calls,
         \/ Answer(c) \/ GiveUp(c) \/ Lose(c) \/ Discard(c) \/ EndSession(c)
         \/ Refused(c) \/ LoseRefresh(c) \/ FinishLogout(c)
  PROVE  Apart'
<1>1. job[c] # Idle
  BY DEF Answer, GiveUp, Lose, Discard, EndSession, Refused, LoseRefresh,
     FinishLogout, Step, Idle
<1>2. PICK j \in {Idle, Settled(c)} : Become(c, j)
  BY DEF Answer, GiveUp, Lose, Discard, EndSession, Refused, LoseRefresh,
     FinishLogout
<1>3. job[c] \in Call /\ j \in Job
  BY <1>1, CallAsKept DEF Apart, Job
<1>4. j # Idle => /\ j.kind = job[c].kind /\ j.kind # "signIn"
                  /\ j.body = job[c].body /\ j.at = "left"
  BY <1>3 DEF Settled, Call
<1>5. stored' \in {stored, None}
  BY DEF Answer, GiveUp, Lose, Discard, EndSession, Refused, LoseRefresh,
     FinishLogout, ClearSession
<1>6. \A s \in Sids : session[s] # "unused" => session'[s] # "unused"
  BY DEF Answer, GiveUp, Lose, Discard, EndSession, Refused, LoseRefresh,
     FinishLogout, Apart, IInv, Types
<1> QED
  BY <1>1, <1>2, <1>3, <1>4, <1>5, <1>6, SettledKeepsApart

LEMMA RotateKeepsApart ==
  ASSUME Apart, IInv', NEW c \in Calls, Rotate(c) \/ Break(c)
  PROVE  Apart'
<1>1. PICK at \in {"rotated", "refused"} : Become(c, [job[c] EXCEPT !.at = at])
  BY DEF Rotate, Break
<1> DEFINE j == [job[c] EXCEPT !.at = at]
<1>2. job[c] # Idle /\ job[c].at \in {"found", "rotated"} /\ stored' = stored
  BY DEF Rotate, Break, Step, Idle
<1>3. job[c] \in Call /\ job[c].kind # "signIn"
  BY <1>2, JobTypes DEF Apart, SignInSteps, IInv
<1>4. /\ j \in Job /\ j.kind = job[c].kind /\ j.body = job[c].body
      /\ j.at \in {"rotated", "refused"}
  BY <1>3 DEF Job, Call, Refreshing
<1>5. \A s \in Sids : session[s] # "unused" => session'[s] # "unused"
  BY DEF Rotate, Break, Apart, IInv, Types
<1> HIDE DEF j
<1> QED
  BY <1>1, <1>2, <1>3, <1>4, <1>5, SettledKeepsApart DEF j

\* The stored pair is none on its way, and what is sent is what is stored.
LEMMA StartKeepsApart ==
  ASSUME Apart, IInv', NEW c \in Calls, NEW t \in Tabs,
         Request(c, t) \/ SignIn(c, t) \/ Logout(c, t)
  PROVE  Apart'
<1>1. UNCHANGED <<session, stored>> /\ stored \in Pair /\ None \in Pair
  BY DEF Request, SignIn, Logout, Apart, IInv, Types, Pair
<1>2. PICK j \in Call : /\ Become(c, j) /\ j.body \in {None, stored}
                        /\ j.at \in {"sent", "signing", "left"}
                        /\ j.kind = "signIn" => j.at = "signing"
  <2>1. CASE Request(c, t)
    <3>1. Send(t, "request", None) \in Call
      BY <1>1, SendIsKept DEF Apart, Kinds
    <3> QED
      BY <2>1, <3>1 DEF Request, Send
  <2>2. CASE SignIn(c, t)
    <3> DEFINE j == [Send(t, "signIn", None) EXCEPT !.at = "signing", !.token = None]
    <3>1. Send(t, "signIn", None) \in Call
      BY <1>1, SendIsKept DEF Apart, Kinds
    <3>2. j \in Call /\ j.at = "signing" /\ j.body = None
      BY <1>1, <3>1 DEF Call, Send
    <3> QED
      BY <2>2, <3>2 DEF SignIn
  <2>3. CASE Logout(c, t) /\ stored = None
    <3> DEFINE j == [Send(t, "logout", None) EXCEPT !.at = "left"]
    <3>1. Send(t, "logout", None) \in Call
      BY <1>1, SendIsKept DEF Apart, Kinds
    <3>2. j \in Call /\ j.at = "left" /\ j.kind = "logout" /\ j.body = None
      BY <3>1 DEF Call, Send
    <3> QED
      BY <2>3, <3>2 DEF Logout
  <2>4. CASE Logout(c, t) /\ stored # None
    <3>1. Send(t, "logout", stored) \in Call
      BY <1>1, SendIsKept DEF Apart, Kinds
    <3> QED
      BY <2>4, <3>1 DEF Logout, Send
  <2> QED
    BY <2>1, <2>2, <2>3, <2>4
<1>3. j \in Job /\ j # Idle
  BY <1>2 DEF Job, Call, Idle
<1>4. j.body # None => session'[j.body] # "unused"
  BY <1>1, <1>2 DEF Apart, IInv, KeptIsMade
<1>5. ASSUME NEW d \in Calls, d # c, Step(d, "renewed")
      PROVE  stored' # job[d].fresh /\ j.body # job[d].fresh
  BY <1>1, <1>2, <1>5, WebAssumption DEF Apart, FreshIsNew, IInv, FreshIsMade
<1> QED
  BY <1>1, <1>2, <1>3, <1>4, <1>5, CallKeepsApart

LEMMA RefreshKeepsApart ==
  ASSUME Apart, IInv', NEW c \in Calls, Refresh(c) \/ FindSession(c)
  PROVE  Apart'
<1>1. PICK at \in {"refreshing", "found", "refused"}, token \in Pair :
        /\ Become(c, [job[c] EXCEPT !.at = at, !.token = token])
        /\ \/ token = stored
           \/ token = job[c].token /\ Step(c, "refreshing")
  <2>1. CASE Refresh(c)
    BY <2>1 DEF Refresh, RefreshToken, Apart, IInv, Types
  <2>2. CASE FindSession(c)
    <3>1. PICK at \in {"found", "refused"} : Become(c, [job[c] EXCEPT !.at = at])
      BY <2>2 DEF FindSession
    <3>2. job[c] \in Call
      BY <2>2, JobTypes DEF FindSession, Step, Idle, Apart, IInv
    <3>3. /\ [job[c] EXCEPT !.at = at] = [job[c] EXCEPT !.at = at, !.token = job[c].token]
          /\ job[c].token \in Pair
      BY <3>2 DEF Call
    <3> QED
      BY <2>2, <3>1, <3>3 DEF FindSession
  <2> QED
    BY <2>1, <2>2
<1> DEFINE j == [job[c] EXCEPT !.at = at, !.token = token]
<1>2. job[c] # Idle /\ UNCHANGED <<session, stored>>
  BY DEF Refresh, FindSession, Step, Idle
<1>3. job[c] \in Call /\ job[c].kind # "signIn"
  <2>1. job[c].at \in {"sent", "refreshing"}
    BY DEF Refresh, FindSession, Step
  <2> QED
    BY <1>2, <2>1, JobTypes DEF Apart, SignInSteps, IInv
<1>4. /\ j \in Job /\ j # Idle /\ j.kind = job[c].kind /\ j.body = job[c].body
      /\ j.at = at /\ j.token = token
  BY <1>3 DEF Job, Call, Refreshing, Idle
<1>5. j.body # None => session'[j.body] # "unused"
  BY <1>2, <1>4 DEF Apart, BodiesAreMade
<1>6. ASSUME NEW d \in Calls, d # c, Step(d, "renewed")
      PROVE  /\ stored' # job[d].fresh /\ j.body # job[d].fresh
             /\ j.token # job[d].fresh
  BY <1>1, <1>2, <1>4, <1>6 DEF Apart, FreshIsNew, Ignores, Step
<1> HIDE DEF j
<1> QED
  BY <1>1, <1>2, <1>3, <1>4, <1>5, <1>6, CallKeepsApart DEF j

\* The id of a new session is nobody's yet.
LEMMA IssueKeepsApart ==
  ASSUME Apart, IInv', NEW c \in Calls, NEW s \in Sids,
         IssueTokens(c, s) \/ Grant(c, s)
  PROVE  Apart'
<1> DEFINE j == [job[c] EXCEPT !.at = "renewed", !.fresh = s]
<1>1. /\ Become(c, j) /\ stored' = stored /\ job[c] # Idle
      /\ session[s] = "unused"
  BY DEF IssueTokens, Grant, Unused, Step, Idle
<1>2. job[c] \in Call
  BY <1>1, JobTypes DEF Apart, IInv
<1>3. /\ j \in Job /\ j # Idle /\ j.at = "renewed" /\ j.fresh = s
      /\ j.body = job[c].body
  BY <1>2 DEF Job, Call, Refreshing, Pair, Idle
<1> HIDE DEF j
<1>4. \A r \in Sids : session[r] # "unused" => session'[r] # "unused"
  BY DEF IssueTokens, Grant, Apart, IInv, Types
<1>5. stored # s /\ \A d \in Calls : job[d] # Idle => job[d].body # s
  BY <1>1, WebAssumption DEF Apart, IInv, KeptIsMade, BodiesAreMade
<1>6. ASSUME NEW d \in Calls, d # c PROVE Ignores(d, s)
  <2>1. job[d].at \in {"refreshing", "found"} => job[d].token # s
    BY <1>1, WebAssumption DEF Apart, IInv, KeptIsMade, Idle
  <2>2. job[d].at = "renewed" => job[d].fresh # s
    BY <1>1 DEF Apart, IInv, FreshIsMade, Step
  <2> QED
    BY <1>5, <2>1, <2>2 DEF Ignores
<1>7. job[c].body # None => session'[job[c].body] # "unused"
  BY <1>1, <1>2, <1>4 DEF Apart, BodiesAreMade, Call, Pair
<1>8. ASSUME NEW d \in Calls, d # c, Step(d, "renewed")
      PROVE  /\ stored' # job[d].fresh /\ job[c].body # job[d].fresh
             /\ s # job[d].fresh
  BY <1>1, <1>6, <1>8 DEF Apart, FreshIsNew, Ignores, Step
<1> QED
  BY <1>1, <1>3, <1>4, <1>5, <1>6, <1>7, <1>8, CallKeepsApart

LEMMA RenewedKeepsApart ==
  ASSUME Apart, IInv', NEW c \in Calls, Renewed(c)
  PROVE  Apart'
<1> DEFINE f == job[c].fresh
           j == IF job[c].kind \in {"boot", "signIn"} THEN Idle
                ELSE [job[c] EXCEPT !.at = "sent", !.token = f,
                                    !.retried = TRUE, !.fresh = None]
<1>1. /\ Become(c, j) /\ stored' = f /\ UNCHANGED session /\ job[c] # Idle
      /\ Step(c, "renewed")
  BY DEF Renewed, ApplyTokens, Step, Idle
<1>2. job[c] \in Call /\ f \in Sids
  BY <1>1, JobTypes DEF Apart, IInv, FreshIsMade
<1>3. /\ j \in Job
      /\ j # Idle => /\ j.at = "sent" /\ j.body = job[c].body
                     /\ j.kind = job[c].kind /\ j.kind # "signIn"
  BY <1>2 DEF Job, Call, Pair
<1> HIDE DEF j, f
<1>4. j # Idle => (j.body # None => session'[j.body] # "unused")
  BY <1>1, <1>3 DEF Apart, BodiesAreMade
<1>5. ASSUME NEW d \in Calls, d # c, Step(d, "renewed")
      PROVE  stored' # job[d].fresh /\ job[c].body # job[d].fresh
  BY <1>1, <1>5 DEF Apart, FreshIsNew, Ignores, Step, f
<1>6. j = Idle => j.at = "idle"
  BY DEF Idle
<1> QED
  BY <1>1, <1>3, <1>4, <1>5, <1>6, CallKeepsApart

LEMMA ReloadKeepsApart ==
  ASSUME Apart, IInv', NEW t \in Tabs,
         Reload(t) \/ \E c \in Calls : ReloadExpired(c, t)
  PROVE  Apart'
<1> DEFINE boot == [Send(t, "boot", None) EXCEPT !.at = "refreshing", !.token = stored]
<1>1. UNCHANGED <<session, stored>>
  BY DEF Reload, ReloadExpired
<1>2. /\ boot.at = "refreshing" /\ boot.token = stored /\ boot.body = None
      /\ boot.kind = "boot"
  BY DEF Send
<1> HIDE DEF boot
<1>3. \A d \in Calls : job'[d] = Abandon(t)[d] \/ job'[d] = boot
  BY DEF Reload, ReloadExpired, Abandon, boot
<1>4. ASSUME NEW d \in Calls, job'[d] # Idle
      PROVE  \/ job'[d] = boot
             \/ /\ job[d] # Idle /\ job'[d].at = job[d].at
                /\ job'[d].kind = job[d].kind /\ job'[d].body = job[d].body
                /\ job'[d].token = job[d].token /\ job'[d].fresh = job[d].fresh
  BY <1>3, <1>4, AbandonIsKept DEF Apart
<1>5. SignInSteps'
  BY <1>2, <1>4 DEF Apart, SignInSteps
<1>6. BodiesAreMade'
  BY <1>1, <1>2, <1>4 DEF Apart, BodiesAreMade
<1>7. FreshIsNew'
  <2> SUFFICES ASSUME NEW e \in Calls, job'[e].at = "renewed"
               PROVE  /\ job'[e].fresh # stored /\ job'[e].body # job'[e].fresh
                      /\ \A d \in Calls : d # e => Ignores(d, job[e].fresh)'
    BY <1>1 DEF FreshIsNew, Step
  <2>1. /\ Step(e, "renewed") /\ job'[e].fresh = job[e].fresh
        /\ job'[e].body = job[e].body
    BY <1>2, <1>4 DEF Step, Idle
  <2>2. job[e].fresh \in Sids /\ job[e].fresh # stored
    BY <2>1 DEF Apart, FreshIsNew, IInv, FreshIsMade
  <2>3. ASSUME NEW d \in Calls, d # e PROVE Ignores(d, job[e].fresh)'
    <3>1. CASE job'[d] = Idle
      BY <3>1 DEF Ignores, Idle
    <3>2. CASE job'[d] = boot
      BY <1>2, <2>1, <2>2, <3>2, WebAssumption DEF Ignores
    <3>3. CASE job'[d] # Idle /\ job'[d] # boot
      BY <1>4, <2>1, <2>3, <3>3 DEF Apart, FreshIsNew, Ignores
    <3> QED
      BY <3>1, <3>2, <3>3
  <2> QED
    BY <2>1, <2>2, <2>3 DEF Apart, FreshIsNew
<1> QED
  BY <1>5, <1>6, <1>7 DEF Apart

LEMMA WorldKeepsApart ==
  ASSUME Apart, IInv', NEW s \in Sids, Expire(s) \/ Revoke(s)
  PROVE  Apart'
<1>1. UNCHANGED <<stored, job>>
  BY DEF Expire, Revoke
<1>2. \A r \in Sids : session[r] # "unused" => session'[r] # "unused"
  BY DEF Expire, Revoke, Apart, IInv, Types
<1>3. BodiesAreMade'
  <2> SUFFICES ASSUME NEW c \in Calls, job[c] # Idle, job[c].body # None
               PROVE  session'[job[c].body] # "unused"
    BY <1>1 DEF BodiesAreMade
  <2>1. job[c].body \in Sids
    BY JobTypes DEF Apart, IInv, Call, Pair
  <2> QED
    BY <1>2, <2>1 DEF Apart, BodiesAreMade
<1> QED
  BY <1>1, <1>3 DEF Apart, SignInSteps, FreshIsNew, Ignores, Step

LEMMA NextApart == Apart /\ [Next]_vars => Apart'
<1> SUFFICES ASSUME Apart, [Next]_vars PROVE Apart'
  OBVIOUS
<1>0. IInv'
  BY NextIInv DEF Apart
<1>1. CASE UNCHANGED vars
  BY <1>0, <1>1 DEF vars, Apart, SignInSteps, BodiesAreMade, FreshIsNew, Ignores, Step
<1>2. CASE \E c \in Calls : Proceed(c) \/ Lose(c) \/ Break(c) \/ LoseRefresh(c)
  BY <1>0, <1>2, SettleKeepsApart, RefreshKeepsApart, RotateKeepsApart,
     IssueKeepsApart, RenewedKeepsApart
  DEF Proceed
<1>3. CASE \E c \in Calls, t \in Tabs : Request(c, t) \/ SignIn(c, t) \/ Logout(c, t)
  BY <1>0, <1>3, StartKeepsApart
<1>4. CASE \E t \in Tabs : Reload(t) \/ \E c \in Calls : ReloadExpired(c, t)
  BY <1>0, <1>4, ReloadKeepsApart
<1>5. CASE \E s \in Sids : Expire(s) \/ Revoke(s)
  BY <1>0, <1>5, WorldKeepsApart
<1> QED
  BY <1>1, <1>2, <1>3, <1>4, <1>5 DEF Next

\* A step of one call that neither ends a session nor stores a pair.
LEMMA CallKeepsMended ==
  ASSUME Apart, Mended, NEW c \in Calls, NEW j, Become(c, j), severed' = severed,
         UNCHANGED stored,
         \A s \in Sids : session[s] = "open" => session'[s] = "open",
         ~severed /\ Changing(c)' => j.tab # None,
         j.at = "renewed" => session'[j.fresh] = "open",
         Replaces(c) => Replaces(c)'
  PROVE  Mended'
<1> SUFFICES ASSUME ~severed
             PROVE  /\ \A d \in Calls : Changing(d)' => job'[d].tab # None
                    /\ \A d \in Calls : Step(d, "renewed")'
                         => session'[job'[d].fresh] = "open"
                    /\ stored # None /\ session'[stored] # "open"
                         => \E d \in Calls : Replaces(d)'
  BY DEF Mended
<1>1. job'[c] = j /\ \A d \in Calls : d # c => job'[d] = job[d]
  BY DEF Become, Apart, IInv, Types
<1>2. \A d \in Calls : Changing(d)' => job'[d].tab # None
  BY <1>1 DEF Mended, Changing, Step
<1>3. ASSUME NEW d \in Calls, Step(d, "renewed")'
      PROVE  session'[job'[d].fresh] = "open"
  BY <1>1, <1>3 DEF Mended, Step, Apart, IInv, FreshIsMade
<1>4. ASSUME stored # None, session'[stored] # "open"
      PROVE  \E d \in Calls : Replaces(d)'
  <2>1. stored \in Sids
    BY <1>4 DEF Apart, IInv, Types, Pair
  <2>2. PICK d \in Calls : Replaces(d)
    BY <1>4, <2>1 DEF Mended
  <2>3. Replaces(d)'
    BY <1>1, <2>2 DEF Replaces
  <2> QED
    BY <2>3
<1> QED
  BY <1>2, <1>3, <1>4

\* A step of one call that ends no session and leaves an open pair, or none.
LEMMA StoringKeepsMended ==
  ASSUME Apart, Mended, NEW c \in Calls, NEW j, Become(c, j), severed' = severed,
         UNCHANGED session,
         ~severed => (stored' = None \/ session[stored'] = "open"),
         ~severed /\ Changing(c)' => j.tab # None,
         j.at # "renewed"
  PROVE  Mended'
<1>1. job'[c] = j /\ \A d \in Calls : d # c => job'[d] = job[d]
  BY DEF Become, Apart, IInv, Types
<1>2. ~severed => \A d \in Calls : Changing(d)' => job'[d].tab # None
  BY <1>1 DEF Mended, Changing, Step
<1>3. ~severed => \A d \in Calls : Step(d, "renewed")'
        => session'[job'[d].fresh] = "open"
  BY <1>1 DEF Mended, Step
<1> QED
  BY <1>2, <1>3 DEF Mended

\* A step that ends a session, of a call that will replace the stored pair.
LEMMA EndingKeepsMended ==
  ASSUME Apart, Mended, NEW c \in Calls, NEW j, Become(c, j), severed' = severed,
         UNCHANGED stored, ~severed => Replaces(c)', j.at # "renewed",
         \A d \in Calls : d # c /\ Step(d, "renewed")
           => session'[job[d].fresh] = session[job[d].fresh]
  PROVE  Mended'
<1>1. job'[c] = j /\ \A d \in Calls : d # c => job'[d] = job[d]
  BY DEF Become, Apart, IInv, Types
<1>2. ~severed => \A d \in Calls : Changing(d)' => job'[d].tab # None
  BY <1>1 DEF Mended, Changing, Step, Replaces
<1>3. ASSUME ~severed, NEW d \in Calls, Step(d, "renewed")'
      PROVE  session'[job'[d].fresh] = "open"
  <2>1. job'[d] = job[d] /\ Step(d, "renewed") /\ d # c
    BY <1>1, <1>3 DEF Step
  <2>2. session[job[d].fresh] = "open"
    BY <1>3, <2>1 DEF Mended
  <2> QED
    BY <2>1, <2>2
<1> QED
  BY <1>2, <1>3 DEF Mended

\* Requests settle and calls begin: none of these is about to store a pair.
LEMMA SettleKeepsMended ==
  ASSUME Apart, Mended, NEW c \in Calls,
         Answer(c) \/ GiveUp(c) \/ Lose(c) \/ Discard(c)
  PROVE  Mended'
<1>1. UNCHANGED <<session, stored, severed>> /\ job[c] # Idle /\ ~Replaces(c)
  BY DEF Answer, GiveUp, Lose, Discard, Step, Idle, Replaces
<1>2. PICK j \in {Idle, Settled(c)} : Become(c, j)
  BY DEF Answer, GiveUp, Lose, Discard
<1>3. job[c] \in Call
  BY <1>1, JobTypes DEF Apart, IInv
<1>4. j # Idle => j.at = "left" /\ j.tab # None
  BY <1>3 DEF Settled, Call
<1>5. job'[c] = j
  BY <1>2 DEF Become, Apart, IInv, Types
<1>6. Changing(c)' => j.tab # None
  BY <1>4, <1>5 DEF Changing
<1>7. j.at # "renewed"
  BY <1>4 DEF Idle
<1> QED
  BY <1>1, <1>2, <1>6, <1>7, CallKeepsMended

LEMMA StartKeepsMended ==
  ASSUME Apart, Mended, NEW c \in Calls, NEW t \in Tabs,
         Request(c, t) \/ SignIn(c, t) \/ Logout(c, t)
  PROVE  Mended'
<1>1. UNCHANGED <<session, stored, severed>> /\ ~Replaces(c)
  BY DEF Request, SignIn, Logout, Idle, Replaces
<1>2. PICK j : Become(c, j) /\ j.tab = t /\ j.at # "renewed"
  <2> DEFINE login == [Send(t, "signIn", None) EXCEPT !.at = "signing", !.token = None]
             leave == [Send(t, "logout", None) EXCEPT !.at = "left"]
  <2>1. /\ login.tab = t /\ login.at = "signing"
        /\ leave.tab = t /\ leave.at = "left"
        /\ \A kind, body : Send(t, kind, body).tab = t /\ Send(t, kind, body).at = "sent"
    BY DEF Send
  <2>2. \E j \in {login, leave, Send(t, "request", None), Send(t, "logout", stored)} :
          Become(c, j)
    BY DEF Request, SignIn, Logout
  <2> HIDE DEF login, leave
  <2> QED
    BY <2>1, <2>2
<1> QED
  BY <1>1, <1>2, CallKeepsMended, WebAssumption

\* A refresh goes on, or breaks: its tab still waits for it.
LEMMA RefreshKeepsMended ==
  ASSUME Apart, Mended, NEW c \in Calls, Refresh(c) \/ FindSession(c) \/ Break(c)
  PROVE  Mended'
<1>1. UNCHANGED <<session, stored, severed>> /\ job[c] # Idle
  BY DEF Refresh, FindSession, Break, Step, Idle
<1>2. job[c] \in Call
  BY <1>1, JobTypes DEF Apart, IInv
<1>3. ~severed => job[c].tab # None
  <2>1. CASE Refresh(c)
    BY <2>1 DEF Refresh
  <2>2. CASE FindSession(c) \/ Break(c)
    BY <1>1, <2>2 DEF FindSession, Break, Changing, Step, Mended
  <2> QED
    BY <2>1, <2>2
<1>4. PICK j \in Call : /\ Become(c, j) /\ j.tab = job[c].tab /\ j.kind = job[c].kind
                        /\ j.at \in {"refreshing", "found", "refused"}
                        /\ Replaces(c) => j.at = "refused"
  <2>1. CASE Refresh(c)
    <3> DEFINE j == [job[c] EXCEPT !.at = "refreshing", !.token = stored]
    <3>1. /\ j \in Call /\ j.tab = job[c].tab /\ j.kind = job[c].kind
          /\ j.at = "refreshing"
      BY <1>2 DEF Call, Refreshing, Apart, IInv, Types
    <3> QED
      BY <2>1, <3>1 DEF Refresh, RefreshToken, Replaces, Step
  <2>2. CASE FindSession(c) \/ Break(c)
    <3>1. PICK at \in {"found", "refused"} :
            /\ Become(c, [job[c] EXCEPT !.at = at])
            /\ Replaces(c) => at = "refused"
      BY <2>2 DEF FindSession, Break, Replaces, Step
    <3> DEFINE j == [job[c] EXCEPT !.at = at]
    <3>2. j \in Call /\ j.tab = job[c].tab /\ j.kind = job[c].kind /\ j.at = at
      BY <1>2 DEF Call, Refreshing
    <3> QED
      BY <3>1, <3>2
  <2> QED
    BY <2>1, <2>2
<1>5. job'[c] = j
  BY <1>4 DEF Become, Apart, IInv, Types
<1>6. Replaces(c) => Replaces(c)'
  BY <1>4, <1>5 DEF Replaces
<1> QED
  BY <1>1, <1>3, <1>4, <1>6, CallKeepsMended

\* From here to the reply the pair stored may be of a session that has ended.
LEMMA RotateKeepsMended ==
  ASSUME Apart, Mended, NEW c \in Calls, Rotate(c)
  PROVE  Mended'
<1> DEFINE j == [job[c] EXCEPT !.at = "rotated"]
<1>1. /\ Become(c, j) /\ UNCHANGED <<stored, severed>> /\ job[c] # Idle
      /\ Step(c, "found")
      /\ session' = [session EXCEPT ![job[c].token] = "revoked"]
  BY DEF Rotate, Step, Idle
<1>2. job[c] \in Call /\ job[c].kind # "signIn"
  BY <1>1, JobTypes DEF Apart, SignInSteps, IInv, Step
<1>3. j.at = "rotated" /\ j.tab = job[c].tab /\ j.kind = job[c].kind
  BY <1>2 DEF Call
<1> HIDE DEF j
<1>4. job'[c] = j
  BY <1>1 DEF Become, Apart, IInv, Types
<1>5. ~severed => Replaces(c)'
  BY <1>1, <1>2, <1>3, <1>4 DEF Mended, Changing, Step, Replaces
<1>6. ASSUME NEW d \in Calls, d # c, Step(d, "renewed")
      PROVE  session'[job[d].fresh] = session[job[d].fresh]
  <2>1. job[d].fresh \in Sids /\ job[d].fresh # job[c].token
    BY <1>1, <1>6 DEF Apart, FreshIsNew, Ignores, Step, IInv, FreshIsMade
  <2> QED
    BY <1>1, <2>1 DEF Apart, IInv, Types
<1> QED
  BY <1>1, <1>3, <1>5, <1>6, EndingKeepsMended

LEMMA IssueKeepsMended ==
  ASSUME Apart, Mended, NEW c \in Calls, NEW s \in Sids,
         IssueTokens(c, s) \/ Grant(c, s)
  PROVE  Mended'
<1> DEFINE j == [job[c] EXCEPT !.at = "renewed", !.fresh = s]
<1>1. /\ Become(c, j) /\ UNCHANGED <<stored, severed>> /\ job[c] # Idle
      /\ session' = [session EXCEPT ![s] = "open"]
      /\ job[c].at \in {"rotated", "signing"}
  BY DEF IssueTokens, Grant, Step, Idle
<1>2. job[c] \in Call
  BY <1>1, JobTypes DEF Apart, IInv
<1>3. /\ j.at = "renewed" /\ j.tab = job[c].tab /\ j.kind = job[c].kind
      /\ j.fresh = s
  BY <1>2 DEF Call
<1> HIDE DEF j
<1>4. job'[c] = j
  BY <1>1 DEF Become, Apart, IInv, Types
<1>5. session'[s] = "open" /\ \A r \in Sids : session[r] = "open" => session'[r] = "open"
  BY <1>1 DEF Apart, IInv, Types
<1>6. ~severed => j.tab # None
  BY <1>1, <1>3 DEF Mended, Changing, Step
<1>7. Replaces(c) => Replaces(c)'
  BY <1>3, <1>4 DEF Replaces
<1> QED
  BY <1>1, <1>3, <1>5, <1>6, <1>7, CallKeepsMended

LEMMA RenewedKeepsMended ==
  ASSUME Apart, Mended, NEW c \in Calls, Renewed(c)
  PROVE  Mended'
<1> DEFINE j == IF job[c].kind \in {"boot", "signIn"} THEN Idle
                ELSE [job[c] EXCEPT !.at = "sent", !.token = job[c].fresh,
                                    !.retried = TRUE, !.fresh = None]
<1>1. /\ Become(c, j) /\ UNCHANGED <<session, severed>> /\ stored' = job[c].fresh
      /\ job[c].tab # None /\ Step(c, "renewed") /\ job[c] # Idle
  BY DEF Renewed, ApplyTokens, Step, Idle
<1>2. job[c] \in Call
  BY <1>1, JobTypes DEF Apart, IInv
<1>3. j # Idle => j.at = "sent" /\ j.tab = job[c].tab
  BY <1>2 DEF Call
<1> HIDE DEF j
<1>4. job'[c] = j
  BY <1>1 DEF Become, Apart, IInv, Types
<1>5. Changing(c)' => j.tab # None
  BY <1>1, <1>3, <1>4 DEF Changing
<1>6. ~severed => session[stored'] = "open"
  BY <1>1 DEF Mended
<1>7. j.at # "renewed"
  BY <1>3 DEF Idle
<1> QED
  BY <1>1, <1>5, <1>6, <1>7, StoringKeepsMended

LEMMA ClearKeepsMended ==
  ASSUME Apart, Mended, NEW c \in Calls, Refused(c) \/ LoseRefresh(c) \/ FinishLogout(c)
  PROVE  Mended'
<1>1. UNCHANGED <<session, severed>> /\ job[c] # Idle
  BY DEF Refused, LoseRefresh, FinishLogout, Step, Idle
<1>2. job[c] \in Call
  BY <1>1, JobTypes DEF Apart, IInv
<1>3. PICK j \in {Idle, Settled(c)} : Become(c, j)
  BY DEF Refused, LoseRefresh, FinishLogout
<1>4. j # Idle => j.at = "left" /\ j.tab # None
  BY <1>2 DEF Settled, Call
<1>5. job'[c] = j /\ j.at # "renewed"
  BY <1>3, <1>4 DEF Become, Apart, IInv, Types, Idle
<1>6. Changing(c)' => j.tab # None
  BY <1>4, <1>5 DEF Changing
<1>7. CASE stored' = None
  BY <1>1, <1>3, <1>5, <1>6, <1>7, StoringKeepsMended
<1>8. CASE stored' # None
  <2>1. stored' = stored /\ ~Replaces(c)
    BY <1>8 DEF Refused, LoseRefresh, FinishLogout, ClearSession, Replaces
  <2> QED
    BY <1>1, <1>3, <1>5, <1>6, <2>1, CallKeepsMended
<1> QED
  BY <1>7, <1>8

LEMMA EndSessionKeepsMended ==
  ASSUME Apart, Mended, NEW c \in Calls, EndSession(c)
  PROVE  Mended'
<1>1. /\ Become(c, Settled(c)) /\ UNCHANGED <<stored, severed>> /\ job[c] # Idle
      /\ session' = [session EXCEPT ![job[c].body] = "revoked"]
      /\ job[c].kind = "logout"
  BY DEF EndSession, Step, Idle
<1>2. job[c] \in Call
  BY <1>1, JobTypes DEF Apart, IInv
<1>3. job'[c] = Settled(c)
  BY <1>1 DEF Become, Apart, IInv, Types
<1>4. ~severed => job[c].tab # None
  BY <1>1 DEF Mended, Changing
<1>5. ~severed => Replaces(c)'
  BY <1>1, <1>2, <1>3, <1>4 DEF Settled, Call, Replaces
<1>6. Settled(c).at # "renewed"
  BY <1>2 DEF Settled, Call, Idle
<1>7. ASSUME NEW d \in Calls, d # c, Step(d, "renewed")
      PROVE  session'[job[d].fresh] = session[job[d].fresh]
  <2>1. job[d].fresh \in Sids /\ job[d].fresh # job[c].body
    BY <1>1, <1>7 DEF Apart, FreshIsNew, Ignores, IInv, FreshIsMade
  <2> QED
    BY <1>1, <2>1 DEF Apart, IInv, Types
<1> QED
  BY <1>1, <1>5, <1>6, <1>7, EndingKeepsMended

\* A reload that interrupts no change of the session.
LEMMA ReloadKeepsMended ==
  ASSUME Apart, Mended, NEW t \in Tabs,
         Reload(t) \/ \E c \in Calls : ReloadExpired(c, t)
  PROVE  Mended'
<1> SUFFICES ASSUME ~severed' PROVE Mended'
  BY DEF Mended
<1>1. ~severed /\ ~Interrupted(t) /\ UNCHANGED <<session, stored>>
  BY DEF Reload, ReloadExpired, Apart, IInv, Types
<1>2. ASSUME NEW d \in Calls
      PROVE  \/ (Changing(d)' <=> Changing(d)) /\ (Changing(d) => job'[d] = job[d])
             \/ ~Changing(d) /\ job'[d].tab = t /\ job'[d].at = "refreshing"
  <2>1. CASE job'[d] = Abandon(t)[d]
    BY <1>1, <2>1, AbandonIsQuiet DEF Apart
  <2>2. CASE job'[d] # Abandon(t)[d]
    <3>1. /\ job[d] = Idle
          /\ job'[d] = [Send(t, "boot", None) EXCEPT !.at = "refreshing", !.token = stored]
      BY <2>2 DEF Reload, ReloadExpired, Abandon
    <3> QED
      BY <3>1 DEF Send, Changing
  <2> QED
    BY <2>1, <2>2
<1>3. ASSUME NEW d \in Calls
      PROVE  /\ Replaces(d) => Changing(d) /\ job[d] # Idle
             /\ Step(d, "renewed")' => Changing(d)'
  BY DEF Replaces, Changing, Step, Idle
<1>4. \A d \in Calls : Changing(d)' => job'[d].tab # None
  BY <1>1, <1>2, WebAssumption DEF Mended
<1>5. \A d \in Calls : Step(d, "renewed")' => session'[job'[d].fresh] = "open"
  BY <1>1, <1>2, <1>3 DEF Mended, Step
<1>6. ASSUME stored # None, session[stored] # "open" PROVE \E d \in Calls : Replaces(d)'
  <2>1. PICK d \in Calls : Replaces(d)
    BY <1>1, <1>6 DEF Mended
  <2>2. job'[d] = job[d]
    BY <1>2, <1>3, <2>1
  <2> QED
    BY <2>1, <2>2 DEF Replaces
<1> QED
  BY <1>1, <1>4, <1>5, <1>6 DEF Mended

LEMMA WorldKeepsMended ==
  ASSUME Mended, NEW s \in Sids, Expire(s) \/ Revoke(s)
  PROVE  Mended'
BY DEF Expire, Revoke, Mended, Changing, Replaces, Step

LEMMA NextMended == Apart /\ Mended /\ [Next]_vars => Mended'
<1> SUFFICES ASSUME Apart, Mended, [Next]_vars PROVE Mended'
  OBVIOUS
<1>1. CASE UNCHANGED vars
  BY <1>1 DEF vars, Mended, Changing, Replaces, Step
<1>2. CASE \E c \in Calls : Proceed(c) \/ Lose(c) \/ Break(c) \/ LoseRefresh(c)
  BY <1>2, SettleKeepsMended, RefreshKeepsMended, RotateKeepsMended,
     IssueKeepsMended, RenewedKeepsMended, ClearKeepsMended, EndSessionKeepsMended
  DEF Proceed
<1>3. CASE \E c \in Calls, t \in Tabs : Request(c, t) \/ SignIn(c, t) \/ Logout(c, t)
  BY <1>3, StartKeepsMended
<1>4. CASE \E t \in Tabs : Reload(t) \/ \E c \in Calls : ReloadExpired(c, t)
  BY <1>4, ReloadKeepsMended
<1>5. CASE \E s \in Sids : Expire(s) \/ Revoke(s)
  BY <1>5, WorldKeepsMended
<1> QED
  BY <1>1, <1>2, <1>3, <1>4, <1>5 DEF Next

\* The browser is never left holding a session that has ended, with any number
\* of tabs refreshing the same token, replies lost or late, refreshes that
\* break in the middle, logins and logouts crossing them; only a revocation it
\* is not told of, and a tab gone with its reply, are excepted.
THEOREM StoredSessionStaysOpen == Spec => []StoredSessionIsOpen
<1>1. Init => Apart /\ Mended
  <2> SUFFICES ASSUME Init PROVE Apart /\ Mended
    OBVIOUS
  <2>1. SignInSteps /\ BodiesAreMade /\ FreshIsNew /\ Mended
    BY DEF Init, SignInSteps, BodiesAreMade, FreshIsNew, Mended, Changing, Step, Idle
  <2> QED
    BY <2>1, InitIInv DEF Apart
<1>2. Apart /\ Mended /\ [Next]_vars => (Apart /\ Mended)'
  BY NextApart, NextMended
<1>3. Mended => StoredSessionIsOpen
  <2> SUFFICES ASSUME Mended, ~severed, \A c \in Calls : ~Changing(c),
                      stored # None, session[stored] # "open"
               PROVE  FALSE
    BY DEF StoredSessionIsOpen
  <2>1. PICK c \in Calls : Replaces(c)
    BY DEF Mended
  <2> QED
    BY <2>1 DEF Replaces, Changing, Step, Idle
<1> QED
  BY <1>1, <1>2, <1>3, PTL DEF Spec
=============================================================================
