------------------------------ MODULE Console ------------------------------
(***************************************************************************)
(* One tab of the web console with a session: the page that is mounted,    *)
(* its useApi loads (src/apps/web-superadmin/src/lib/use-api.ts), the open *)
(* dialog and the operation under way, against an API that checks the      *)
(* capabilities of the access token.                                       *)
(*                                                                         *)
(* A load keeps the last data it was given, an error flag and the fetch it *)
(* waits for. A fetch that was superseded, or whose page has gone, is      *)
(* forgotten, for its reply is ignored (cancelled). Data is what a read    *)
(* can tell: the selection it was made for and, of the rows that the       *)
(* operations of the page change, how many of those operations it has      *)
(* seen; what others write only makes it newer. An operation whose page    *)
(* has gone is forgotten too: its reply changes nothing on the screen, or  *)
(* goes on to another page as a typed address does.                        *)
(*                                                                         *)
(* A token is named by the role it was issued for, as a user is given one  *)
(* role at a time. It changes when a request is answered 401 and the       *)
(* client refreshes (WebSession has the failures of that).                 *)
(***************************************************************************)
EXTENDS Pages, Naturals

CONSTANTS
  Selections,   \* what filters can select
  All,          \* the selection of nothing in particular
  MaxWrites     \* bound on the operations done by a page

ASSUME ConsoleAssumption == All \in Selections /\ MaxWrites \in Nat

VARIABLES
  token,      \* the role of the access token
  page,       \* the mounted page, None at the login page
  offered,    \* history: the page was offered to this very token
  selection,  \* its filters
  load,       \* its loads, and those of the open form
  dialog,     \* the control whose form is open, and offered, of it
  submit,     \* the operation under way
  version,    \* how many operations of the page the API has done
  acked       \* history: the last of them the page was told of

vars == <<token, page, offered, selection, load, dialog, submit, version, acked>>

Fetch ==
  [at : {"sent"}, selection : Selections]
  \cup [at : {"read"}, selection : Selections, version : 0..MaxWrites]
Data == [selection : Selections, version : 0..MaxWrites]
LoadState == [data : Data \cup {None}, error : BOOLEAN, fetch : Fetch \cup {None}]
Controls == UNION {DOMAIN App[p].controls : p \in DOMAIN App}
Dialog == [control : Controls, offered : BOOLEAN]
Submission == [at : {"sent", "done"}, control : Controls, offered : BOOLEAN]

ASSUME NoneAssumption ==
  /\ None \notin Capability /\ None # "selected"
  /\ None \notin DOMAIN App
  /\ None \notin Fetch /\ None \notin Data
  /\ None \notin Dialog /\ None \notin Submission

Held == CapabilitiesOf({token})
Here == IF page = None THEN ComingSoonPage ELSE App[page]

Submitted == Here.controls[submit.control]

Joined(f, g) ==
  [n \in DOMAIN f \cup DOMAIN g |-> IF n \in DOMAIN f THEN f[n] ELSE g[n]]

\* The loads of what is mounted.
FormLoads == IF dialog = None THEN Nothing ELSE Here.controls[dialog.control].loads
Loads == Joined(Here.loads, FormLoads)

\* The rows of a page can be acted upon once they are there.
Rows == Here.main # None => load[Here.main].data # None

\* Mutant of Start: a fetch under way will do.
StartUnlessLoading(state, l, sel, caps) ==
  IF state.fetch # None THEN state
  ELSE [state EXCEPT !.error = FALSE, !.fetch = [at |-> "sent", selection |-> sel]]

\* What useApi does when it mounts, when what it depends on changes and when
\* it is asked to fetch again. A load that asks nothing has its answer at once.
Start(state, l, sel, caps) ==
  LET asks == /\ l.when = "selected" => sel # All
              /\ l.when \in Capability => l.when \in caps
      key == IF l.keyed THEN sel ELSE All
  IN  [state EXCEPT !.error = FALSE,
         !.fetch = IF asks THEN [at |-> "sent", selection |-> key]
                   ELSE [at |-> "read", selection |-> key, version |-> 0]]

Mount(loads, sel, caps) ==
  [n \in DOMAIN loads |->
     Start([data |-> None, error |-> FALSE, fetch |-> None], loads[n], sel, caps)]

Show(p, sel, role, asOffered) ==
  /\ page' = p
  /\ offered' = asOffered
  /\ selection' = sel
  /\ load' = Mount(App[p].loads, sel, CapabilitiesOf({role}))
  /\ dialog' = None /\ submit' = None
  /\ version' = 0 /\ acked' = 0

Leave ==
  /\ page' = None /\ offered' = FALSE /\ selection' = All
  /\ load' = Nothing /\ dialog' = None /\ submit' = None
  /\ version' = 0 /\ acked' = 0

NotOffered(what) == IF what = None THEN None ELSE [what EXCEPT !.offered = FALSE]

Init ==
  /\ token \in Role
  /\ page = None /\ offered = FALSE /\ selection = All
  /\ load = Nothing /\ dialog = None /\ acked = 0
  /\ submit = None
  /\ version = 0

-----------------------------------------------------------------------------
(* Moving about *)

\* After a login the summary is shown, or the page the login page was reached
\* from, whoever it was that had it open.
LogIn(r, p) ==
  /\ page = None
  /\ token' = r
  /\ Show(p, All, r, p = "Dashboard")

\* The session ends: ProtectedRoute shows the login page.
LogOut ==
  /\ page # None
  /\ Leave
  /\ UNCHANGED token

\* A page left with its form open is as one whose form was closed first.
Navigate(p) ==
  /\ page # None /\ dialog = None /\ page # p
  /\ Shows(NAV_ITEMS[p], Held)
  /\ Show(p, All, token, TRUE)
  /\ UNCHANGED token

FollowLink(p, sel) ==
  /\ page # None /\ dialog = None
  /\ Rows
  /\ Shows(Here.links[p], Held)
  /\ Show(p, sel, token, TRUE)
  /\ UNCHANGED token

Select(sel) ==
  /\ page # None /\ dialog = None /\ sel # selection
  /\ \E n \in DOMAIN load : Loads[n].keyed
  /\ selection' = sel
  /\ load' = [n \in DOMAIN load |->
                IF Loads[n].keyed THEN Start(load[n], Loads[n], sel, Held)
                ELSE load[n]]
  /\ UNCHANGED <<token, page, offered, dialog, submit, version, acked>>

-----------------------------------------------------------------------------
(* Loads *)

Asking(n) == load[n].fetch # None /\ load[n].fetch.at = "sent"
Allowed(n) == CanActivate(Loads[n].handler, Held)

\* The API answers with what there is. A request sent before the token was
\* renewed may have been allowed what the new token is not.
Read(n) ==
  /\ Asking(n)
  /\ Allowed(n) \/ ~offered
  /\ load' = [load EXCEPT ![n].fetch =
       [at |-> "read", selection |-> @.selection,
        version |-> IF n = Here.main THEN version ELSE 0]]
  /\ UNCHANGED <<token, page, offered, selection, dialog, submit, version, acked>>

\* Data and loading, when the reply is heard.
Deliver(n) ==
  /\ load[n].fetch # None /\ load[n].fetch.at = "read"
  /\ load' = [load EXCEPT ![n].fetch = None,
       ![n].data = [selection |-> load[n].fetch.selection,
                    version |-> load[n].fetch.version]]
  /\ UNCHANGED <<token, page, offered, selection, dialog, submit, version, acked>>

\* Mutant of Failed: loading ends only with an answer.
FailedLoading(state) == [state EXCEPT !.fetch = [at |-> "over"], !.error = TRUE]

\* Data is kept when a later fetch fails.
Failed(state) == [state EXCEPT !.fetch = None, !.error = TRUE]

\* 403, another error, or the network.
FailToLoad(n) ==
  /\ Asking(n)
  /\ load' = [load EXCEPT ![n] = Failed(@)]
  /\ UNCHANGED <<token, page, offered, selection, dialog, submit, version, acked>>

\* Mutant of Refetch: a fetch under way will do.
RefetchUnlessLoading(loads, n) ==
  IF loads[n].fetch # None THEN loads
  ELSE [loads EXCEPT ![n] = Start(@, Here.loads[n], selection, Held)]

\* A fetch under way is superseded.
Refetch(loads, n) ==
  [loads EXCEPT ![n] = Start(@, Here.loads[n], selection, Held)]

Retry ==
  /\ page # None /\ Here.main # None
  /\ load[Here.main].error
  /\ load' = Refetch(load, Here.main)
  /\ UNCHANGED <<token, page, offered, selection, dialog, submit, version, acked>>

-----------------------------------------------------------------------------
(* Operations *)

Open(c) ==
  /\ page # None /\ dialog = None
  /\ Here.controls[c].form /\ Shows(Here.controls[c].gate, Held)
  /\ Here.controls[c].row => Rows
  /\ dialog' = [control |-> c, offered |-> TRUE]
  /\ load' = Joined(load, Mount(Here.controls[c].loads, selection, Held))
  /\ UNCHANGED <<token, page, offered, selection, submit, version, acked>>

\* Mutant of PageLoads: a form leaves its loads behind.
LoadsLeft(loads) == loads

PageLoads(loads) == [n \in DOMAIN Here.loads |-> loads[n]]

\* Escape, the cross, Cancel or a click outside, also while it is being sent.
Close ==
  /\ dialog # None
  /\ dialog' = None
  /\ load' = PageLoads(load)
  /\ UNCHANGED <<token, page, offered, selection, submit, version, acked>>

\* A form's button is disabled while it is being sent. The bound: so is every
\* other.
Submit(c) ==
  /\ submit = None /\ version < MaxWrites
  /\ IF Here.controls[c].form THEN dialog # None /\ dialog.control = c
     ELSE dialog = None /\ Rows /\ Shows(Here.controls[c].gate, Held)
  /\ submit' = [at |-> "sent", control |-> c,
                offered |-> dialog # None => dialog.offered]
  /\ UNCHANGED <<token, page, offered, selection, load, dialog, version, acked>>

Commit ==
  /\ submit # None /\ submit.at = "sent"
  /\ CanActivate(Submitted.handler, Held) \/ ~submit.offered
  /\ version' = version + 1
  /\ submit' = [submit EXCEPT !.at = "done"]
  /\ UNCHANGED <<token, page, offered, selection, load, dialog, acked>>

\* A refusal, a failure before or after the commit, a reply that is lost: the
\* form or the page says so.
FailToSubmit ==
  /\ submit # None
  /\ submit' = None
  /\ UNCHANGED <<token, page, offered, selection, load, dialog, version, acked>>

\* The four dialogs of a license are one state: success closes any of them.
Closes ==
  /\ dialog # None /\ Submitted.closes
  /\ dialog.control = submit.control \/ page = "LicenseDetail"

\* The form may have been closed by then, and another opened.
Succeed ==
  /\ submit # None /\ submit.at = "done" /\ Submitted.next = None
  /\ submit' = None
  /\ acked' = version
  /\ dialog' = IF Closes THEN None ELSE dialog
  /\ load' = Refetch(IF Closes THEN PageLoads(load) ELSE load, Here.main)
  /\ UNCHANGED <<token, page, offered, selection, version>>

SucceedAndGo ==
  /\ submit # None /\ submit.at = "done" /\ Submitted.next # None
  /\ Show(Submitted.next, All, token, submit.offered)
  /\ UNCHANGED token

-----------------------------------------------------------------------------

\* A request is answered 401 and the refresh brings another role: controls
\* appear and go, and a load that depends on a capability starts again.
Renew(r) ==
  /\ page # None /\ r # token
  /\ (\E n \in DOMAIN load : Asking(n)) \/ (submit # None /\ submit.at = "sent")
  /\ token' = r
  /\ offered' = FALSE
  /\ dialog' = NotOffered(dialog)
  /\ submit' = NotOffered(submit)
  /\ load' = [n \in DOMAIN load |->
       LET w == Loads[n].when
           caps == CapabilitiesOf({r})
       IN  IF w \in Capability /\ (w \in caps) # (w \in Held)
           THEN Start(load[n], Loads[n], selection, caps) ELSE load[n]]
  /\ UNCHANGED <<page, selection, version, acked>>

Replies(n) == Read(n) \/ FailToLoad(n) \/ Deliver(n)

HasFilters(p) == \E n \in DOMAIN App[p].loads : App[p].loads[n].keyed

Next ==
  \/ \E n \in DOMAIN load : Replies(n)
  \/ \E p \in DOMAIN App, r \in Role : LogIn(r, p)
  \/ \E p \in DOMAIN NAV_ITEMS : Navigate(p)
  \/ \E p \in DOMAIN Here.links, sel \in Selections :
       (sel # All => HasFilters(p)) /\ FollowLink(p, sel)
  \/ \E sel \in Selections : Select(sel)
  \/ \E c \in DOMAIN Here.controls : Open(c) \/ Submit(c)
  \/ Close \/ Commit \/ FailToSubmit \/ Succeed \/ SucceedAndGo
  \/ Retry \/ LogOut
  \/ \E r \in Role : Renew(r)

Spec == Init /\ [][Next]_vars

\* The user owes nothing, but a request is answered or fails, and a reply is
\* delivered.
FairSpec ==
  Spec /\ WF_vars(\E n \in DOMAIN load : Replies(n))

-----------------------------------------------------------------------------

\* What is mounted is loaded, and every variable holds what it can hold.
TypeOK ==
  /\ token \in Role
  /\ page \in DOMAIN App \cup {None}
  /\ offered \in BOOLEAN
  /\ selection \in Selections
  /\ DOMAIN load = DOMAIN Loads
  /\ \A n \in DOMAIN load : load[n] \in LoadState
  /\ dialog \in Dialog \cup {None} /\ submit \in Submission \cup {None}
  /\ dialog # None => dialog.control \in DOMAIN Here.controls
  /\ submit # None => submit.control \in DOMAIN Here.controls
  /\ version \in 0..MaxWrites
  /\ acked \in 0..version

\* Nobody is shown what the API forbids: as long as the token is the one a
\* page, a form or a button was shown for, none of its requests is refused for
\* want of a capability, whatever the role and the way that led there
\* (nav-items.ts:8-10, capabilities.ts:1-7, and the guards of the API).
OfferedIsAllowed ==
  /\ \A n \in DOMAIN load :
       /\ Asking(n)
       /\ IF n \in DOMAIN Here.loads THEN offered ELSE dialog.offered
       => Allowed(n)
  /\ submit # None /\ submit.at = "sent" /\ submit.offered
       => CanActivate(Submitted.handler, Held)

\* Filters are never shown over the data of others: a load that has settled
\* without an error has the answer for what is selected now, however fast the
\* selection changed (use-api.ts:17-39).
SettledIsCurrent ==
  \A n \in DOMAIN load :
    load[n].fetch = None /\ ~load[n].error =>
      /\ load[n].data # None
      /\ Loads[n].keyed => load[n].data.selection = selection

\* A page shows what it did: once the API has told the page that an operation
\* succeeded, its rows never settle on an answer from before that operation
\* (refetch in onCreated, onDone, onSaved and the like).
ReadYourWrites ==
  Here.main # None =>
    LET rows == load[Here.main]
    IN  rows.fetch = None /\ ~rows.error => rows.data.version >= acked

\* Nothing spins forever: unless somebody never rests, there is always a time
\* when no load is under way (use-api.ts:32-34).
SpinnersEnd ==
  \/ []<><<~\E n \in DOMAIN load : Replies(n)>>_vars
  \/ []<>(\A n \in DOMAIN load : load[n].fetch = None)
=============================================================================
