---------------------------- MODULE ConsoleProofs ----------------------------
(***************************************************************************)
(* The console, for any selections and any number of operations: what it   *)
(* shows is allowed, is the answer for what is selected, and is no older   *)
(* than what the tab has done.                                             *)
(*                                                                         *)
(* First come the facts about the tables that the rest rests on: how the   *)
(* pages are made, and that whoever is shown a page, a link or a control   *)
(* has the capabilities that its requests need.                            *)
(***************************************************************************)
EXTENDS Console, TLAPS

\* How every page is made: the load with its rows always asks, and the loads
\* of a form are none of the page's.
WellMade(P) ==
  /\ P.main # None \/ DOMAIN P.controls # {} =>
       /\ P.main \in DOMAIN P.loads
       /\ P.loads[P.main].when = None
  /\ \A c \in DOMAIN P.controls :
       /\ P.controls[c].next \in {None, "LicenseDetail"}
       /\ DOMAIN P.controls[c].loads \cap DOMAIN P.loads = {}

\* The API allows a token with these capabilities what the loads ask.
Grants(loads, caps) ==
  \A n \in DOMAIN loads :
    (loads[n].when \in Capability => loads[n].when \in caps)
      => CanActivate(loads[n].handler, caps)

ControlsGranted(P, caps) ==
  \A c \in DOMAIN P.controls :
    Shows(P.controls[c].gate, caps) =>
      /\ CanActivate(P.controls[c].handler, caps)
      /\ Grants(P.controls[c].loads, caps)

Roots == {"organizations.read", "plans.read", "licenses.read"}

-----------------------------------------------------------------------------
(* The tables *)

\* Every role reads customers, plans and licenses, and who writes movements
\* reads them.
LEMMA EveryRoleReads ==
  ASSUME NEW r \in Role
  PROVE  /\ Roots \subseteq CapabilitiesOf({r})
         /\ CapabilitiesOf({r}) \subseteq Capability
         /\ "finance.write" \in CapabilitiesOf({r})
              => "finance.read" \in CapabilitiesOf({r})
<1>1. CapabilitiesOf({r}) = RoleSeeds[r]
  BY DEF CapabilitiesOf
<1>2. r \in {"platform_owner", "superadmin", "finance_admin", "support_agent",
             "auditor"}
  BY DEF Role, RoleSeeds
<1> QED
  BY <1>1, <1>2 DEF RoleSeeds, Capability, Roots

\* The capability each handler that the console calls requires.
LEMMA ReadHandlers ==
  ASSUME NEW caps
  PROVE  /\ \A h \in {"dashboard", "list", "listCategories", "listCostCenters"} :
              CanActivate(<<"finance", h>>, caps) <=> "finance.read" \in caps
         /\ \A h \in {"list", "findOne"} :
              CanActivate(<<"licenses", h>>, caps) <=> "licenses.read" \in caps
         /\ \A h \in {"summary", "timeseries", "organizationUsage"} :
              CanActivate(<<"usage", h>>, caps) <=> "usage.read" \in caps
         /\ \A h \in {"list", "overview"} :
              CanActivate(<<"organizations", h>>, caps)
                <=> "organizations.read" \in caps
         /\ CanActivate(<<"users", "list">>, caps) <=> "users.invite" \in caps
         /\ CanActivate(<<"plans", "list">>, caps) <=> "plans.read" \in caps
         /\ CanActivate(<<"audit", "list">>, caps) <=> "audit.read" \in caps
BY DEF CanActivate, RequireCapabilities, AuditController, FinanceController,
   LicensesController, OrganizationsController, PlansController,
   UsageController, UsersController

LEMMA WriteHandlers ==
  ASSUME NEW caps
  PROVE  /\ \A h \in {"create", "update", "void"} :
              CanActivate(<<"finance", h>>, caps) <=> "finance.write" \in caps
         /\ CanActivate(<<"licenses", "issue">>, caps) <=> "licenses.issue" \in caps
         /\ CanActivate(<<"licenses", "renew">>, caps) <=> "licenses.renew" \in caps
         /\ \A h \in {"suspend", "reactivate"} :
              CanActivate(<<"licenses", h>>, caps) <=> "licenses.suspend" \in caps
         /\ CanActivate(<<"licenses", "revoke">>, caps)
              <=> "licenses.revoke" \in caps
         /\ CanActivate(<<"organizations", "create">>, caps)
              <=> "organizations.create" \in caps
         /\ CanActivate(<<"organizations", "update">>, caps)
              <=> "organizations.update" \in caps
         /\ CanActivate(<<"users", "invite">>, caps) <=> "users.invite" \in caps
         /\ \A h \in {"suspend", "revokeSessions", "resetCredentials"} :
              CanActivate(<<"users", h>>, caps) <=> "users.reset_credentials" \in caps
         /\ \A h \in {"create", "addVersion"} :
              CanActivate(<<"plans", h>>, caps) <=> "plans.manage" \in caps
BY DEF CanActivate, RequireCapabilities, FinanceController,
   LicensesController, OrganizationsController, PlansController, UsersController

LEMMA NothingIsEmpty == DOMAIN Nothing = {}
BY DEF Nothing

\* The fields of what Pages builds loads and controls from.
LEMMA LoadFields ==
  ASSUME NEW h
  PROVE  /\ Load(h).handler = h /\ Load(h).when = None
         /\ Keyed(h).handler = h /\ Keyed(h).when = None
BY DEF Load, Keyed

LEMMA WhenFields ==
  ASSUME NEW h, NEW w
  PROVE  /\ When(w, Load(h)).handler = h /\ When(w, Load(h)).when = w
         /\ When(w, Keyed(h)).handler = h /\ When(w, Keyed(h)).when = w
BY DEF Load, Keyed, When

LEMMA ControlFields ==
  ASSUME NEW g, NEW h
  PROVE  /\ Button(g, h).gate = g /\ Button(g, h).handler = h
         /\ Button(g, h).loads = Nothing /\ Button(g, h).next = None
         /\ Form(g, h).gate = g /\ Form(g, h).handler = h
         /\ Form(g, h).loads = Nothing /\ Form(g, h).next = None
BY DEF Button, Form

LEMMA FormFields ==
  /\ CreateOrganizationForm.gate = "organizations.create"
  /\ CreateOrganizationForm.handler = <<"organizations", "create">>
  /\ CreateOrganizationForm.loads = Nothing /\ CreateOrganizationForm.next = None
  /\ InviteUserForm.gate = "users.invite"
  /\ InviteUserForm.handler = <<"users", "invite">>
  /\ InviteUserForm.loads = Nothing /\ InviteUserForm.next = None
  /\ CreatePlanForm.gate = "plans.manage"
  /\ CreatePlanForm.handler = <<"plans", "create">>
  /\ CreatePlanForm.loads = Nothing /\ CreatePlanForm.next = None
BY DEF CreateOrganizationForm, InviteUserForm, CreatePlanForm, Form, Button

LEMMA IssueLicenseFields ==
  /\ IssueLicenseForm.gate = "licenses.issue"
  /\ IssueLicenseForm.handler = <<"licenses", "issue">>
  /\ IssueLicenseForm.next = "LicenseDetail"
  /\ DOMAIN IssueLicenseForm.loads = {"customers", "plans"}
  /\ IssueLicenseForm.loads["customers"] = Load(<<"organizations", "list">>)
  /\ IssueLicenseForm.loads["plans"] = Load(<<"plans", "list">>)
BY DEF IssueLicenseForm, Form, Button

LEMMA CreateTransactionFields ==
  /\ CreateTransactionForm.gate = "finance.write"
  /\ CreateTransactionForm.handler = <<"finance", "create">>
  /\ CreateTransactionForm.next = None
  /\ DOMAIN CreateTransactionForm.loads = {"categories", "costCenters"}
  /\ CreateTransactionForm.loads["categories"]
       = Load(<<"finance", "listCategories">>)
  /\ CreateTransactionForm.loads["costCenters"]
       = Load(<<"finance", "listCostCenters">>)
BY DEF CreateTransactionForm, Form, Button

LEMMA PagesWithoutFormLoads ==
  /\ WellMade(DashboardPage) /\ WellMade(OrganizationsListPage)
  /\ WellMade(OrganizationDetailPage) /\ WellMade(UsersListPage)
  /\ WellMade(LicenseDetailPage) /\ WellMade(PlansListPage)
  /\ WellMade(UsagePage) /\ WellMade(AuditPage) /\ WellMade(ComingSoonPage)
<1>1. WellMade(DashboardPage)
  <2>1. DashboardPage.main = None /\ DashboardPage.controls = Nothing
    BY DEF DashboardPage
  <2> QED
    BY <2>1, NothingIsEmpty DEF WellMade
<1>2. WellMade(OrganizationsListPage)
  BY LoadFields, FormFields, NothingIsEmpty DEF WellMade, OrganizationsListPage
<1>3. WellMade(OrganizationDetailPage)
  BY LoadFields, ControlFields, NothingIsEmpty
  DEF WellMade, OrganizationDetailPage, EditOrganizationForm
<1>4. WellMade(UsersListPage)
  BY LoadFields, ControlFields, FormFields, NothingIsEmpty DEF WellMade, UsersListPage
<1>5. WellMade(LicenseDetailPage)
  BY LoadFields, ControlFields, NothingIsEmpty
  DEF WellMade, LicenseDetailPage, LicenseActionModal
<1>6. WellMade(PlansListPage)
  BY LoadFields, ControlFields, FormFields, NothingIsEmpty
  DEF WellMade, PlansListPage, AddPlanVersionForm
<1>7. WellMade(UsagePage)
  BY LoadFields, NothingIsEmpty DEF WellMade, UsagePage
<1>8. WellMade(AuditPage)
  BY LoadFields, NothingIsEmpty DEF WellMade, AuditPage
<1>9. WellMade(ComingSoonPage)
  BY NothingIsEmpty DEF WellMade, ComingSoonPage
<1> QED
  BY <1>1, <1>2, <1>3, <1>4, <1>5, <1>6, <1>7, <1>8, <1>9

LEMMA LicensesListIsWellMade == WellMade(LicensesListPage)
BY LoadFields, IssueLicenseFields DEF WellMade, LicensesListPage

LEMMA FinanceIsWellMade == WellMade(FinancePage)
BY LoadFields, CreateTransactionFields, ControlFields, NothingIsEmpty
DEF WellMade, FinancePage, VoidTransactionModal
LEMMA AppIsWellMade ==
  ASSUME NEW p \in DOMAIN App
  PROVE  WellMade(App[p])
BY PagesWithoutFormLoads, LicensesListIsWellMade, FinanceIsWellMade DEF App

\* The pages whose loads every role is granted.
LEMMA OpenPagesGranted ==
  ASSUME NEW caps, Roots \subseteq caps
  PROVE  /\ Grants(DashboardPage.loads, caps)
         /\ Grants(OrganizationsListPage.loads, caps)
         /\ Grants(OrganizationDetailPage.loads, caps)
         /\ Grants(LicensesListPage.loads, caps)
         /\ Grants(LicenseDetailPage.loads, caps)
         /\ Grants(PlansListPage.loads, caps)
         /\ Grants(ComingSoonPage.loads, caps)
<1>0. /\ "organizations.read" \in caps /\ "plans.read" \in caps
      /\ "licenses.read" \in caps
  BY DEF Roots
<1>1. Grants(DashboardPage.loads, caps)
  BY ReadHandlers, WhenFields DEF Grants, DashboardPage, Capability
<1>2. Grants(OrganizationsListPage.loads, caps)
  BY <1>0, ReadHandlers, LoadFields DEF Grants, OrganizationsListPage
<1>3. Grants(OrganizationDetailPage.loads, caps)
  BY <1>0, ReadHandlers, LoadFields DEF Grants, OrganizationDetailPage
<1>4. Grants(LicensesListPage.loads, caps)
  BY <1>0, ReadHandlers, LoadFields DEF Grants, LicensesListPage
<1>5. Grants(LicenseDetailPage.loads, caps)
  BY <1>0, ReadHandlers, LoadFields DEF Grants, LicenseDetailPage
<1>6. Grants(PlansListPage.loads, caps)
  BY <1>0, ReadHandlers, LoadFields DEF Grants, PlansListPage
<1>7. Grants(ComingSoonPage.loads, caps)
  BY NothingIsEmpty DEF Grants, ComingSoonPage
<1> QED
  BY <1>1, <1>2, <1>3, <1>4, <1>5, <1>6, <1>7

\* The others are granted to whom the menu shows them.
LEMMA GuardedPagesGranted ==
  ASSUME NEW caps, Roots \subseteq caps
  PROVE  /\ "users.invite" \in caps => Grants(UsersListPage.loads, caps)
         /\ "usage.read" \in caps => Grants(UsagePage.loads, caps)
         /\ "finance.read" \in caps => Grants(FinancePage.loads, caps)
         /\ "audit.read" \in caps => Grants(AuditPage.loads, caps)
<1>0. "organizations.read" \in caps
  BY DEF Roots
<1>1. "users.invite" \in caps => Grants(UsersListPage.loads, caps)
  BY ReadHandlers, LoadFields DEF Grants, UsersListPage
<1>2. "usage.read" \in caps => Grants(UsagePage.loads, caps)
  BY <1>0, ReadHandlers, LoadFields, WhenFields DEF Grants, UsagePage
<1>3. "finance.read" \in caps => Grants(FinancePage.loads, caps)
  BY ReadHandlers, LoadFields DEF Grants, FinancePage
<1>4. "audit.read" \in caps => Grants(AuditPage.loads, caps)
  BY ReadHandlers, LoadFields DEF Grants, AuditPage
<1> QED
  BY <1>1, <1>2, <1>3, <1>4

\* Whoever sees an item of the menu is granted its page.
LEMMA NavGranted ==
  ASSUME NEW caps, Roots \subseteq caps, NEW p \in DOMAIN NAV_ITEMS,
         Shows(NAV_ITEMS[p], caps)
  PROVE  p \in DOMAIN App /\ Grants(App[p].loads, caps)
<1>1. /\ "users.invite" # None /\ "usage.read" # None
      /\ "finance.read" # None /\ "audit.read" # None
  BY NoneAssumption DEF Capability
<1>2. p \in DOMAIN App
  BY DEF NAV_ITEMS, App
<1>3. Grants(App[p].loads, caps)
  BY <1>1, OpenPagesGranted, GuardedPagesGranted DEF NAV_ITEMS, App, Shows
<1> QED
  BY <1>2, <1>3

\* So is whoever follows a link.
LEMMA LinkGranted ==
  ASSUME NEW caps, Roots \subseteq caps, NEW p \in DOMAIN App,
         NEW q \in DOMAIN App[p].links
  PROVE  q \in DOMAIN App /\ Grants(App[q].loads, caps)
<1>1. q \in {"LicenseDetail", "OrganizationDetail", "OrganizationsList",
            "LicensesList"}
  BY NothingIsEmpty DEF App, DashboardPage, OrganizationsListPage,
     OrganizationDetailPage, UsersListPage, LicensesListPage, LicenseDetailPage,
     PlansListPage, UsagePage, FinancePage, AuditPage, ComingSoonPage
<1> QED
  BY <1>1, OpenPagesGranted DEF App

\* Whoever is shown a control is granted its operation and the loads of its form.
LEMMA ControlGranted ==
  ASSUME NEW caps, Roots \subseteq caps,
         "finance.write" \in caps => "finance.read" \in caps,
         NEW p \in DOMAIN App
  PROVE  ControlsGranted(App[p], caps)
<1>0. /\ "organizations.read" \in caps /\ "plans.read" \in caps
      /\ \A gate \in Capability : Shows(gate, caps) => gate \in caps
  BY NoneAssumption DEF Roots, Shows
<1>1. ControlsGranted(DashboardPage, caps) /\ ControlsGranted(UsagePage, caps)
      /\ ControlsGranted(AuditPage, caps) /\ ControlsGranted(ComingSoonPage, caps)
  BY NothingIsEmpty
  DEF ControlsGranted, DashboardPage, UsagePage, AuditPage, ComingSoonPage
<1>2. ControlsGranted(OrganizationsListPage, caps)
  BY <1>0, WriteHandlers, FormFields, NothingIsEmpty
  DEF ControlsGranted, Grants, OrganizationsListPage, Capability
<1>3. ControlsGranted(OrganizationDetailPage, caps)
  BY <1>0, WriteHandlers, ControlFields, NothingIsEmpty
  DEF ControlsGranted, Grants, OrganizationDetailPage, EditOrganizationForm, Capability
<1>4. ControlsGranted(UsersListPage, caps)
  <2> DEFINE P == UsersListPage
  <2>1. /\ DOMAIN P.controls = {"invite", "suspend", "revoke", "reset"}
        /\ P.controls["invite"] = InviteUserForm
        /\ P.controls["suspend"]
             = Button("users.reset_credentials", <<"users", "suspend">>)
        /\ P.controls["revoke"]
             = Button("users.reset_credentials", <<"users", "revokeSessions">>)
        /\ P.controls["reset"]
             = Button("users.reset_credentials", <<"users", "resetCredentials">>)
    BY DEF UsersListPage
  <2>2. Grants(Nothing, caps)
    BY NothingIsEmpty DEF Grants
  <2>3. /\ Shows("users.invite", caps) => "users.invite" \in caps
        /\ Shows("users.reset_credentials", caps)
             => "users.reset_credentials" \in caps
    BY <1>0 DEF Capability
  <2>4. ASSUME "users.reset_credentials" \in caps
        PROVE  \A h \in {"suspend", "revokeSessions", "resetCredentials"} :
                 CanActivate(<<"users", h>>, caps)
    BY <2>4, WriteHandlers
  <2> HIDE DEF P
  <2>5. ControlsGranted(P, caps)
    BY <2>1, <2>2, <2>3, <2>4, WriteHandlers, FormFields, ControlFields
    DEF ControlsGranted
  <2> QED
    BY <2>5 DEF P
<1>5. ControlsGranted(LicensesListPage, caps)
  <2> DEFINE P == LicensesListPage
  <2>1. DOMAIN P.controls = {"issue"} /\ P.controls["issue"] = IssueLicenseForm
    BY DEF LicensesListPage
  <2>2. Grants(IssueLicenseForm.loads, caps)
    BY <1>0, ReadHandlers, IssueLicenseFields, LoadFields DEF Grants
  <2>3. Shows("licenses.issue", caps) => "licenses.issue" \in caps
    BY <1>0 DEF Capability
  <2> HIDE DEF P
  <2>4. ControlsGranted(P, caps)
    BY <2>1, <2>2, <2>3, WriteHandlers, IssueLicenseFields
    DEF ControlsGranted
  <2> QED
    BY <2>4 DEF P
<1>6. ControlsGranted(LicenseDetailPage, caps)
  BY <1>0, WriteHandlers, ControlFields, NothingIsEmpty
  DEF ControlsGranted, Grants, LicenseDetailPage, LicenseActionModal, Capability
<1>7. ControlsGranted(PlansListPage, caps)
  BY <1>0, WriteHandlers, FormFields, ControlFields, NothingIsEmpty
  DEF ControlsGranted, Grants, PlansListPage, AddPlanVersionForm, Capability
<1>8. ControlsGranted(FinancePage, caps)
  <2> DEFINE P == FinancePage
  <2>1. ASSUME "finance.write" \in caps
        PROVE  Grants(CreateTransactionForm.loads, caps)
    BY <2>1, ReadHandlers, CreateTransactionFields, LoadFields DEF Grants
  <2>2. /\ DOMAIN P.controls = {"create", "pay", "void"}
        /\ P.controls["create"] = CreateTransactionForm
        /\ P.controls["pay"].gate = "finance.write"
        /\ P.controls["pay"].handler = <<"finance", "update">>
        /\ P.controls["pay"].loads = Nothing
        /\ P.controls["void"].gate = "finance.write"
        /\ P.controls["void"].handler = <<"finance", "void">>
        /\ P.controls["void"].loads = Nothing
    BY ControlFields DEF FinancePage, VoidTransactionModal
  <2>3. Grants(Nothing, caps)
    BY NothingIsEmpty DEF Grants
  <2>4. Shows("finance.write", caps) => "finance.write" \in caps
    BY <1>0 DEF Capability
  <2> HIDE DEF P
  <2>5. ASSUME "finance.write" \in caps
        PROVE  \A h \in {"create", "update", "void"} :
                 CanActivate(<<"finance", h>>, caps)
    BY <2>5, WriteHandlers
  <2>6. ControlsGranted(P, caps)
    BY <2>1, <2>2, <2>3, <2>4, <2>5, CreateTransactionFields
    DEF ControlsGranted
  <2> QED
    BY <2>6 DEF P
<1> QED
  BY <1>1, <1>2, <1>3, <1>4, <1>5, <1>6, <1>7, <1>8 DEF App

-----------------------------------------------------------------------------
(* The tab *)

\* A load is right when what it waits for is the answer for what is selected
\* now, asked with a capability the token has, and what it settled on was.
\* low is the least version its answer may have.
Right(s, l, sel, caps, low) ==
  /\ s \in LoadState
  /\ s.fetch # None =>
       /\ l.keyed => s.fetch.selection = sel
       /\ s.fetch.at = "sent" => (l.when \in Capability => l.when \in caps)
       /\ s.fetch.at = "read" => s.fetch.version >= low
  /\ s.fetch = None /\ ~s.error =>
       /\ s.data # None
       /\ l.keyed => s.data.selection = sel
       /\ s.data.version >= low

\* Only the rows of a page have to be as new as what the page was told of.
Low(n) == IF Here.main # None /\ n = Here.main THEN acked ELSE 0

AllRight ==
  /\ DOMAIN load = DOMAIN Loads
  /\ \A n \in DOMAIN load : Right(load[n], Loads[n], selection, Held, Low(n))

\* The conjuncts of TypeOK about everything but the loads; an operation under
\* way is within the bound.
Types ==
  /\ token \in Role
  /\ page \in DOMAIN App \cup {None}
  /\ offered \in BOOLEAN
  /\ selection \in Selections
  /\ dialog \in Dialog \cup {None} /\ submit \in Submission \cup {None}
  /\ dialog # None => dialog.control \in DOMAIN Here.controls
  /\ submit # None => submit.control \in DOMAIN Here.controls
  /\ version \in 0..MaxWrites
  /\ acked \in 0..version
  /\ submit # None /\ submit.at = "sent" => version < MaxWrites

\* What is offered was shown to the token there is.
Granted ==
  /\ offered => Grants(Here.loads, Held)
  /\ dialog # None /\ dialog.offered
       => Shows(Here.controls[dialog.control].gate, Held)
  /\ submit # None /\ submit.offered => Shows(Submitted.gate, Held)

IInv == Types /\ AllRight /\ Granted

LEMMA HeldFacts ==
  ASSUME token \in Role
  PROVE  /\ Roots \subseteq Held
         /\ "finance.write" \in Held => "finance.read" \in Held
BY EveryRoleReads DEF Held

LEMMA HereFacts ==
  ASSUME page \in DOMAIN App \cup {None}
  PROVE  /\ WellMade(Here)
         /\ \/ /\ Here.main = None /\ Here.loads = Nothing
               /\ Here.controls = Nothing
            \/ page \in DOMAIN App /\ Here = App[page]
<1>1. CASE page = None
  <2>1. Here = ComingSoonPage
    BY <1>1 DEF Here
  <2>2. /\ ComingSoonPage.main = None /\ ComingSoonPage.loads = Nothing
        /\ ComingSoonPage.controls = Nothing
    BY DEF ComingSoonPage
  <2> QED
    BY <2>1, <2>2, PagesWithoutFormLoads
<1>2. CASE page # None
  BY <1>2, AppIsWellMade DEF Here
<1> QED
  BY <1>1, <1>2

LEMMA HereGranted ==
  ASSUME token \in Role, page \in DOMAIN App \cup {None}
  PROVE  ControlsGranted(Here, Held)
<1>1. CASE page = None
  BY <1>1, NothingIsEmpty DEF Here, ComingSoonPage, ControlsGranted
<1>2. CASE page # None
  BY <1>2, HeldFacts, ControlGranted DEF Here
<1> QED
  BY <1>1, <1>2

\* The loads of the page and those of its form, which are never the same.
LEMMA LoadsFacts ==
  ASSUME Types
  PROVE  /\ DOMAIN Loads = DOMAIN Here.loads \cup DOMAIN FormLoads
         /\ \A n \in DOMAIN Here.loads : Loads[n] = Here.loads[n]
         /\ \A n \in DOMAIN FormLoads :
              Loads[n] = FormLoads[n] /\ n \notin DOMAIN Here.loads
         /\ Here.main # None \/ DOMAIN Here.controls # {} =>
              /\ Here.main \in DOMAIN Here.loads
              /\ Here.loads[Here.main].when = None
<1>1. WellMade(Here)
  BY HereFacts DEF Types
<1>2. DOMAIN FormLoads \cap DOMAIN Here.loads = {}
  BY <1>1, NothingIsEmpty DEF FormLoads, WellMade, Types
<1>3. /\ DOMAIN Loads = DOMAIN Here.loads \cup DOMAIN FormLoads
      /\ \A n \in DOMAIN Here.loads : Loads[n] = Here.loads[n]
      /\ \A n \in DOMAIN FormLoads : n \notin DOMAIN Here.loads
                                       => Loads[n] = FormLoads[n]
  BY DEF Loads, Joined
<1> QED
  BY <1>1, <1>2, <1>3 DEF WellMade

\* A load that starts is right, if it asks or may be of any version.
LEMMA StartIsRight ==
  ASSUME NEW s \in LoadState, NEW l, NEW sel \in Selections, NEW caps,
         NEW low \in Nat, low = 0 \/ l.when = None
  PROVE  Right(Start(s, l, sel, caps), l, sel, caps, low)
<1> DEFINE key == IF l.keyed THEN sel ELSE All
           asks == /\ l.when = "selected" => sel # All
                   /\ l.when \in Capability => l.when \in caps
           f == IF asks THEN [at |-> "sent", selection |-> key]
                ELSE [at |-> "read", selection |-> key, version |-> 0]
           t == Start(s, l, sel, caps)
<1>1. key \in Selections /\ (l.keyed => key = sel)
  BY ConsoleAssumption
<1>2. t = [s EXCEPT !.error = FALSE, !.fetch = f]
  BY DEF Start
<1>3. asks \/ low = 0
  BY NoneAssumption
<1> HIDE DEF key
<1>4. CASE asks
  <2> DEFINE g == [at |-> "sent", selection |-> key]
  <2>1. f = g
    BY <1>4
  <2>2. g \in Fetch /\ g.at = "sent" /\ g.selection = key
    BY <1>1 DEF Fetch
  <2> HIDE DEF g, f
  <2>3. t \in LoadState /\ t.fetch = g
    BY <1>2, <2>1, <2>2 DEF LoadState
  <2>4. g # None
    BY <2>2, NoneAssumption
  <2> QED
    BY <1>1, <1>4, <2>2, <2>3, <2>4 DEF Right
<1>5. CASE ~asks
  <2> DEFINE g == [at |-> "read", selection |-> key, version |-> 0]
  <2>1. f = g /\ low = 0
    BY <1>3, <1>5
  <2>2. g \in Fetch /\ g.at = "read" /\ g.selection = key /\ g.version = 0
    BY <1>1, ConsoleAssumption DEF Fetch
  <2> HIDE DEF g, f
  <2>3. t \in LoadState /\ t.fetch = g
    BY <1>2, <2>1, <2>2 DEF LoadState
  <2>4. g # None
    BY <2>2, NoneAssumption
  <2> QED
    BY <1>1, <2>1, <2>2, <2>3, <2>4 DEF Right
<1> QED
  BY <1>4, <1>5

\* A page that appears starts its loads, and is right whatever it is.
LEMMA MountIsRight ==
  ASSUME NEW loads, NEW sel \in Selections, NEW caps, NEW n \in DOMAIN loads
  PROVE  /\ DOMAIN Mount(loads, sel, caps) = DOMAIN loads
         /\ \A low \in Nat : low = 0 \/ loads[n].when = None
              => Right(Mount(loads, sel, caps)[n], loads[n], sel, caps, low)
<1> DEFINE s == [data |-> None, error |-> FALSE, fetch |-> None]
<1>1. s \in LoadState
  BY DEF LoadState
<1>2. Mount(loads, sel, caps)[n] = Start(s, loads[n], sel, caps)
  BY DEF Mount
<1> HIDE DEF s
<1> QED
  BY <1>1, <1>2, StartIsRight DEF Mount

LEMMA InitIInv == Init => IInv
<1> SUFFICES ASSUME Init PROVE IInv
  OBVIOUS
<1>1. /\ Here = ComingSoonPage /\ FormLoads = Nothing
      /\ ComingSoonPage.loads = Nothing /\ ComingSoonPage.main = None
  BY DEF Init, Here, FormLoads, ComingSoonPage
<1>2. Types
  <2>1. 0 \in 0..MaxWrites /\ 0 \in 0..0
    BY ConsoleAssumption
  <2>2. version \in 0..MaxWrites /\ acked \in 0..version
    BY <2>1 DEF Init
  <2>3. offered \in BOOLEAN /\ selection \in Selections
    BY ConsoleAssumption DEF Init
  <2> QED
    BY <2>2, <2>3 DEF Init, Types
<1>3. AllRight
  BY <1>1, <1>2, LoadsFacts, NothingIsEmpty DEF Init, AllRight
<1>4. Granted
  BY DEF Init, Granted
<1> QED
  BY <1>2, <1>3, <1>4 DEF IInv

\* A step that changes what loads hold and nothing they depend on.
LEMMA SameLoads ==
  ASSUME IInv, UNCHANGED <<token, page, offered, selection, dialog, submit, acked>>,
         UNCHANGED version,
         DOMAIN load' = DOMAIN load,
         \A n \in DOMAIN load :
           \/ load'[n] = load[n]
           \/ Right(load'[n], Loads[n], selection, Held, Low(n))
  PROVE  IInv'
<1>1. /\ Here' = Here /\ Loads' = Loads /\ Held' = Held
      /\ \A n : Low(n)' = Low(n)
  BY DEF Here, Loads, FormLoads, Held, Low
<1>2. Types'
  BY <1>1, ConsoleAssumption DEF IInv, Types
<1>3. AllRight'
  BY <1>1 DEF IInv, AllRight
<1>4. Granted'
  BY <1>1 DEF IInv, Granted, Submitted
<1> QED
  BY <1>2, <1>3, <1>4 DEF IInv

\* A reply on its way is for what was asked and holds what the page has been
\* told of, since the API does nothing after which it is told.
LEMMA ReplyKeepsIInv ==
  ASSUME IInv, NEW n \in DOMAIN load, Replies(n)
  PROVE  IInv'
<1> DEFINE s == load[n]
           f == s.fetch
<1>1. /\ s \in LoadState /\ Right(s, Loads[n], selection, Held, Low(n))
      /\ f # None /\ f \in Fetch
  BY DEF IInv, AllRight, Right, Replies, Read, Deliver, FailToLoad, Asking,
     LoadState
<1>2. /\ version \in 0..MaxWrites /\ acked \in 0..version
      /\ version \in Nat /\ acked \in Nat
  BY ConsoleAssumption DEF IInv, Types
<1>3. f.selection \in Selections /\ (f.at = "read" => f.version \in 0..MaxWrites)
  BY <1>1 DEF Fetch
<1>4. PICK t : load' = [load EXCEPT ![n] = t]
               /\ Right(t, Loads[n], selection, Held, Low(n))
  <2>1. CASE Read(n)
    <3> DEFINE v == IF n = Here.main THEN version ELSE 0
               g == [at |-> "read", selection |-> f.selection, version |-> v]
               t == [s EXCEPT !.fetch = g]
    <3>1. v \in 0..MaxWrites /\ v >= Low(n)
      BY <1>2, ConsoleAssumption DEF Low
    <3>2. load' = [load EXCEPT ![n] = t]
      BY <2>1 DEF Read
    <3> HIDE DEF v
    <3>3. /\ g \in Fetch /\ g.at = "read" /\ g.version = v
          /\ g.selection = f.selection
      BY <1>3, <3>1 DEF Fetch
    <3> HIDE DEF g
    <3>4. t \in LoadState /\ t.fetch = g
      BY <1>1, <3>3 DEF LoadState
    <3>5. g # None
      BY <3>3, NoneAssumption
    <3>6. Right(t, Loads[n], selection, Held, Low(n))
      BY <1>1, <3>1, <3>3, <3>4, <3>5 DEF Right
    <3> HIDE DEF t
    <3> QED
      BY <3>2, <3>6
  <2>2. CASE Deliver(n)
    <3> DEFINE d == [selection |-> f.selection, version |-> f.version]
               t == [s EXCEPT !.fetch = None, !.data = d]
    <3>1. load' = [load EXCEPT ![n] = t] /\ f.at = "read"
      BY <2>2 DEF Deliver
    <3>2. d \in Data /\ d.selection = f.selection /\ d.version = f.version
      BY <1>3, <3>1 DEF Data
    <3> HIDE DEF d
    <3>3. t \in LoadState /\ t.fetch = None /\ t.data = d
      BY <1>1, <3>2 DEF LoadState
    <3>4. d # None
      BY <3>2, NoneAssumption
    <3>5. Right(t, Loads[n], selection, Held, Low(n))
      BY <1>1, <3>1, <3>2, <3>3, <3>4 DEF Right
    <3> HIDE DEF t
    <3> QED
      BY <3>1, <3>5
  <2>3. CASE FailToLoad(n)
    <3> DEFINE t == Failed(s)
    <3>1. load' = [load EXCEPT ![n] = t]
      BY <2>3 DEF FailToLoad
    <3>2. t \in LoadState /\ t.fetch = None /\ t.error = TRUE
      BY <1>1 DEF LoadState, Failed
    <3>3. Right(t, Loads[n], selection, Held, Low(n))
      BY <3>2 DEF Right
    <3> HIDE DEF t
    <3> QED
      BY <3>1, <3>3
  <2> QED
    BY <2>1, <2>2, <2>3 DEF Replies
<1>5. UNCHANGED <<token, page, offered, selection, dialog, submit, version, acked>>
  BY DEF Replies, Read, Deliver, FailToLoad
<1>7. /\ DOMAIN load' = DOMAIN load
      /\ \A m \in DOMAIN load :
           \/ load'[m] = load[m]
           \/ Right(load'[m], Loads[m], selection, Held, Low(m))
  BY <1>4
<1> QED
  BY <1>5, <1>7, SameLoads

\* The rows start again, and nothing else does.
LEMMA RefetchIsRight ==
  ASSUME Types, Here.main # None \/ DOMAIN Here.controls # {},
         NEW loads, Here.main \in DOMAIN loads,
         loads[Here.main] \in LoadState
  PROVE  /\ DOMAIN Refetch(loads, Here.main) = DOMAIN loads
         /\ \A n \in DOMAIN loads : n # Here.main
              => Refetch(loads, Here.main)[n] = loads[n]
         /\ \A low \in Nat :
              Right(Refetch(loads, Here.main)[Here.main], Here.loads[Here.main],
                    selection, Held, low)
<1> DEFINE m == Here.main
           s == Start(loads[m], Here.loads[m], selection, Held)
<1>1. Here.loads[m].when = None /\ selection \in Selections
  BY LoadsFacts DEF Types
<1>2. \A low \in Nat : Right(s, Here.loads[m], selection, Held, low)
  BY <1>1, StartIsRight
<1>3. Refetch(loads, m) = [loads EXCEPT ![m] = s]
  BY DEF Refetch
<1> HIDE DEF s, m
<1> QED
  BY <1>2, <1>3 DEF m

LEMMA RetryKeepsIInv ==
  ASSUME IInv, Retry
  PROVE  IInv'
<1>1. /\ Here.main # None /\ load' = Refetch(load, Here.main)
      /\ UNCHANGED <<token, page, offered, selection, dialog, submit, version, acked>>
  BY DEF Retry
<1>2. Here.main \in DOMAIN load /\ Loads[Here.main] = Here.loads[Here.main]
  BY <1>1, LoadsFacts DEF IInv, AllRight
<1>3. load[Here.main] \in LoadState /\ Types
  BY <1>2 DEF IInv, AllRight, Right
<1>4. \A n : Low(n) \in Nat
  BY <1>1, ConsoleAssumption DEF IInv, Types, Low
<1>5. /\ DOMAIN load' = DOMAIN load
      /\ \A n \in DOMAIN load :
           \/ load'[n] = load[n]
           \/ Right(load'[n], Loads[n], selection, Held, Low(n))
  BY <1>1, <1>2, <1>3, <1>4, RefetchIsRight
<1> QED
  BY <1>1, <1>4, <1>5, SameLoads

LEMMA LowFacts ==
  ASSUME Types, NEW n
  PROVE  /\ Low(n) \in Nat
         /\ n \in DOMAIN Loads => Low(n) = 0 \/ Loads[n].when = None
BY LoadsFacts, ConsoleAssumption DEF Types, Low

\* A page that is shown, with all that belongs to the one before it gone.
LEMMA ShowKeepsIInv ==
  ASSUME NEW p \in DOMAIN App, NEW sel \in Selections, NEW r \in Role,
         NEW b \in BOOLEAN, Show(p, sel, r, b), token' = r,
         b => Grants(App[p].loads, CapabilitiesOf({r}))
  PROVE  IInv'
<1>1. /\ page' = p /\ offered' = b /\ selection' = sel /\ dialog' = None
      /\ submit' = None /\ version' = 0 /\ acked' = 0
      /\ load' = Mount(App[p].loads, sel, CapabilitiesOf({r}))
  BY DEF Show
<1>2. Here' = App[p] /\ Held' = CapabilitiesOf({r}) /\ FormLoads' = Nothing
  BY <1>1, NoneAssumption DEF Here, Held, FormLoads
<1>3. Types'
  <2>1. version' \in 0..MaxWrites /\ acked' \in 0..version'
    BY <1>1, ConsoleAssumption
  <2> QED
    BY <1>1, <2>1 DEF Types
<1>4. /\ DOMAIN Loads' = DOMAIN App[p].loads
      /\ \A n \in DOMAIN App[p].loads : Loads'[n] = App[p].loads[n]
  BY <1>2, NothingIsEmpty DEF Loads, Joined
<1>5. \A n : Low(n)' = 0
  BY <1>1 DEF Low
<1>6. AllRight'
  <2>1. DOMAIN load' = DOMAIN App[p].loads
    BY <1>1 DEF Mount
  <2>2. \A n \in DOMAIN load' :
          Right(load'[n], App[p].loads[n], sel, CapabilitiesOf({r}), 0)
    BY <1>1, <2>1, MountIsRight
  <2> QED
    BY <1>1, <1>2, <1>4, <1>5, <2>1, <2>2 DEF AllRight
<1>7. Granted'
  BY <1>1, <1>2 DEF Granted
<1> QED
  BY <1>3, <1>6, <1>7 DEF IInv

LEMMA LogInKeepsIInv ==
  ASSUME IInv, NEW r \in Role, NEW p \in DOMAIN App, LogIn(r, p)
  PROVE  IInv'
<1>1. p = "Dashboard" => Grants(App[p].loads, CapabilitiesOf({r}))
  BY EveryRoleReads, OpenPagesGranted DEF App
<1>2. Show(p, All, r, p = "Dashboard") /\ token' = r
  BY DEF LogIn
<1>3. (p = "Dashboard") \in BOOLEAN
  OBVIOUS
<1> QED
  BY <1>1, <1>2, <1>3, ShowKeepsIInv, ConsoleAssumption

LEMMA MoveKeepsIInv ==
  ASSUME IInv,
         \/ \E p \in DOMAIN NAV_ITEMS : Navigate(p)
         \/ \E p \in DOMAIN Here.links, sel \in Selections : FollowLink(p, sel)
  PROVE  IInv'
<1>1. Roots \subseteq Held /\ token \in Role /\ Held = CapabilitiesOf({token})
  BY HeldFacts DEF IInv, Types, Held
<1>2. PICK p \in DOMAIN App, sel \in Selections :
        Show(p, sel, token, TRUE) /\ Grants(App[p].loads, Held)
  <2>1. CASE \E p \in DOMAIN NAV_ITEMS : Navigate(p)
    BY <1>1, <2>1, NavGranted, ConsoleAssumption DEF Navigate
  <2>2. CASE \E p \in DOMAIN Here.links, sel \in Selections : FollowLink(p, sel)
    <3>1. PICK p \in DOMAIN Here.links, sel \in Selections : FollowLink(p, sel)
      BY <2>2
    <3>2. page \in DOMAIN App /\ Here = App[page]
      BY <3>1 DEF FollowLink, Here, IInv, Types
    <3> QED
      BY <1>1, <3>1, <3>2, LinkGranted DEF FollowLink
  <2> QED
    BY <2>1, <2>2
<1>3. token' = token
  BY DEF Navigate, FollowLink
<1> QED
  BY <1>1, <1>2, <1>3, ShowKeepsIInv

LEMMA GoOnKeepsIInv ==
  ASSUME IInv, SucceedAndGo
  PROVE  IInv'
<1>1. /\ submit # None /\ Submitted.next # None
      /\ Show(Submitted.next, All, token, submit.offered) /\ token' = token
  BY DEF SucceedAndGo
<1>2. Submitted.next = "LicenseDetail"
  BY <1>1, HereFacts DEF IInv, Types, WellMade, Submitted
<1>3. submit.offered \in BOOLEAN /\ token \in Role
  BY <1>1 DEF IInv, Types, Submission
<1>4. "LicenseDetail" \in DOMAIN App /\ Grants(App["LicenseDetail"].loads, Held)
  BY <1>3, HeldFacts, OpenPagesGranted DEF App
<1> QED
  BY <1>1, <1>2, <1>3, <1>4, ShowKeepsIInv, ConsoleAssumption DEF Held

LEMMA LogOutKeepsIInv ==
  ASSUME IInv, LogOut
  PROVE  IInv'
<1>1. /\ page' = None /\ offered' = FALSE /\ selection' = All /\ load' = Nothing
      /\ dialog' = None /\ submit' = None /\ version' = 0 /\ acked' = 0
      /\ token' = token
  BY DEF LogOut, Leave
<1>2. /\ Here' = ComingSoonPage /\ FormLoads' = Nothing
      /\ ComingSoonPage.loads = Nothing
  BY <1>1 DEF Here, FormLoads, ComingSoonPage
<1>3. Types'
  <2>1. version' \in 0..MaxWrites /\ acked' \in 0..version'
    BY <1>1, ConsoleAssumption
  <2>2. offered' \in BOOLEAN /\ token' \in Role
    BY <1>1 DEF IInv, Types
  <2> QED
    BY <1>1, <2>1, <2>2, ConsoleAssumption DEF Types
<1>4. AllRight'
  BY <1>1, <1>2, NothingIsEmpty DEF AllRight, Loads, Joined
<1>5. Granted'
  BY <1>1 DEF Granted
<1> QED
  BY <1>3, <1>4, <1>5 DEF IInv

\* With another selection the loads that depend on it start again.
LEMMA SelectKeepsIInv ==
  ASSUME IInv, NEW sel \in Selections, Select(sel)
  PROVE  IInv'
<1>1. /\ selection' = sel
      /\ load' = [n \in DOMAIN load |->
                    IF Loads[n].keyed THEN Start(load[n], Loads[n], sel, Held)
                    ELSE load[n]]
      /\ UNCHANGED <<token, page, offered, dialog, submit, version, acked>>
  BY DEF Select
<1>2. /\ Here' = Here /\ Loads' = Loads /\ Held' = Held
      /\ \A n : Low(n)' = Low(n)
  BY <1>1 DEF Here, Loads, FormLoads, Held, Low
<1>3. Types'
  BY <1>1, <1>2 DEF IInv, Types
<1>4. ASSUME NEW n \in DOMAIN load
      PROVE  Right(load'[n], Loads[n], sel, Held, Low(n))
  <2>1. /\ Right(load[n], Loads[n], selection, Held, Low(n))
        /\ n \in DOMAIN Loads /\ load[n] \in LoadState
    BY DEF IInv, AllRight, Right
  <2>2. Low(n) \in Nat /\ (Low(n) = 0 \/ Loads[n].when = None)
    BY <2>1, LowFacts DEF IInv
  <2>3. CASE Loads[n].keyed
    <3>1. load'[n] = Start(load[n], Loads[n], sel, Held)
      BY <1>1, <2>3
    <3> QED
      BY <2>1, <2>2, <3>1, StartIsRight
  <2>4. CASE ~Loads[n].keyed
    <3>1. load'[n] = load[n]
      BY <1>1, <2>4
    <3> QED
      BY <2>1, <2>4, <3>1 DEF Right
  <2> QED
    BY <2>3, <2>4
<1>5. AllRight'
  BY <1>1, <1>2, <1>4 DEF IInv, AllRight
<1>6. Granted'
  BY <1>1, <1>2 DEF IInv, Granted, Submitted
<1> QED
  BY <1>3, <1>5, <1>6 DEF IInv

\* The loads of a form join those of the page.
LEMMA OpenKeepsIInv ==
  ASSUME IInv, NEW c \in DOMAIN Here.controls, Open(c)
  PROVE  IInv'
<1> DEFINE F == Here.controls[c].loads
           d == [control |-> c, offered |-> TRUE]
<1>1. /\ dialog = None /\ dialog' = d /\ Shows(Here.controls[c].gate, Held)
      /\ load' = Joined(load, Mount(F, selection, Held))
      /\ UNCHANGED <<token, page, offered, selection, submit, version, acked>>
  BY DEF Open
<1>2. page \in DOMAIN App /\ Here = App[page]
  BY DEF Open, IInv, Types, Here
<1>3. /\ d \in Dialog /\ d # None /\ d.control = c /\ d.offered = TRUE
  <2>1. c \in Controls
    BY HereFacts, NothingIsEmpty DEF IInv, Types, Controls
  <2>2. d \in Dialog /\ d.control = c /\ d.offered = TRUE
    BY <2>1 DEF Dialog
  <2> HIDE DEF d
  <2> QED
    BY <2>2, NoneAssumption
<1> HIDE DEF d
<1>4. /\ Here' = Here /\ Held' = Held /\ FormLoads' = F
      /\ \A n : Low(n)' = Low(n)
  BY <1>1, <1>3 DEF Here, Held, FormLoads, Low
<1>5. Types'
  BY <1>1, <1>3, <1>4 DEF IInv, Types
<1>6. /\ DOMAIN load = DOMAIN Here.loads
      /\ \A n \in DOMAIN load : Loads[n] = Here.loads[n]
  BY <1>1, LoadsFacts, NothingIsEmpty DEF IInv, AllRight, FormLoads
<1>7. /\ DOMAIN Loads' = DOMAIN Here.loads \cup DOMAIN F
      /\ \A n \in DOMAIN Here.loads : Loads'[n] = Here.loads[n]
      /\ \A n \in DOMAIN F : Loads'[n] = F[n] /\ n \notin DOMAIN Here.loads
  <2>1. DOMAIN F \cap DOMAIN Here.loads = {}
    BY HereFacts DEF IInv, Types, WellMade
  <2> QED
    BY <1>4, <2>1 DEF Loads, Joined
<1> HIDE DEF F
<1>8. DOMAIN Mount(F, selection, Held) = DOMAIN F
  BY DEF Mount
<1>9. /\ DOMAIN load' = DOMAIN Here.loads \cup DOMAIN F
      /\ \A n \in DOMAIN Here.loads : load'[n] = load[n]
      /\ \A n \in DOMAIN F : load'[n] = Mount(F, selection, Held)[n]
  BY <1>1, <1>6, <1>7, <1>8 DEF Joined
<1>10. ASSUME NEW n \in DOMAIN load'
       PROVE  Right(load'[n], Loads'[n], selection, Held, Low(n))
  <2>1. CASE n \in DOMAIN Here.loads
    BY <1>6, <1>7, <1>9, <2>1 DEF IInv, AllRight
  <2>2. CASE n \in DOMAIN F
    <3>1. n \notin DOMAIN Here.loads
      BY <1>7, <2>2
    <3>2. Low(n) = 0
      BY <3>1, LoadsFacts DEF Low, IInv
    <3>3. Right(Mount(F, selection, Held)[n], F[n], selection, Held, 0)
      BY <2>2, MountIsRight DEF IInv, Types
    <3> QED
      BY <1>7, <1>9, <2>2, <3>2, <3>3
  <2> QED
    BY <1>9, <2>1, <2>2
<1>11. AllRight'
  BY <1>1, <1>4, <1>7, <1>9, <1>10 DEF AllRight
<1>12. Granted'
  BY <1>1, <1>3, <1>4 DEF IInv, Granted, Submitted
<1> QED
  BY <1>5, <1>11, <1>12 DEF IInv

\* What is left of the loads when a form goes.
LEMMA PageLoadsFacts ==
  ASSUME IInv
  PROVE  /\ DOMAIN PageLoads(load) = DOMAIN Here.loads
         /\ \A n \in DOMAIN Here.loads :
              /\ n \in DOMAIN load /\ PageLoads(load)[n] = load[n]
              /\ Loads[n] = Here.loads[n]
BY LoadsFacts DEF PageLoads, IInv, AllRight

\* The loads a page without a form is to have.
LEMMA LoadsWithoutForm ==
  ASSUME UNCHANGED page, dialog' = None
  PROVE  /\ Here' = Here /\ DOMAIN Loads' = DOMAIN Here.loads
         /\ \A n \in DOMAIN Here.loads : Loads'[n] = Here.loads[n]
<1>1. Here' = Here /\ FormLoads' = Nothing
  BY DEF Here, FormLoads
<1> QED
  BY <1>1, NothingIsEmpty DEF Loads, Joined

LEMMA CloseKeepsIInv ==
  ASSUME IInv, Close
  PROVE  IInv'
<1>1. /\ dialog' = None /\ load' = PageLoads(load)
      /\ UNCHANGED <<token, page, offered, selection, submit, version, acked>>
  BY DEF Close
<1>2. /\ Here' = Here /\ Held' = Held /\ \A n : Low(n)' = Low(n)
  BY <1>1 DEF Here, Held, Low
<1>3. Types'
  BY <1>1, <1>2 DEF IInv, Types
<1>4. /\ DOMAIN load' = DOMAIN Loads'
      /\ \A n \in DOMAIN load' : Right(load'[n], Loads'[n], selection, Held, Low(n))
  BY <1>1, PageLoadsFacts, LoadsWithoutForm DEF IInv, AllRight
<1>5. AllRight'
  BY <1>1, <1>2, <1>4 DEF AllRight
<1>6. Granted'
  BY <1>1, <1>2 DEF IInv, Granted, Submitted
<1> QED
  BY <1>3, <1>5, <1>6 DEF IInv

\* An operation that begins, is done or fails touches no load.
LEMMA SubmitKeepsIInv ==
  ASSUME IInv, FailToSubmit \/ Commit \/ \E c \in DOMAIN Here.controls : Submit(c)
  PROVE  IInv'
<1>1. UNCHANGED <<token, page, offered, selection, load, dialog, acked>>
  BY DEF FailToSubmit, Commit, Submit
<1>2. /\ Here' = Here /\ Held' = Held /\ Loads' = Loads
      /\ \A n : Low(n)' = Low(n)
  BY <1>1 DEF Here, Held, Loads, FormLoads, Low
<1>3. AllRight'
  BY <1>1, <1>2 DEF IInv, AllRight
<1>4. version \in Nat /\ acked \in Nat /\ acked <= version /\ version <= MaxWrites
  BY ConsoleAssumption DEF IInv, Types
<1>5. Types' /\ Granted'
  <2>1. CASE FailToSubmit
    BY <1>1, <1>2, <2>1 DEF FailToSubmit, IInv, Types, Granted
  <2>2. CASE Commit
    <3> DEFINE t == [submit EXCEPT !.at = "done"]
    <3>1. /\ submit # None /\ submit \in Submission /\ version < MaxWrites
          /\ version' = version + 1 /\ submit' = t
      BY <2>2 DEF Commit, IInv, Types
    <3>2. /\ t \in Submission /\ t.at = "done" /\ t.control = submit.control
          /\ t.offered = submit.offered
      BY <3>1 DEF Submission
    <3> HIDE DEF t
    <3>3. version' \in 0..MaxWrites /\ acked \in 0..version'
      BY <1>4, <3>1, ConsoleAssumption
    <3>4. Types'
      BY <1>1, <1>2, <3>1, <3>2, <3>3 DEF IInv, Types
    <3>5. Granted'
      BY <1>1, <1>2, <3>1, <3>2 DEF IInv, Granted, Submitted
    <3> QED
      BY <3>4, <3>5
  <2>3. CASE \E c \in DOMAIN Here.controls : Submit(c)
    <3>1. PICK c \in DOMAIN Here.controls : Submit(c)
      BY <2>3
    <3> DEFINE b == dialog # None => dialog.offered
               t == [at |-> "sent", control |-> c, offered |-> b]
    <3>2. b \in BOOLEAN
      BY DEF IInv, Types, Dialog
    <3>3. c \in Controls
      BY HereFacts, NothingIsEmpty DEF IInv, Types, Controls
    <3>4. submit' = t /\ UNCHANGED version /\ version < MaxWrites
      BY <3>1 DEF Submit
    <3>5. b => Shows(Here.controls[c].gate, Held)
      BY <3>1 DEF Submit, IInv, Granted
    <3> HIDE DEF b
    <3>6. t \in Submission /\ t.at = "sent" /\ t.control = c /\ t.offered = b
      BY <3>2, <3>3 DEF Submission
    <3> HIDE DEF t
    <3>7. Types'
      BY <1>1, <1>2, <3>4, <3>6 DEF IInv, Types
    <3>8. Granted'
      BY <1>1, <1>2, <3>4, <3>5, <3>6 DEF IInv, Granted, Submitted
    <3> QED
      BY <3>7, <3>8
  <2> QED
    BY <2>1, <2>2, <2>3
<1> QED
  BY <1>3, <1>5 DEF IInv

\* The page is told of all that was done, and its rows start again.
LEMMA SucceedKeepsIInv ==
  ASSUME IInv, Succeed
  PROVE  IInv'
<1> DEFINE L == IF Closes THEN PageLoads(load) ELSE load
           m == Here.main
<1>1. /\ submit # None /\ submit' = None /\ acked' = version
      /\ dialog' = (IF Closes THEN None ELSE dialog) /\ load' = Refetch(L, m)
      /\ UNCHANGED <<token, page, offered, selection, version>>
  BY DEF Succeed
<1>2. Here' = Here /\ Held' = Held
  BY <1>1 DEF Here, Held
<1>3. Types'
  <2>1. version' \in 0..MaxWrites /\ acked' \in 0..version'
    BY <1>1, ConsoleAssumption DEF IInv, Types
  <2> QED
    BY <1>1, <1>2, <2>1 DEF IInv, Types
<1>4. DOMAIN Here.controls # {}
  BY <1>1 DEF IInv, Types
<1>5. m \in DOMAIN Here.loads
  BY <1>4, LoadsFacts DEF IInv
<1>6. /\ DOMAIN L = DOMAIN Loads' /\ m \in DOMAIN L
      /\ \A n \in DOMAIN L :
           n \in DOMAIN load /\ L[n] = load[n] /\ Loads'[n] = Loads[n]
      /\ Loads[m] = Here.loads[m]
  <2>1. CASE Closes
    BY <1>1, <1>5, <2>1, PageLoadsFacts, LoadsWithoutForm
  <2>2. CASE ~Closes
    <3>1. Loads' = Loads
      BY <1>1, <1>2, <2>2 DEF Loads, FormLoads
    <3> QED
      BY <1>5, <2>2, <3>1, LoadsFacts DEF IInv, AllRight
  <2> QED
    BY <2>1, <2>2
<1> HIDE DEF L
<1>7. L[m] \in LoadState
  BY <1>6 DEF IInv, AllRight, Right
<1>8. /\ DOMAIN load' = DOMAIN L
      /\ \A n \in DOMAIN L : n # m => load'[n] = L[n]
      /\ \A low \in Nat : Right(load'[m], Here.loads[m], selection, Held, low)
  BY <1>1, <1>4, <1>6, <1>7, RefetchIsRight DEF IInv
<1>9. ASSUME NEW n \in DOMAIN L
      PROVE  Right(load'[n], Loads'[n], selection, Held, Low(n)')
  <2>1. CASE n = m
    <3>1. Low(n)' \in Nat
      BY <1>1, ConsoleAssumption DEF Low, IInv, Types
    <3> QED
      BY <1>6, <1>8, <2>1, <3>1
  <2>2. CASE n # m
    <3>1. Low(n)' = 0 /\ Low(n) = 0
      BY <1>2, <2>2 DEF Low
    <3>2. Right(load[n], Loads[n], selection, Held, Low(n))
      BY <1>6 DEF IInv, AllRight
    <3> QED
      BY <1>6, <1>8, <2>2, <3>1, <3>2
  <2> QED
    BY <2>1, <2>2
<1>10. AllRight'
  BY <1>1, <1>2, <1>6, <1>8, <1>9 DEF AllRight
<1>11. Granted'
  BY <1>1, <1>2 DEF IInv, Granted, Submitted
<1> QED
  BY <1>3, <1>10, <1>11 DEF IInv

LEMMA NotOfferedFacts ==
  ASSUME NEW T \in {Dialog, Submission}, NEW x \in T \cup {None}
  PROVE  /\ NotOffered(x) \in T \cup {None}
         /\ NotOffered(x) = None <=> x = None
         /\ x # None => /\ NotOffered(x).control = x.control
                        /\ NotOffered(x).offered = FALSE
         /\ T = Submission /\ x # None => NotOffered(x).at = x.at
<1>1. CASE x = None
  BY <1>1 DEF NotOffered
<1>2. CASE x # None /\ T = Dialog
  <2> DEFINE y == [x EXCEPT !.offered = FALSE]
  <2>1. y \in Dialog /\ y.control = x.control /\ y.offered = FALSE
    BY <1>2 DEF Dialog
  <2>2. NotOffered(x) = y
    BY <1>2 DEF NotOffered
  <2> HIDE DEF y
  <2>3. ASSUME T = Submission PROVE y.at = x.at
    BY <1>2, <2>3 DEF Submission, y
  <2> QED
    BY <1>2, <2>1, <2>2, <2>3, NoneAssumption
<1>3. CASE x # None /\ T = Submission
  <2> DEFINE y == [x EXCEPT !.offered = FALSE]
  <2>1. /\ y \in Submission /\ y.control = x.control /\ y.offered = FALSE
        /\ y.at = x.at
    BY <1>3 DEF Submission
  <2>2. NotOffered(x) = y
    BY <1>3 DEF NotOffered
  <2> HIDE DEF y
  <2> QED
    BY <1>3, <2>1, <2>2, NoneAssumption
<1> QED
  BY <1>1, <1>2, <1>3

\* With another token nothing on the screen is offered any more, and the loads
\* that hang on a capability it lacks ask nothing.
LEMMA RenewKeepsIInv ==
  ASSUME IInv, NEW r \in Role, Renew(r)
  PROVE  IInv'
<1> DEFINE caps == CapabilitiesOf({r})
<1>1. /\ token' = r /\ offered' = FALSE
      /\ dialog' = NotOffered(dialog) /\ submit' = NotOffered(submit)
      /\ load' = [n \in DOMAIN load |->
           IF Loads[n].when \in Capability
                /\ (Loads[n].when \in caps) # (Loads[n].when \in Held)
           THEN Start(load[n], Loads[n], selection, caps) ELSE load[n]]
      /\ UNCHANGED <<page, selection, version, acked>>
  BY DEF Renew
<1>2. /\ dialog' \in Dialog \cup {None} /\ (dialog' = None <=> dialog = None)
      /\ dialog # None => /\ dialog'.control = dialog.control
                          /\ dialog'.offered = FALSE
  BY <1>1, NotOfferedFacts DEF IInv, Types
<1>3. /\ submit' \in Submission \cup {None} /\ (submit' = None <=> submit = None)
      /\ submit # None => /\ submit'.control = submit.control
                          /\ submit'.offered = FALSE /\ submit'.at = submit.at
  BY <1>1, NotOfferedFacts DEF IInv, Types
<1>4. /\ Here' = Here /\ Held' = caps /\ Loads' = Loads
      /\ \A n : Low(n)' = Low(n)
  BY <1>1, <1>2 DEF Here, Held, Loads, FormLoads, Low
<1>5. Types'
  BY <1>1, <1>2, <1>3, <1>4 DEF IInv, Types
<1> HIDE DEF caps
<1>6. ASSUME NEW n \in DOMAIN load
      PROVE  Right(load'[n], Loads[n], selection, caps, Low(n))
  <2>1. /\ Right(load[n], Loads[n], selection, Held, Low(n))
        /\ n \in DOMAIN Loads /\ load[n] \in LoadState
        /\ selection \in Selections
    BY DEF IInv, AllRight, Right, Types
  <2>2. Low(n) \in Nat /\ (Low(n) = 0 \/ Loads[n].when = None)
    BY <2>1, LowFacts DEF IInv
  <2>3. CASE load'[n] = Start(load[n], Loads[n], selection, caps)
    BY <2>1, <2>2, <2>3, StartIsRight
  <2>4. CASE load'[n] # Start(load[n], Loads[n], selection, caps)
    <3>1. /\ load'[n] = load[n]
          /\ Loads[n].when \in Capability
               => (Loads[n].when \in caps <=> Loads[n].when \in Held)
      BY <1>1, <2>4
    <3> QED
      BY <2>1, <3>1 DEF Right
  <2> QED
    BY <2>3, <2>4
<1>7. AllRight'
  BY <1>1, <1>4, <1>6 DEF IInv, AllRight
<1>8. Granted'
  BY <1>1, <1>2, <1>3 DEF Granted
<1> QED
  BY <1>5, <1>7, <1>8 DEF IInv

LEMMA NextIInv == IInv /\ [Next]_vars => IInv'
<1> SUFFICES ASSUME IInv, [Next]_vars PROVE IInv'
  OBVIOUS
<1>1. CASE UNCHANGED vars
  BY <1>1, SameLoads DEF vars
<1>2. CASE \E n \in DOMAIN load : Replies(n)
  BY <1>2, ReplyKeepsIInv
<1>3. CASE \E p \in DOMAIN App, r \in Role : LogIn(r, p)
  BY <1>3, LogInKeepsIInv
<1>4. CASE \/ \E p \in DOMAIN NAV_ITEMS : Navigate(p)
           \/ \E p \in DOMAIN Here.links, sel \in Selections : FollowLink(p, sel)
  BY <1>4, MoveKeepsIInv
<1>5. CASE \E sel \in Selections : Select(sel)
  BY <1>5, SelectKeepsIInv
<1>6. CASE \E c \in DOMAIN Here.controls : Open(c)
  BY <1>6, OpenKeepsIInv
<1>7. CASE FailToSubmit \/ Commit \/ \E c \in DOMAIN Here.controls : Submit(c)
  BY <1>7, SubmitKeepsIInv
<1>8. CASE \E r \in Role : Renew(r)
  BY <1>8, RenewKeepsIInv
<1> QED
  BY <1>1, <1>2, <1>3, <1>4, <1>5, <1>6, <1>7, <1>8, CloseKeepsIInv,
     SucceedKeepsIInv, GoOnKeepsIInv, RetryKeepsIInv, LogOutKeepsIInv DEF Next

LEMMA Inductive == Spec => []IInv
BY InitIInv, NextIInv, PTL DEF Spec

-----------------------------------------------------------------------------

\* The console's variables hold what they can hold, and exactly the loads of
\* what is mounted are kept.
THEOREM TypeCorrect == Spec => []TypeOK
<1>1. IInv => TypeOK
  BY DEF IInv, Types, AllRight, Right, TypeOK
<1> QED
  BY <1>1, Inductive, PTL

\* Nothing that is offered is refused: for every role and every way through
\* the console, what a page, a form or a button asks is allowed to the token
\* it was shown for.
THEOREM NothingOfferedIsRefused == Spec => []OfferedIsAllowed
<1>1. IInv => OfferedIsAllowed
  <2> SUFFICES ASSUME IInv PROVE OfferedIsAllowed
    OBVIOUS
  <2>1. ControlsGranted(Here, Held)
    BY HereGranted DEF IInv, Types
  <2>2. ASSUME NEW n \in DOMAIN load, Asking(n),
               IF n \in DOMAIN Here.loads THEN offered ELSE dialog.offered
        PROVE  Allowed(n)
    <3>1. Loads[n].when \in Capability => Loads[n].when \in Held
      BY <2>2 DEF IInv, AllRight, Right, Asking
    <3>2. CASE n \in DOMAIN Here.loads
      BY <2>2, <3>1, <3>2, LoadsFacts DEF IInv, Granted, Grants, Allowed
    <3>3. CASE n \notin DOMAIN Here.loads
      <4>1. n \in DOMAIN FormLoads /\ Loads[n] = FormLoads[n]
        BY <3>3, LoadsFacts DEF IInv, AllRight
      <4>2. /\ dialog # None /\ dialog.control \in DOMAIN Here.controls
            /\ FormLoads = Here.controls[dialog.control].loads
        BY <4>1, NothingIsEmpty DEF FormLoads, IInv, Types
      <4>3. Shows(Here.controls[dialog.control].gate, Held)
        BY <2>2, <3>3, <4>2 DEF IInv, Granted
      <4>4. Grants(FormLoads, Held)
        BY <2>1, <4>2, <4>3 DEF ControlsGranted
      <4> QED
        BY <3>1, <4>1, <4>4 DEF Grants, Allowed
    <3> QED
      BY <3>2, <3>3
  <2>3. ASSUME submit # None, submit.offered
        PROVE  CanActivate(Submitted.handler, Held)
    BY <2>1, <2>3 DEF IInv, Types, Granted, ControlsGranted, Submitted
  <2> QED
    BY <2>2, <2>3 DEF OfferedIsAllowed
<1> QED
  BY <1>1, Inductive, PTL

\* A load that has settled shows the answer for what is selected, however the
\* selection changed.
THEOREM SettledShowsSelection == Spec => []SettledIsCurrent
<1>1. IInv => SettledIsCurrent
  BY DEF IInv, AllRight, Right, SettledIsCurrent
<1> QED
  BY <1>1, Inductive, PTL

\* What the page was told is done is in the rows it settles on, whatever was
\* under way then.
THEOREM PagesReadTheirWrites == Spec => []ReadYourWrites
<1>1. IInv => ReadYourWrites
  <2> SUFFICES ASSUME IInv, Here.main # None, load[Here.main].fetch = None,
                      ~load[Here.main].error
               PROVE  load[Here.main].data.version >= acked
    BY DEF ReadYourWrites
  <2>1. Here.main \in DOMAIN load
    BY LoadsFacts DEF IInv, AllRight
  <2>2. Low(Here.main) = acked
    BY DEF Low
  <2> QED
    BY <2>1, <2>2 DEF IInv, AllRight, Right
<1> QED
  BY <1>1, Inductive, PTL
=============================================================================
