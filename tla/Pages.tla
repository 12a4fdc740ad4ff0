------------------------------- MODULE Pages -------------------------------
(***************************************************************************)
(* The pages of the web console (src/apps/web-superadmin/src/pages): what  *)
(* each asks the API for, which operations it offers and to whom, and what *)
(* it does when one succeeds. Layout, texts and formats are left out.      *)
(*                                                                         *)
(* A page is a record of                                                   *)
(*   loads     its useApi calls, by the name of their data                 *)
(*   main      the load whose rows its operations change, and that can be  *)
(*             asked for again after an error, or None                     *)
(*   controls  its operations                                              *)
(*   links     the pages its rows and buttons lead to, and the capability  *)
(*             that shows each.                                            *)
(***************************************************************************)
EXTENDS Capabilities

CONSTANT
  None        \* no capability, page or load

Nothing == [x \in {} |-> None]

\* when is the capability without which the load asks nothing, or "selected"
\* when it asks nothing until something is selected; keyed tells whether it
\* starts again when the selection changes.
Load(handler) == [handler |-> handler, when |-> None, keyed |-> FALSE]
Keyed(handler) == [Load(handler) EXCEPT !.keyed = TRUE]
When(condition, load) == [load EXCEPT !.when = condition]

\* An operation: the capability that shows it, the handler it calls, whether
\* it belongs to a row, the loads of its form, whether it has one, whether
\* success closes it, the loads it starts again and the page it goes on to.
\* A form is sent once at a time; a button without one has no such check.
Button(gate, handler) ==
  [gate |-> gate, handler |-> handler, row |-> TRUE, form |-> FALSE,
   loads |-> Nothing, closes |-> FALSE, next |-> None]
Form(gate, handler) ==
  [Button(gate, handler) EXCEPT !.form = TRUE, !.closes = TRUE]

-----------------------------------------------------------------------------

\* Three figures, each for those who may read it.
DashboardPage ==
  [loads |-> [finance  |-> When("finance.read", Load(<<"finance", "dashboard">>)),
              licenses |-> When("licenses.read", Load(<<"licenses", "list">>)),
              usage    |-> When("usage.read", Load(<<"usage", "summary">>))],
   main |-> None, controls |-> Nothing, links |-> [LicenseDetail |-> None]]

CreateOrganizationForm ==
  [Form("organizations.create", <<"organizations", "create">>)
     EXCEPT !.row = FALSE]

OrganizationsListPage ==
  [loads |-> [organizations |-> Keyed(<<"organizations", "list">>)],
   main |-> "organizations",
   controls |-> [create |-> CreateOrganizationForm],
   links |-> [OrganizationDetail |-> None]]

EditOrganizationForm ==
  Form("organizations.update", <<"organizations", "update">>)

OrganizationDetailPage ==
  [loads |-> [overview |-> Load(<<"organizations", "overview">>)],
   main |-> "overview",
   controls |-> [edit |-> EditOrganizationForm],
   links |-> [LicensesList |-> "licenses.issue", LicenseDetail |-> None,
              OrganizationsList |-> None]]

\* Stays open to show the invitation link.
InviteUserForm ==
  [Form("users.invite", <<"users", "invite">>)
     EXCEPT !.row = FALSE, !.closes = FALSE]

UsersListPage ==
  [loads |-> [users |-> Load(<<"users", "list">>)],
   main |-> "users",
   controls |->
     [invite |-> InviteUserForm,
      suspend |-> Button("users.reset_credentials", <<"users", "suspend">>),
      revoke  |-> Button("users.reset_credentials", <<"users", "revokeSessions">>),
      reset   |-> Button("users.reset_credentials", <<"users", "resetCredentials">>)],
   links |-> Nothing]

\* Goes on to the license it issued.
IssueLicenseForm ==
  [Form("licenses.issue", <<"licenses", "issue">>)
     EXCEPT !.row = FALSE, !.next = "LicenseDetail",
            !.loads = [customers |-> Load(<<"organizations", "list">>),
                       plans     |-> Load(<<"plans", "list">>)]]

LicensesListPage ==
  [loads |-> [licenses |-> Keyed(<<"licenses", "list">>)],
   main |-> "licenses",
   controls |-> [issue |-> IssueLicenseForm],
   links |-> [LicenseDetail |-> None]]

LicenseActionModal(gate, action) == Form(gate, <<"licenses", action>>)

\* Which of the four a license's status allows is left to Licenses.
LicenseDetailPage ==
  [loads |-> [license |-> Load(<<"licenses", "findOne">>)],
   main |-> "license",
   controls |->
     [renew      |-> LicenseActionModal("licenses.renew", "renew"),
      suspend    |-> LicenseActionModal("licenses.suspend", "suspend"),
      reactivate |-> LicenseActionModal("licenses.suspend", "reactivate"),
      revoke     |-> LicenseActionModal("licenses.revoke", "revoke")],
   links |-> [LicensesList |-> None]]

CreatePlanForm ==
  [Form("plans.manage", <<"plans", "create">>) EXCEPT !.row = FALSE]

\* In the panel with the versions of a plan, that any reader may open.
AddPlanVersionForm == Form("plans.manage", <<"plans", "addVersion">>)

PlansListPage ==
  [loads |-> [plans |-> Load(<<"plans", "list">>)],
   main |-> "plans",
   controls |-> [create |-> CreatePlanForm, version |-> AddPlanVersionForm],
   links |-> Nothing]

\* The breakdown of a customer is asked for once one is chosen.
UsagePage ==
  [loads |->
     [customers  |-> Load(<<"organizations", "list">>),
      summary    |-> Load(<<"usage", "summary">>),
      timeseries |-> Keyed(<<"usage", "timeseries">>),
      breakdown  |-> When("selected", Keyed(<<"usage", "organizationUsage">>))],
   main |-> "timeseries", controls |-> Nothing, links |-> Nothing]

CreateTransactionForm ==
  [Form("finance.write", <<"finance", "create">>)
     EXCEPT !.row = FALSE,
            !.loads = [categories  |-> Load(<<"finance", "listCategories">>),
                       costCenters |-> Load(<<"finance", "listCostCenters">>)]]

VoidTransactionModal == Form("finance.write", <<"finance", "void">>)

\* The dashboard above the movements is never asked for again.
FinancePage ==
  [loads |-> [dashboard    |-> Load(<<"finance", "dashboard">>),
              transactions |-> Load(<<"finance", "list">>)],
   main |-> "transactions",
   controls |-> [create |-> CreateTransactionForm,
                 pay    |-> Button("finance.write", <<"finance", "update">>),
                 void   |-> VoidTransactionModal],
   links |-> Nothing]

AuditPage ==
  [loads |-> [entries |-> Keyed(<<"audit", "list">>)],
   main |-> "entries", controls |-> Nothing, links |-> Nothing]

ComingSoonPage ==
  [loads |-> Nothing, main |-> None, controls |-> Nothing, links |-> Nothing]

\* The routes behind ProtectedRoute; two that are coming soon are one.
App ==
  [Dashboard |-> DashboardPage,
   OrganizationsList |-> OrganizationsListPage,
   OrganizationDetail |-> OrganizationDetailPage,
   UsersList |-> UsersListPage,
   LicensesList |-> LicensesListPage, LicenseDetail |-> LicenseDetailPage,
   PlansList |-> PlansListPage, Usage |-> UsagePage, Finance |-> FinancePage,
   Audit |-> AuditPage, ComingSoon |-> ComingSoonPage, Settings |-> ComingSoonPage]

\* Mutant of NAV_ITEMS: users are shown to whoever reads customers.
NavItemsByCustomer ==
  [Dashboard |-> None, OrganizationsList |-> "organizations.read",
   UsersList |-> "organizations.read", LicensesList |-> "licenses.read",
   PlansList |-> "plans.read", Usage |-> "usage.read",
   Finance |-> "finance.read", Audit |-> "audit.read", ComingSoon |-> None,
   Settings |-> "platform.settings.manage"]

NAV_ITEMS ==
  [Dashboard |-> None, OrganizationsList |-> "organizations.read",
   UsersList |-> "users.invite", LicensesList |-> "licenses.read",
   PlansList |-> "plans.read", Usage |-> "usage.read",
   Finance |-> "finance.read", Audit |-> "audit.read", ComingSoon |-> None,
   Settings |-> "platform.settings.manage"]

\* hasCapability, and what is shown to everybody.
Shows(gate, capabilities) == gate = None \/ gate \in capabilities
=============================================================================
