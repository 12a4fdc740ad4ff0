---------------------------- MODULE Capabilities ----------------------------
(***************************************************************************)
(* Who may call what: the roles seeded in the database, the capabilities   *)
(* an access token carries for its roles, and the capability each handler  *)
(* of the API requires (src/apps/api/src/rbac, the controllers).           *)
(*                                                                         *)
(* A handler is named by its controller and its method. The handlers of    *)
(* AuthController and acceptInvitation require nothing: nobody has a       *)
(* session yet.                                                            *)
(***************************************************************************)

Capability ==
  {"organizations.read", "organizations.create", "organizations.update",
   "users.invite", "users.reset_credentials", "plans.read", "plans.manage",
   "licenses.read", "licenses.issue", "licenses.renew", "licenses.suspend",
   "licenses.revoke", "usage.read", "usage.write", "finance.read",
   "finance.write", "audit.read", "platform.settings.manage"}

RoleSeeds ==
  [platform_owner |-> Capability,
   superadmin     |-> Capability
                      \ {"finance.read", "finance.write", "platform.settings.manage"},
   finance_admin  |-> {"finance.read", "finance.write", "organizations.read",
                       "plans.read", "licenses.read", "usage.read"},
   support_agent  |-> {"organizations.read", "licenses.read", "plans.read"},
   auditor        |-> {"audit.read", "organizations.read", "plans.read",
                       "licenses.read", "usage.read", "finance.read"}]

Role == DOMAIN RoleSeeds

\* What loadUserAuthContext puts in a token: all that the user's roles have.
CapabilitiesOf(roles) == UNION {RoleSeeds[r] : r \in roles}

AuditController == [list |-> "audit.read"]

FinanceController ==
  [listCategories  |-> "finance.read", createCategory   |-> "finance.write",
   listCostCenters |-> "finance.read", createCostCenter |-> "finance.write",
   list   |-> "finance.read",  findOne   |-> "finance.read",
   create |-> "finance.write", update    |-> "finance.write",
   void   |-> "finance.write", dashboard |-> "finance.read"]

LicensesController ==
  [list  |-> "licenses.read",  findOne |-> "licenses.read",
   issue |-> "licenses.issue", renew   |-> "licenses.renew",
   suspend |-> "licenses.suspend", reactivate |-> "licenses.suspend",
   revoke  |-> "licenses.revoke"]

OrganizationsController ==
  [list   |-> "organizations.read", findOne |-> "organizations.read",
   overview |-> "organizations.read", create |-> "organizations.create",
   update |-> "organizations.update"]

PlansController ==
  [list   |-> "plans.read",   findOne    |-> "plans.read",
   create |-> "plans.manage", addVersion |-> "plans.manage"]

UsageController ==
  [recordEvent |-> "usage.write", summary |-> "usage.read",
   timeseries  |-> "usage.read",  organizationUsage |-> "usage.read"]

UsersController ==
  [list    |-> "users.invite", invite |-> "users.invite",
   update  |-> "users.invite", suspend |-> "users.reset_credentials",
   revokeSessions   |-> "users.reset_credentials",
   resetCredentials |-> "users.reset_credentials"]

RequireCapabilities ==
  [audit |-> AuditController, finance |-> FinanceController,
   licenses |-> LicensesController, organizations |-> OrganizationsController,
   plans |-> PlansController, usage |-> UsageController,
   users |-> UsersController]

\* CapabilitiesGuard, on the capabilities of the request's access token.
CanActivate(handler, capabilities) ==
  RequireCapabilities[handler[1]][handler[2]] \in capabilities
=============================================================================
