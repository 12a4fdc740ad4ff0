----------------------------- MODULE Licensing -----------------------------
(***************************************************************************)
(* Licenses over a catalog that grows: a license is issued or renewed on a *)
(* version that is in plan_versions at that moment, and the handlers of    *)
(* PlanCatalog and of Licenses interleave.                                 *)
(***************************************************************************)
EXTENDS Licenses, PlanCatalog

ASSUME LicensingAssumption == PlanVersions = Versions

\* planVersion.findUnique finds the version a request names; the one a license
\* has is found with the license.
FindsVersions ==
  \A q \in Requests :
    phase[q] = "idle" /\ phase'[q] # "idle"
      => task'[q].planVersion \in Inserted

LicensingInit == Init /\ CatalogInit

LicensingNext ==
  \/ Next /\ FindsVersions /\ UNCHANGED catalogVars
  \/ CatalogNext /\ UNCHANGED vars

LicensingSpec == LicensingInit /\ [][LicensingNext]_<<vars, catalogVars>>
=============================================================================
