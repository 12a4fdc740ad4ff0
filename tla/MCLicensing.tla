---------------------------- MODULE MCLicensing ----------------------------
(* One request at a time on one license; meanwhile two requests add        *)
(* versions to one plan. The periods are those of MCLicenses.              *)
EXTENDS Licensing, TLC

CONSTANTS monthly, yearly

MCTrialDays == (monthly :> 0) @@ (yearly :> 1)
MCPeriodLength == (monthly :> 1) @@ (yearly :> 2)
Symmetry == Permutations(Editors)
=============================================================================
