----------------------------- MODULE MCLicenses -----------------------------
(* One license, a monthly plan version without trial and a yearly one with; *)
(* a month is one tick of the clock and a year two.                         *)
EXTENDS Licenses, TLC

CONSTANTS monthly, yearly, q1, q2

MCTrialDays == (monthly :> 0) @@ (yearly :> 1)
MCPeriodLength == (monthly :> 1) @@ (yearly :> 2)
Symmetry == Permutations({q1, q2})
=============================================================================
