-------------------------- MODULE MCBillingPeriod ---------------------------
(* Issued on every day of 2027, renewed through the leap year 2028 into     *)
(* 2029: all the ends of month, with and without a 29 February.             *)
EXTENDS Dashboard
=============================================================================
