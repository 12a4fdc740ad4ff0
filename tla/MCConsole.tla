----------------------------- MODULE MCConsole -----------------------------
(* Two selections and two operations of a tab: one whose success races the  *)
(* fetches of another.                                                      *)
EXTENDS Console
=============================================================================
