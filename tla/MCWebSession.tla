---------------------------- MODULE MCWebSession ----------------------------
(* Two tabs, two calls in flight and three sessions: one signed in to, and   *)
(* two that refreshes or further logins make.                                *)
EXTENDS WebSession
=============================================================================
