----------------------------- MODULE MCAccounts -----------------------------
(* Instances of Accounts for TLC. *)
EXTENDS Accounts, TLC

\* Session ids and request slots are interchangeable: no action or property
\* tells one from another.
Symmetry == Permutations(Sids) \cup Permutations(Requests)
=============================================================================
