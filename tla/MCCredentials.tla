--------------------------- MODULE MCCredentials ---------------------------
(* Two requests: while one is between what it read and what it writes the  *)
(* other does anything, any number of times. A limit of two wrong          *)
(* passwords, which three reach and pass; the invitation and two reset     *)
(* links.                                                                  *)
EXTENDS Credentials, TLC

\* No action or property tells requests, passwords or links apart.
Symmetry ==
  Permutations(Requests) \cup Permutations(Passwords) \cup Permutations(Links)
=============================================================================
