------------------------------ MODULE MCFinance ------------------------------
(* Two operators and two requests in flight over one movement with an       *)
(* income and an expense category.                                          *)
EXTENDS Finance, TLC

CONSTANTS sales, rent, o1, o2, q1, q2

MCKindOf == (sales :> "income") @@ (rent :> "expense")
Symmetry == Permutations({o1, o2}) \cup Permutations({q1, q2})
=============================================================================
