--------------------------- MODULE MC_Entitlement ---------------------------
(* Instances of Entitlement for TLC. *)
EXTENDS Entitlement, TLC

CONSTANTS k1, k2, k3, basic

(* Requests of two units each. *)
MCKeys == {k1, k2, k3}
MCAmountOf == (k1 :> 2) @@ (k2 :> 2) @@ (k3 :> 2)

(* A public plan with two units a month, which an operator cuts to one or  *)
(* takes away.                                                             *)
MCPlans == {basic}
MCPlanCatalog == (basic :> [enabled |-> TRUE, limit_value |-> 2])
MCEditedRows == {[enabled |-> TRUE, limit_value |-> 1], [enabled |-> FALSE, limit_value |-> 2]}

(* A status written by hand is not always in lower case. *)
MCLower == [s \in Statuses |-> IF s = "Active" THEN "active" ELSE s]

Symmetry == Permutations(Handlers) \cup Permutations(MCKeys)
=============================================================================
