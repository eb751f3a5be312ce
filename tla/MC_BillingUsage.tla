-------------------------- MODULE MC_BillingUsage --------------------------
(* Instances of BillingUsage for TLC. *)
EXTENDS BillingUsage, TLC

CONSTANTS k1, k2, k3

(* Two requests of one unit and one of two. *)
MCKeys == {k1, k2, k3}
MCAmountOf == (k1 :> 1) @@ (k2 :> 2) @@ (k3 :> 1)

MCPairOfKeys == {k1, k2}
MCPairAmountOf == (k1 :> 1) @@ (k2 :> 2)

Symmetry == Permutations(Handlers)

=============================================================================
