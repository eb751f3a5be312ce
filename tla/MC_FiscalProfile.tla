-------------------------- MODULE MC_FiscalProfile --------------------------
(* Instances of FiscalProfile for TLC. *)
EXTENDS FiscalProfile, TLC

(* Handlers differ only by name, and so do invoices. *)
Symmetry == Permutations(Handlers) \cup Permutations(Invoices)

=============================================================================
