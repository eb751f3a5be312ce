--------------------------- MODULE MC_ArcaIssuing ---------------------------
(* Instances of ArcaIssuing for TLC. *)
EXTENDS ArcaIssuing, TLC

(* Invoices differ only by name, and so do workers. *)
Symmetry == Permutations(Invoices) \cup Permutations(Workers)

=============================================================================
