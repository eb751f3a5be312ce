--------------------------- MODULE VoucherIssuing ---------------------------
(***************************************************************************)
(* What the issuing of vouchers promises to whoever queues an invoice,     *)
(* without workers, numbers, retries or messages: an invoice gets at most  *)
(* one voucher and ends at most once, as approved only when it has its     *)
(* voucher, as rejected only when it never will.  One that ends as failed  *)
(* or quarantined may have a voucher or still get it: somebody has to      *)
(* look.  ArcaIssuing implements it.                                       *)
(***************************************************************************)
EXTENDS Naturals

CONSTANT Invoices

VARIABLES
  outcome,  \* [Invoices -> Outcomes]
  vouchers  \* [Invoices -> Nat]: how many vouchers ARCA issued for it

vars == <<outcome, vouchers>>

Ends == {"approved", "rejected", "failed", "quarantined"}
Outcomes == {"absent", "open"} \cup Ends

Init ==
  /\ outcome = [i \in Invoices |-> "absent"]
  /\ vouchers = [i \in Invoices |-> 0]

Accept(i) ==
  /\ outcome[i] = "absent"
  /\ outcome' = [outcome EXCEPT ![i] = "open"]
  /\ UNCHANGED vouchers

(* The first voucher of the invoice; there is no second one. *)
Authorise(i) ==
  /\ outcome[i] \in {"open", "failed", "quarantined"}
  /\ vouchers[i] = 0
  /\ vouchers' = [vouchers EXCEPT ![i] = 1]
  /\ UNCHANGED outcome

End(i, end) ==
  /\ outcome[i] = "open"
  /\ end = "approved" => vouchers[i] = 1
  /\ end = "rejected" => vouchers[i] = 0
  /\ outcome' = [outcome EXCEPT ![i] = end]
  /\ UNCHANGED vouchers

Next ==
  \E i \in Invoices : Accept(i) \/ Authorise(i) \/ \E end \in Ends : End(i, end)

Spec == Init /\ [][Next]_vars

=============================================================================
