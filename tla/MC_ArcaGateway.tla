--------------------------- MODULE MC_ArcaGateway ---------------------------
(* Instances of ArcaGateway for TLC. *)
EXTENDS ArcaGateway

(* 1.7 units at 0.01, a third of a cent, 3 at 33.33, and half a cent. *)
MCItems ==
    { [quantity |-> 17000, final_unit_price |-> 1], [quantity |-> 3333, final_unit_price |-> 1],
      [quantity |-> 30000, final_unit_price |-> 3333], [quantity |-> 5000, final_unit_price |-> 1] }

(* None, 10.5%, 21% and the largest a profile may have. *)
MCRates == {0, 1050, 2100, 10000}
=============================================================================
