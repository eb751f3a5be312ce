---------------------------- MODULE ArcaAmounts ----------------------------
(***************************************************************************)
(* The amounts of an invoice (InvoiceService._calculate_amounts): the      *)
(* final subtotal of each item is rounded to cents, its net amount is      *)
(* rounded to cents again, and the VAT is what is left.  Prices and        *)
(* amounts are integers in cents, quantities in units of 10^-4, the rate   *)
(* of the profile in hundredths of a percent.                              *)
(***************************************************************************)
EXTENDS Integers, Sequences

CONSTANTS
    Items,     \* items a request may hold: [quantity, final_unit_price]
    Rates,     \* default_vat_rate of a profile
    MaxItems,  \* bound on the items of one request, for TLC
    MaxMoney   \* the largest amount a column of the invoice holds

(* schemas.py: quantity > 0, price >= 0, 0 <= rate <= 100%. *)
ASSUME AmountsAssumption ==
    /\ \A i \in Items : i.quantity \in Nat \ {0} /\ i.final_unit_price \in Nat
    /\ Rates \subseteq Nat
    /\ MaxItems \in Nat /\ MaxMoney \in Nat

VARIABLES
    rate,         \* the profile's rate
    items,        \* the items the loop has gone through
    rows,         \* what it computed of each
    net_total,
    vat_total,
    final_total

amounts == <<rate, items, rows, net_total, vat_total, final_total>>

(* _quantize: ROUND_HALF_UP of a / b for a >= 0, b > 0. *)
_quantize(a, b) == (2 * a + b) \div (2 * b)

(* 1 + rate / 100, in units of 10^-4 *)
factor == 10000 + rate

Final(i) == _quantize(i.quantity * i.final_unit_price, 10000)

(* Mutation: the rate is taken off the total. *)
Discounted(final) == _quantize(final * (10000 - rate), 10000)

Net(final) == _quantize(final * 10000, factor)

(* Mutation: the VAT is rounded on its own. *)
RoundedVat(final) == _quantize(final * rate, factor)

Vat(final) == final - Net(final)

AmountsInit ==
    /\ rate \in Rates
    /\ items = <<>> /\ rows = <<>>
    /\ net_total = 0 /\ vat_total = 0 /\ final_total = 0

WithRow(final) == Append(rows, [final |-> final, net |-> Net(final), vat |-> Vat(final)])

AddItem(i) ==
    LET final == Final(i) IN
    /\ Len(items) < MaxItems
    /\ items' = Append(items, i)
    /\ rows' = WithRow(final)
    /\ net_total' = net_total + Net(final)
    /\ vat_total' = vat_total + Vat(final)
    /\ final_total' = final_total + final
    /\ UNCHANGED rate

(* Numeric(15, 2): a larger amount is an error of the database, not a 422. *)
Storable ==
    /\ final_total <= MaxMoney /\ net_total <= MaxMoney
    /\ \A n \in DOMAIN rows : rows[n].final <= MaxMoney

AmountsSpec == AmountsInit /\ [][\E i \in Items : AddItem(i)]_amounts

-----------------------------------------------------------------------------
Rows == [final : Nat, net : Nat, vat : Int]

AmountsTypeOK ==
    /\ rate \in Rates
    /\ items \in Seq(Items)
    /\ rows \in Seq(Rows) /\ Len(rows) = Len(items)
    /\ net_total \in Nat /\ vat_total \in Int /\ final_total \in Nat

(* _calculate_amounts: however the items round, net and VAT add up to the  *)
(* total, of every item and of the invoice, and no VAT is negative.        *)
PartsAddUp ==
    /\ net_total + vat_total = final_total /\ vat_total >= 0
    /\ \A n \in DOMAIN rows :
          rows[n].net + rows[n].vat = rows[n].final /\ rows[n].vat >= 0

(* _calculate_amounts: rounding by item, the net total is off the exact    *)
(* one by at most half a cent for each item.                               *)
NetFollowsRate ==
    LET error == 2 * (net_total * factor - final_total * 10000)
    IN  error <= Len(items) * factor /\ -error <= Len(items) * factor

(* _calculate_amounts: each subtotal is within half a cent of quantity     *)
(* times price.                                                            *)
SubtotalsAreRounded ==
    \A n \in DOMAIN rows :
        LET error == 2 * (rows[n].final * 10000 - items[n].quantity * items[n].final_unit_price)
        IN  error <= 10000 /\ -error <= 10000
=============================================================================
