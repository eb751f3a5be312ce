------------------------- MODULE ArcaGateway_proofs -------------------------
(***************************************************************************)
(* Proofs about ArcaAmounts and ArcaGateway, for every list of items, rate *)
(* and failure.                                                            *)
(***************************************************************************)
EXTENDS ArcaGateway, TLAPS

(* A quantized quotient is a natural number within half a unit. *)
LEMMA QuantizeHalf ==
    ASSUME NEW a \in Nat, NEW b \in Nat \ {0}
    PROVE  /\ _quantize(a, b) \in Nat
           /\ 2 * (b * _quantize(a, b) - a) <= b
           /\ 2 * (a - b * _quantize(a, b)) <= b
<1> DEFINE q == _quantize(a, b)
           n == 2 * a + b
           d == 2 * b
<1>1. n \in Nat /\ d \in Nat \ {0} /\ q = n \div d
  BY DEF _quantize
<1>2. q \in Nat /\ d * q <= n /\ n < d * q + d
  BY <1>1
<1>3. d * q = 2 * (b * q)
  BY <1>2
<1>4. QED
  BY <1>2, <1>3

(* What is charged without VAT is never more than what is charged. *)
LEMMA NetAtMostFinal ==
    ASSUME NEW final \in Nat, rate \in Nat
    PROVE  Net(final) \in Nat /\ Net(final) <= final
<1>1. factor \in Nat \ {0} /\ factor >= 10000 /\ final * 10000 \in Nat
  BY DEF factor
<1>2. Net(final) \in Nat /\ 2 * (factor * Net(final) - final * 10000) <= factor
  BY <1>1, QuantizeHalf DEF Net
<1> DEFINE net == Net(final)
           f == factor
<1>3. ASSUME net > final PROVE FALSE
  <2> HIDE DEF net, f
  <2>1. net \in Nat /\ f \in Nat /\ f >= 10000 /\ 2 * (f * net - final * 10000) <= f
    BY <1>1, <1>2 DEF net, f
  <2>2. f * net >= f * (final + 1)
    BY <1>3, <2>1
  <2>3. f * (final + 1) = f * final + f
    BY <2>1
  <2>4. f * final >= 10000 * final
    BY <2>1
  <2>5. QED
    BY <2>1, <2>2, <2>3, <2>4
<1>4. QED
  BY <1>2, <1>3

AmountsInv ==
    AmountsTypeOK /\ PartsAddUp /\ NetFollowsRate /\ SubtotalsAreRounded

LEMMA AmountsInitInv == AmountsInit => AmountsInv
<1> SUFFICES ASSUME AmountsInit PROVE AmountsInv
  OBVIOUS
<1>1. rate \in Nat /\ factor \in Nat
  BY AmountsAssumption DEF AmountsInit, factor
<1>2. AmountsTypeOK /\ PartsAddUp /\ SubtotalsAreRounded
  BY DEF AmountsInit, AmountsTypeOK, PartsAddUp, SubtotalsAreRounded
<1>3. NetFollowsRate
  BY <1>1 DEF AmountsInit, NetFollowsRate
<1>4. QED
  BY <1>2, <1>3 DEF AmountsInv

LEMMA AddItemInv ==
    ASSUME AmountsInv, NEW i \in Items, AddItem(i)
    PROVE  AmountsInv'
<1> DEFINE final == Final(i)
           net == Net(final)
           vat == Vat(final)
           n == Len(items)
<1>1. /\ rate \in Nat /\ factor \in Nat \ {0}
      /\ i.quantity \in Nat /\ i.final_unit_price \in Nat
      /\ i.quantity * i.final_unit_price \in Nat
  BY AmountsAssumption DEF AmountsInv, AmountsTypeOK, factor
<1>2. /\ final \in Nat
      /\ 2 * (10000 * final - i.quantity * i.final_unit_price) <= 10000
      /\ 2 * (i.quantity * i.final_unit_price - 10000 * final) <= 10000
  BY <1>1, QuantizeHalf DEF Final
<1>3. /\ net \in Nat /\ net <= final
      /\ 2 * (factor * net - final * 10000) <= factor
      /\ 2 * (final * 10000 - factor * net) <= factor
  <2>1. final * 10000 \in Nat
    BY <1>2
  <2>2. QED
    BY <1>1, <1>2, <2>1, QuantizeHalf, NetAtMostFinal DEF Net
<1>4. vat \in Nat /\ net + vat = final
  BY <1>2, <1>3 DEF Vat
<1>5. /\ items' = Append(items, i)
      /\ rows' = Append(rows, [final |-> final, net |-> net, vat |-> vat])
      /\ net_total' = net_total + net /\ vat_total' = vat_total + vat
      /\ final_total' = final_total + final /\ rate' = rate
  BY DEF AddItem, WithRow
<1>6. /\ items \in Seq(Items) /\ rows \in Seq(Rows) /\ Len(rows) = n /\ n \in Nat
      /\ rate \in Rates /\ net_total \in Nat /\ vat_total \in Int /\ final_total \in Nat
  BY DEF AmountsInv, AmountsTypeOK
<1> HIDE DEF final, net, vat
<1>7. [final |-> final, net |-> net, vat |-> vat] \in Rows
  BY <1>2, <1>3, <1>4 DEF Rows
<1>8. AmountsTypeOK'
  BY <1>2, <1>3, <1>4, <1>5, <1>6, <1>7 DEF AmountsTypeOK
<1>9. /\ Len(rows') = n + 1 /\ Len(items') = n + 1
      /\ \A m \in 1..n : rows'[m] = rows[m] /\ items'[m] = items[m]
      /\ rows'[n + 1] = [final |-> final, net |-> net, vat |-> vat] /\ items'[n + 1] = i
      /\ DOMAIN rows' = 1..(n + 1) /\ DOMAIN rows = 1..n
  BY <1>5, <1>6, <1>7
<1>10. PartsAddUp'
  <2>1. net_total + vat_total = final_total /\ vat_total >= 0
    BY DEF AmountsInv, PartsAddUp
  <2>2. net_total' + vat_total' = final_total' /\ vat_total' >= 0
    BY <1>2, <1>3, <1>4, <1>5, <1>6, <2>1
  <2>3. ASSUME NEW m \in DOMAIN rows' 
        PROVE  rows'[m].net + rows'[m].vat = rows'[m].final /\ rows'[m].vat >= 0
    <3>1. CASE m \in 1..n
      BY <1>9, <3>1 DEF AmountsInv, PartsAddUp
    <3>2. CASE m = n + 1
      BY <1>4, <1>9, <3>2
    <3>3. QED
      BY <1>6, <1>9, <3>1, <3>2
  <2>4. QED
    BY <2>2, <2>3 DEF PartsAddUp
<1>11. SubtotalsAreRounded'
  <2>1. ASSUME NEW m \in DOMAIN rows'
        PROVE  LET error == 2 * (rows'[m].final * 10000 - items'[m].quantity * items'[m].final_unit_price)
               IN  error <= 10000 /\ -error <= 10000
    <3>1. CASE m \in 1..n
      BY <1>9, <3>1 DEF AmountsInv, SubtotalsAreRounded
    <3>2. CASE m = n + 1
      <4>1. /\ rows'[m].final = final
            /\ items'[m].quantity * items'[m].final_unit_price = i.quantity * i.final_unit_price
        BY <1>9, <3>2
      <4>2. /\ 2 * (final * 10000 - i.quantity * i.final_unit_price) <= 10000
            /\ -(2 * (final * 10000 - i.quantity * i.final_unit_price)) <= 10000
        BY <1>1, <1>2
      <4>3. QED
        BY <4>1, <4>2
    <3>3. QED
      BY <1>6, <1>9, <3>1, <3>2
  <2>2. QED
    BY <2>1 DEF SubtotalsAreRounded
<1>12. NetFollowsRate'
  <2> DEFINE f == factor
             before == net_total * f - final_total * 10000
             step == net * f - final * 10000
  <2>1. f \in Nat /\ factor' = f
    BY <1>1, <1>5 DEF factor
  <2>2. 2 * before <= n * f /\ -(2 * before) <= n * f
    BY DEF AmountsInv, NetFollowsRate
  <2> HIDE DEF f
  <2>3. 2 * step <= f /\ -(2 * step) <= f
    <3>1. net * f = f * net
      BY <1>3, <2>1
    <3>2. QED
      BY <1>2, <1>3, <2>1, <3>1 DEF f
  <2>4. (net_total + net) * f - (final_total + final) * 10000 = before + step
    BY <1>2, <1>3, <1>6, <2>1
  <2>5. before \in Int /\ step \in Int /\ n * f \in Int /\ (n + 1) * f = n * f + f
    BY <1>2, <1>3, <1>6, <2>1
  <2> HIDE DEF before, step
  <2>6. /\ 2 * (before + step) <= (n + 1) * f
        /\ -(2 * (before + step)) <= (n + 1) * f
    BY <2>1, <2>2, <2>3, <2>5
  <2>7. net_total' * f - final_total' * 10000 = before + step
    BY <1>5, <2>4
  <2>8. QED
    BY <1>9, <2>1, <2>6, <2>7 DEF NetFollowsRate
<1>13. QED
  BY <1>8, <1>10, <1>11, <1>12 DEF AmountsInv

LEMMA AmountsInvariance == AmountsSpec => []AmountsInv
<1>1. AmountsInv /\ UNCHANGED amounts => AmountsInv'
  BY DEF AmountsInv, amounts, AmountsTypeOK, PartsAddUp, NetFollowsRate, SubtotalsAreRounded, factor
<1>2. AmountsInv /\ [\E i \in Items : AddItem(i)]_amounts => AmountsInv'
  BY <1>1, AddItemInv
<1>3. QED
  BY AmountsInitInv, <1>2, PTL DEF AmountsSpec

(***************************************************************************)
(* Whatever the items and the rate, the parts of an invoice add up, the    *)
(* net amount follows the rate within half a cent an item, and each        *)
(* subtotal is rounded to the cent (_calculate_amounts).                    *)
(***************************************************************************)
THEOREM AmountsAddUp == AmountsSpec => [](PartsAddUp /\ NetFollowsRate /\ SubtotalsAreRounded)
  BY AmountsInvariance, PTL DEF AmountsInv

-----------------------------------------------------------------------------
(* The exchange. *)
Sending == {"adding", "connecting", "authenticating", "calling"}

(* Nothing has come back of a request that is still being sent. *)
Quiet ==
    pc \in Sending => verdict = None /\ reply = None /\ raised = None /\ outcome = None

(* Only what may be contacted is. *)
ContactInv ==
    /\ contacted \subseteq {exchange.environment}
    /\ contacted # {} => CallsAllowed
    /\ pc \in {"adding", "connecting"} => contacted = {}
    /\ pc \in {"authenticating", "calling"} => CallsAllowed
    /\ raised # None /\ (raised.kind = "domain" \/ raised.text = "disabled") =>
          contacted = {} /\ verdict = None

(* What the service is told of a voucher it asked for. *)
CreateInv ==
    exchange.op = "createVoucher" =>
        /\ voucher = "authorised" => verdict = "authorised"
        /\ reply # None /\ verdict = "authorised" => reply.cae
        /\ reply # None /\ verdict = "refused" => ~reply.cae
        /\ raised # None /\ verdict = "authorised" => raised \in TransportErrors(TRUE)
        /\ raised # None /\ raised.code # None => raised.kind = "client" /\ raised.code # "602"
                                                  /\ raised.text # "not_found"

(* What it is told of a voucher it looked for. *)
LookupInv ==
    exchange.op = "getVoucherInfo" /\ "misleading_404" \notin Faults /\ raised # None =>
        (raised.code = "602" \/ raised.text = "not_found" => voucher = "none")

AbsenceIsReal == "misleading_404" \notin Faults => AbsentMeansAbsent

GatewayInv ==
    /\ AmountsInv /\ TypeOK /\ Quiet /\ ContactInv /\ CreateInv /\ LookupInv
    /\ NeverUnbalanced /\ OutcomeFollowsVerdict /\ AbsenceIsReal

-----------------------------------------------------------------------------
(* Who asks for what. *)
LEMMA ExchangeFacts ==
    ASSUME exchange \in Exchanges
    PROVE  /\ exchange.op \in {"createVoucher", "getVoucherInfo", "getLastVoucher", "getSalesPoints"}
           /\ exchange.op \in {"createVoucher", "getVoucherInfo"} => exchange.caller = "process"
           /\ exchange.caller \in {"process", "validate", "discover"}
           /\ exchange.environment \in {"development", "production"}
  BY DEF Exchanges, Callers

LEMMA TransportErrorsTyped ==
    ASSUME NEW handled \in BOOLEAN, NEW e \in TransportErrors(handled)
    PROVE  /\ e \in Exceptions
           /\ e.code = None /\ e.kind # "domain" /\ e.text # "disabled"
           /\ "misleading_404" \notin Faults => e.text # "not_found"
<1>1. CASE handled
  BY <1>1 DEF TransportErrors, Exception, Exceptions
<1>2. CASE ~handled
  BY <1>2 DEF TransportErrors, Exception, Exceptions
<1>3. QED
  BY <1>1, <1>2

LEMMA LocalErrorsTyped ==
    ASSUME NEW e \in LocalErrors
    PROVE  e \in Exceptions /\ e.code = None /\ e.text # "not_found"
  BY DEF LocalErrors, Exception, Exceptions

LEMMA ReplyTyped ==
    ASSUME NEW result \in {"A", "R", None}, NEW cae \in BOOLEAN,
           NEW obs \in {None, "10016"}, NEW errors \in {None} \cup Codes
    PROVE  Reply(result, cae, obs, errors) \in Replies
  BY DEF Reply, Replies

LEMMA RepliesTyped ==
    ASSUME NEW v \in Decisions, NEW r \in RepliesTo(v)
    PROVE  /\ r \in Replies
           /\ _raise_wsfe_errors(exchange.op, r) \in {None} \cup Codes
           /\ v = "authorised" => r.cae /\ _raise_wsfe_errors(exchange.op, r) = None
           /\ v = "refused" => ~r.cae
           /\ _raise_wsfe_errors(exchange.op, r) = "602" => v = "none"
<1>1. \/ v = "authorised" /\ r \in {Reply("A", TRUE, None, None), Reply("A", TRUE, "10016", None)}
      \/ v = "without_cae" /\ r = Reply("R", FALSE, None, None)
      \/ v = "none" /\ r = Reply(None, FALSE, None, "602")
      \/ v = "unbalanced" /\ r = Reply("R", FALSE, None, "10048")
      \/ v = "listed" /\ r = Reply(None, FALSE, None, None)
      \/ v = "refused" /\ r \in {Reply(None, FALSE, None, "600"), Reply(None, FALSE, None, "10016"),
                                 Reply("R", FALSE, "10016", None), Reply("R", FALSE, None, None)}
  BY DEF RepliesTo, Decisions
<1>2. r \in Replies
  BY <1>1, ReplyTyped DEF Codes
<1>3. r.Observaciones \in {None, "10016"} /\ r.Errors \in {None} \cup Codes
  BY <1>2 DEF Replies
<1>4. _raise_wsfe_errors(exchange.op, r) \in {None} \cup Codes
  BY <1>3 DEF Codes, _raise_wsfe_errors
<1>5. v = "authorised" => r.cae /\ _raise_wsfe_errors(exchange.op, r) = None
  BY <1>1 DEF Reply, _raise_wsfe_errors
<1>6. v = "refused" => ~r.cae
  BY <1>1 DEF Reply
<1>7. _raise_wsfe_errors(exchange.op, r) = "602" => v = "none"
  BY <1>1, NoneAssumption DEF Reply, Codes, _raise_wsfe_errors
<1>8. QED
  BY <1>2, <1>4, <1>5, <1>6, <1>7

(* ARCA is asked to authorise what adds up, so it never finds otherwise. *)
LEMMA VerdictsTyped ==
    ASSUME TypeOK, PartsAddUp, NEW v \in Verdicts
    PROVE  /\ v \in {"authorised", "refused", "none", "without_cae", "listed"}
           /\ exchange.op = "createVoucher" => v \in {"authorised", "refused"}
           /\ exchange.op = "getVoucherInfo" => v \in {voucher, "refused"}
<1>1. net_total + vat_total = final_total
  BY DEF PartsAddUp
<1>2. net_total \in Nat /\ vat_total \in Int /\ final_total \in Nat
  BY DEF TypeOK, AmountsTypeOK
<1>3. AddsUp(_arca_payload)
  BY <1>1, <1>2 DEF AddsUp, _arca_payload
<1>4. QED
  BY <1>3 DEF Verdicts, TypeOK

LEMMA GatewayInitInv == Init => GatewayInv
<1> SUFFICES ASSUME Init PROVE GatewayInv
  OBVIOUS
<1>1. AmountsInv
  BY AmountsInitInv DEF Init
<1>2. TypeOK
  BY <1>1 DEF Init, TypeOK, AmountsInv
<1>3. Quiet /\ ContactInv /\ CreateInv /\ LookupInv
  BY DEF Init, Quiet, ContactInv, CreateInv, LookupInv
<1>4. NeverUnbalanced /\ OutcomeFollowsVerdict /\ AbsenceIsReal
  BY NoneAssumption DEF Init, Decisions, NeverUnbalanced, OutcomeFollowsVerdict, Creating, AbsenceIsReal, AbsentMeansAbsent
<1>5. QED
  BY <1>1, <1>2, <1>3, <1>4 DEF GatewayInv

(* Adding an item, and storing the invoice: nothing has been sent. *)
LEMMA AddInv ==
    ASSUME GatewayInv, NEW i \in Items, Add(i)
    PROVE  GatewayInv'
<1>1. AmountsInv'
  BY AddItemInv DEF GatewayInv, Add
<1>2. TypeOK'
  BY <1>1 DEF GatewayInv, Add, gateway, TypeOK, AmountsInv
<1>3. Quiet' /\ ContactInv' /\ CreateInv' /\ LookupInv'
  BY DEF GatewayInv, Add, gateway, Quiet, ContactInv, CallsAllowed, CreateInv, LookupInv, TransportErrors
<1>4. NeverUnbalanced' /\ OutcomeFollowsVerdict' /\ AbsenceIsReal'
  BY DEF GatewayInv, Add, gateway, NeverUnbalanced, OutcomeFollowsVerdict, Creating,
         AbsenceIsReal, AbsentMeansAbsent
<1>5. QED
  BY <1>1, <1>2, <1>3, <1>4 DEF GatewayInv

(* The amounts are only changed by adding. *)
LEMMA AmountsStay == AmountsInv /\ UNCHANGED amounts => AmountsInv'
  BY DEF AmountsInv, amounts, AmountsTypeOK, PartsAddUp, NetFollowsRate, SubtotalsAreRounded, factor

LEMMA StoreInv ==
    ASSUME GatewayInv, Store
    PROVE  GatewayInv'
<1>1. AmountsInv'
  BY AmountsStay DEF GatewayInv, Store
<1>2. TypeOK'
  BY <1>1 DEF GatewayInv, Store, TypeOK, AmountsInv
<1>3. Quiet' /\ ContactInv' /\ CreateInv' /\ LookupInv'
  BY DEF GatewayInv, Store, Quiet, Sending, ContactInv, CallsAllowed, CreateInv, LookupInv, TransportErrors
<1>4. NeverUnbalanced' /\ OutcomeFollowsVerdict' /\ AbsenceIsReal'
  BY DEF GatewayInv, Store, Error, NeverUnbalanced, OutcomeFollowsVerdict, Creating,
         AbsenceIsReal, AbsentMeansAbsent
<1>5. QED
  BY <1>1, <1>2, <1>3, <1>4 DEF GatewayInv

LEMMA ConnectInv ==
    ASSUME GatewayInv, Connect
    PROVE  GatewayInv'
<1>1. AmountsInv'
  BY AmountsStay DEF GatewayInv, Connect
<1>2. raised' = None \/ raised' \in LocalErrors
  BY DEF GatewayInv, Connect, Quiet, Sending
<1>3. TypeOK'
  BY <1>1, <1>2, LocalErrorsTyped, NoneAssumption
     DEF GatewayInv, Connect, TypeOK, AmountsInv, Quiet, Sending
<1>4. LocalErrors = {} => CallsAllowed
  BY DEF LocalErrors
<1>5. Quiet'
  BY DEF GatewayInv, Connect, Quiet, Sending
<1>6. ContactInv'
  BY <1>4 DEF GatewayInv, Connect, ContactInv, CallsAllowed, Quiet, Sending
<1>7. CreateInv'
  BY <1>2, LocalErrorsTyped, NoneAssumption
     DEF GatewayInv, Connect, CreateInv, Quiet, Sending, Decisions
<1>8. LookupInv'
  BY <1>2, LocalErrorsTyped, NoneAssumption DEF GatewayInv, Connect, LookupInv, Codes
<1>9. NeverUnbalanced' /\ OutcomeFollowsVerdict' /\ AbsenceIsReal'
  BY DEF GatewayInv, Connect, NeverUnbalanced, OutcomeFollowsVerdict, Creating,
         AbsenceIsReal, AbsentMeansAbsent
<1>10. QED
  BY <1>1, <1>3, <1>5, <1>6, <1>7, <1>8, <1>9 DEF GatewayInv

LEMMA AuthenticateInv ==
    ASSUME GatewayInv, Authenticate
    PROVE  GatewayInv'
<1>1. AmountsInv'
  BY AmountsStay DEF GatewayInv, Authenticate
<1>2. raised' = None \/ \E handled \in BOOLEAN : raised' \in TransportErrors(handled)
  BY DEF GatewayInv, Authenticate, Quiet, Sending
<1>3. TypeOK'
  <2>1. exchange.environment \in {"development", "production"}
    BY ExchangeFacts DEF GatewayInv, TypeOK
  <2>2. QED
    BY <1>1, <1>2, <2>1, TransportErrorsTyped, NoneAssumption
       DEF GatewayInv, Authenticate, TypeOK, AmountsInv, Quiet, Sending
<1>4. Quiet'
  BY DEF GatewayInv, Authenticate, Quiet, Sending
<1>5. ContactInv'
  BY <1>2, TransportErrorsTyped
     DEF GatewayInv, Authenticate, ContactInv, CallsAllowed, Quiet, Sending
<1>6. CreateInv'
  BY <1>2, TransportErrorsTyped, NoneAssumption
     DEF GatewayInv, Authenticate, CreateInv, Quiet, Sending, Decisions
<1>7. LookupInv'
  BY <1>2, TransportErrorsTyped, NoneAssumption DEF GatewayInv, Authenticate, LookupInv, Codes
<1>8. NeverUnbalanced' /\ OutcomeFollowsVerdict' /\ AbsenceIsReal'
  BY DEF GatewayInv, Authenticate, NeverUnbalanced, OutcomeFollowsVerdict, Creating,
         AbsenceIsReal, AbsentMeansAbsent
<1>9. QED
  BY <1>1, <1>3, <1>4, <1>5, <1>6, <1>7, <1>8 DEF GatewayInv

LEMMA CallNotHandledInv ==
    ASSUME GatewayInv, CallNotHandled
    PROVE  GatewayInv'
<1>1. AmountsInv'
  BY AmountsStay DEF GatewayInv, CallNotHandled
<1>2. raised' \in TransportErrors(FALSE)
  BY DEF CallNotHandled
<1>3. TypeOK'
  BY <1>1, <1>2, TransportErrorsTyped, NoneAssumption
     DEF GatewayInv, CallNotHandled, TypeOK, AmountsInv, Quiet, Sending
<1>4. Quiet'
  BY DEF GatewayInv, CallNotHandled, Quiet, Sending
<1>5. ContactInv'
  BY <1>2, TransportErrorsTyped
     DEF GatewayInv, CallNotHandled, ContactInv, CallsAllowed, Quiet, Sending
<1>6. CreateInv'
  BY <1>2, TransportErrorsTyped, NoneAssumption
     DEF GatewayInv, CallNotHandled, CreateInv, Quiet, Sending, Decisions
<1>7. LookupInv'
  BY <1>2, TransportErrorsTyped, NoneAssumption DEF GatewayInv, CallNotHandled, LookupInv, Codes
<1>8. NeverUnbalanced' /\ OutcomeFollowsVerdict' /\ AbsenceIsReal'
  BY DEF GatewayInv, CallNotHandled, NeverUnbalanced, OutcomeFollowsVerdict, Creating,
         AbsenceIsReal, AbsentMeansAbsent
<1>9. QED
  BY <1>1, <1>3, <1>4, <1>5, <1>6, <1>7, <1>8 DEF GatewayInv

LEMMA ReplyLostInv ==
    ASSUME GatewayInv, NEW v \in Verdicts, ReplyLost(v)
    PROVE  GatewayInv'
<1>1. AmountsInv'
  BY AmountsStay DEF GatewayInv, ReplyLost
<1>2. /\ raised' \in TransportErrors(TRUE) /\ verdict' = v /\ voucher' = VoucherAfter(v)
      /\ pc' = "concluding" /\ reply' = None /\ exchange' = exchange
  BY DEF GatewayInv, ReplyLost, Quiet, Sending
<1>3. /\ v \in Decisions /\ v # "unbalanced"
      /\ exchange.op = "createVoucher" => v \in {"authorised", "refused"}
  BY VerdictsTyped DEF GatewayInv, AmountsInv, Decisions
<1>4. TypeOK'
  BY <1>1, <1>2, <1>3, TransportErrorsTyped, NoneAssumption
     DEF GatewayInv, ReplyLost, TypeOK, AmountsInv, VoucherAfter
<1>5. Quiet'
  BY <1>2 DEF Quiet, Sending
<1>6. ContactInv'
  BY <1>2, TransportErrorsTyped DEF GatewayInv, ReplyLost, ContactInv, CallsAllowed
<1>7. CreateInv'
  <2>1. TransportErrors(TRUE)' = TransportErrors(TRUE)
    BY DEF TransportErrors
  <2>2. exchange.op = "createVoucher" /\ voucher = "authorised" => FALSE
    BY NoneAssumption DEF GatewayInv, ReplyLost, CreateInv, Quiet, Sending, Decisions
  <2>3. QED
    BY <1>2, <2>1, <2>2, TransportErrorsTyped DEF CreateInv, VoucherAfter
<1>8. LookupInv'
  BY <1>2, TransportErrorsTyped, NoneAssumption DEF LookupInv, Codes
<1>9. NeverUnbalanced' /\ OutcomeFollowsVerdict' /\ AbsenceIsReal'
  BY <1>2, <1>3 DEF NeverUnbalanced, OutcomeFollowsVerdict, Creating,
         AbsenceIsReal, AbsentMeansAbsent
<1>10. QED
  BY <1>1, <1>4, <1>5, <1>6, <1>7, <1>8, <1>9 DEF GatewayInv

LEMMA ReplyArrivesInv ==
    ASSUME GatewayInv, NEW v \in Verdicts, ReplyArrives(v)
    PROVE  GatewayInv'
<1>1. AmountsInv'
  BY AmountsStay DEF GatewayInv, ReplyArrives
<1> PICK r \in RepliesTo(v) :
       LET code == _raise_wsfe_errors(exchange.op, r) IN
       IF code # None
       THEN raised' = Exception("client", 0, code, ErrorText(code)) /\ UNCHANGED reply
       ELSE reply' = r /\ UNCHANGED raised
  BY DEF ReplyArrives
<1> DEFINE code == _raise_wsfe_errors(exchange.op, r)
<1>2. /\ pc = "calling" /\ pc' = "concluding" /\ verdict' = v /\ voucher' = VoucherAfter(v)
      /\ exchange' = exchange /\ contacted' = contacted /\ raised = None /\ reply = None
      /\ verdict = None
  BY DEF GatewayInv, ReplyArrives, Quiet, Sending
<1>3. /\ v \in Decisions /\ v # "unbalanced"
      /\ exchange.op = "createVoucher" => v \in {"authorised", "refused"}
      /\ exchange.op = "getVoucherInfo" => v \in {voucher, "refused"}
  BY VerdictsTyped DEF GatewayInv, AmountsInv, Decisions
<1>4. /\ r \in Replies
      /\ code \in {None} \cup Codes
      /\ v = "authorised" => r.cae /\ code = None
      /\ v = "refused" => ~r.cae
      /\ code = "602" => v = "none"
  BY <1>3, RepliesTyped
<1> HIDE DEF code
<1>5. \/ code = None /\ reply' = r /\ raised' = None
      \/ code \in Codes /\ raised' = Exception("client", 0, code, ErrorText(code)) /\ reply' = None
  BY <1>2, <1>4 DEF code
<1>6. code \in Codes => /\ Exception("client", 0, code, ErrorText(code)) \in Exceptions
                        /\ ErrorText(code) \in {"auth", "plain"}
  BY DEF Exception, Exceptions, ErrorText
<1>7. raised' # None => /\ raised' \in Exceptions /\ raised'.kind = "client" /\ raised'.code = code
                        /\ raised'.text \in {"auth", "plain"} /\ reply' = None
  BY <1>5, <1>6 DEF Exception
<1>8. TypeOK'
  BY <1>1, <1>2, <1>3, <1>4, <1>5, <1>6, NoneAssumption
     DEF GatewayInv, ReplyArrives, TypeOK, AmountsInv, VoucherAfter
<1>9. Quiet'
  BY <1>2 DEF Quiet, Sending
<1>10. ContactInv'
  BY <1>2, <1>7 DEF GatewayInv, ContactInv, CallsAllowed
<1>11. CreateInv'
  <2>1. exchange.op = "createVoucher" /\ voucher = "authorised" => FALSE
    BY <1>2, NoneAssumption DEF GatewayInv, CreateInv, Decisions
  <2>2. reply' # None => reply' = r
    BY <1>5
  <2>3. v = "authorised" => raised' = None
    BY <1>4, <1>5, NoneAssumption
  <2>4. exchange.op = "createVoucher" /\ raised' # None => code # "602"
    BY <1>3, <1>4
  <2>5. QED
    BY <1>2, <1>4, <1>7, <2>1, <2>2, <2>3, <2>4 DEF CreateInv, VoucherAfter
<1>12. LookupInv'
  BY <1>2, <1>3, <1>4, <1>7 DEF LookupInv, VoucherAfter
<1>13. NeverUnbalanced' /\ OutcomeFollowsVerdict' /\ AbsenceIsReal'
  BY <1>2, <1>3 DEF NeverUnbalanced, OutcomeFollowsVerdict, Creating,
         AbsenceIsReal, AbsentMeansAbsent
<1>14. QED
  BY <1>1, <1>8, <1>9, <1>10, <1>11, <1>12, <1>13 DEF GatewayInv

(* What the service makes of an error. *)
LEMMA ClassifyFacts ==
    ASSUME NEW e \in Exceptions
    PROVE  /\ e \in TransportErrors(TRUE) /\ e.text # "unreadable" => _classify_error(e).retryable
           /\ e.kind = "client" /\ e.code # "602" /\ e.text # "not_found" =>
                 ~_classify_error(e).retryable
           /\ _classify_error(e).code = "not_found" => e.code = "602" \/ e.text = "not_found"
           /\ _classify_error(e).code \notin {"absent", "approved"}
<1>1. e \in TransportErrors(TRUE) /\ e.text # "unreadable" =>
         e.kind \in {"timeout", "connection", "protocol"} \/ (e.kind = "http" /\ e.status = 500)
  BY DEF TransportErrors, Exception
<1>2. e \in TransportErrors(TRUE) => e.code = None /\ e.text \in {"plain", "unreadable"}
  BY DEF TransportErrors, Exception
<1>3. e \in TransportErrors(TRUE) /\ e.text # "unreadable" => _classify_error(e).retryable
  <2> SUFFICES ASSUME e \in TransportErrors(TRUE), e.text # "unreadable"
               PROVE  _classify_error(e).retryable
    OBVIOUS
  <2>1. e.code # "602" /\ e.text = "plain"
    BY <1>2, NoneAssumption DEF Codes
  <2>2. CASE e.kind \in {"timeout", "connection"}
    BY <2>2 DEF _classify_error, Error
  <2>3. CASE e.kind = "protocol"
    BY <2>1, <2>3 DEF _classify_error, Error
  <2>4. CASE e.kind = "http" /\ e.status = 500
    BY <2>4 DEF _classify_error, Error
  <2>5. QED
    BY <1>1, <2>2, <2>3, <2>4
<1>4. e.kind = "client" /\ e.code # "602" /\ e.text # "not_found" =>
         ~_classify_error(e).retryable
  BY DEF _classify_error, Error
<1>5. _classify_error(e).code = "not_found" => e.code = "602" \/ e.text = "not_found"
  BY DEF _classify_error, Error
<1>6. _classify_error(e).code \notin {"absent", "approved"}
  BY DEF _classify_error, Error
<1>7. QED
  BY <1>3, <1>4, <1>5, <1>6

LEMMA ConcludeInv ==
    ASSUME GatewayInv, Conclude
    PROVE  GatewayInv'
<1>1. AmountsInv'
  BY AmountsStay DEF GatewayInv, Conclude
<1>2. /\ pc = "concluding" /\ pc' = "done" /\ reply' = reply /\ raised' = raised
      /\ exchange' = exchange /\ verdict' = verdict /\ voucher' = voucher /\ contacted' = contacted
  BY DEF Conclude
<1>3. /\ reply = None <=> raised # None
      /\ reply \in Replies \cup {None} /\ raised \in Exceptions \cup {None}
  BY <1>2 DEF GatewayInv, TypeOK
<1>4. TypeOK'
  BY <1>1, <1>2 DEF GatewayInv, TypeOK, AmountsInv
<1>5. Quiet' /\ ContactInv' /\ LookupInv' /\ NeverUnbalanced'
  BY <1>2 DEF GatewayInv, Quiet, Sending, ContactInv, CallsAllowed, LookupInv, NeverUnbalanced
<1>6. CreateInv'
  <2>1. TransportErrors(TRUE)' = TransportErrors(TRUE)
    BY DEF TransportErrors
  <2>2. QED
    BY <1>2, <2>1 DEF GatewayInv, CreateInv
<1>7. OutcomeFollowsVerdict'
  <2> SUFFICES ASSUME exchange.op = "createVoucher"
               PROVE  OutcomeFollowsVerdict'
    BY <1>2 DEF OutcomeFollowsVerdict, Creating
  <2>1. outcome' = Processed
    BY ExchangeFacts DEF GatewayInv, TypeOK, Conclude
  <2>2. CASE raised # None
    <3>1. outcome' = _classify_error(raised) /\ reply = None
      BY <1>3, <2>1, <2>2 DEF Processed
    <3>2. voucher = "authorised" => outcome'.retryable \/ raised.text = "unreadable"
      BY <1>3, <2>2, <3>1, ClassifyFacts DEF GatewayInv, CreateInv
    <3>3. raised.code # None => ~outcome'.retryable /\ outcome'.code # "approved"
      BY <1>3, <2>2, <3>1, ClassifyFacts DEF GatewayInv, CreateInv
    <3>4. QED
      BY <1>2, <2>2, <3>1, <3>2, <3>3 DEF OutcomeFollowsVerdict
  <2>3. CASE raised = None
    <3>1. reply # None /\ outcome' = IF HasCae(reply) THEN Answer("approved") ELSE Answer("arca_rejected")
      BY <1>3, <2>1, <2>3 DEF Processed
    <3>2. voucher = "authorised" => outcome'.code = "approved"
      BY <3>1 DEF GatewayInv, CreateInv, HasCae, Answer
    <3>3. verdict = "refused" => ~outcome'.retryable /\ outcome'.code # "approved"
      BY <3>1 DEF GatewayInv, CreateInv, HasCae, Answer
    <3>4. QED
      BY <1>2, <3>2, <3>3 DEF OutcomeFollowsVerdict
  <2>4. QED
    BY <2>2, <2>3
<1>8. AbsenceIsReal'
  <2> SUFFICES ASSUME "misleading_404" \notin Faults, outcome'.code = "absent"
               PROVE  voucher = "none"
    BY <1>2 DEF AbsenceIsReal, AbsentMeansAbsent
  <2>1. exchange.caller = "process" /\ outcome' = Processed
    <3>1. raised # None => _classify_error(raised).code # "absent"
      BY <1>3, ClassifyFacts
    <3>2. Validated.code # "absent"
      BY DEF Validated, Answer, Error
    <3>3. Discovered.code # "absent"
      BY DEF Discovered, Answer, Error
    <3>4. QED
      BY <3>2, <3>3, ExchangeFacts DEF GatewayInv, TypeOK, Conclude
  <2>2. /\ raised # None /\ exchange.op = "getVoucherInfo"
        /\ _classify_error(raised).code = "not_found"
    BY <1>3, <2>1, ClassifyFacts DEF Processed, Answer
  <2>3. QED
    BY <1>3, <2>2, ClassifyFacts DEF GatewayInv, LookupInv
<1>9. QED
  BY <1>1, <1>4, <1>5, <1>6, <1>7, <1>8 DEF GatewayInv

LEMMA GatewayStutters == GatewayInv /\ UNCHANGED vars => GatewayInv'
<1> SUFFICES ASSUME GatewayInv, UNCHANGED vars PROVE GatewayInv'
  OBVIOUS
<1>1. AmountsInv'
  BY AmountsStay DEF GatewayInv, vars
<1>2. TypeOK' /\ Quiet' /\ ContactInv' /\ CreateInv' /\ LookupInv'
  BY <1>1 DEF GatewayInv, vars, gateway, TypeOK, AmountsInv, Quiet, ContactInv, CallsAllowed,
              CreateInv, LookupInv, TransportErrors
<1>3. NeverUnbalanced' /\ OutcomeFollowsVerdict' /\ AbsenceIsReal'
  BY DEF GatewayInv, vars, gateway, NeverUnbalanced, OutcomeFollowsVerdict, Creating,
         AbsenceIsReal, AbsentMeansAbsent
<1>4. QED
  BY <1>1, <1>2, <1>3 DEF GatewayInv

LEMMA GatewayInvariance == Spec => []GatewayInv
<1>1. GatewayInv /\ [Next]_vars => GatewayInv'
  BY AddInv, StoreInv, ConnectInv, AuthenticateInv, CallNotHandledInv, ReplyLostInv,
     ReplyArrivesInv, ConcludeInv, GatewayStutters DEF Next
<1>2. QED
  BY GatewayInitInv, <1>1, PTL DEF Spec

-----------------------------------------------------------------------------
(* Every variable of an exchange keeps its type. *)
THEOREM TypeCorrect == Spec => []TypeOK
  BY GatewayInvariance, PTL DEF GatewayInv

(* Amounts add up in whatever request holds them, and ARCA is never given   *)
(* any that do not (_calculate_amounts, _arca_payload).                     *)
THEOREM NothingUnbalanced == Spec => [](PartsAddUp /\ NetFollowsRate /\ NeverUnbalanced)
<1>1. GatewayInv => PartsAddUp /\ NetFollowsRate /\ NeverUnbalanced
  BY DEF GatewayInv, AmountsInv
<1>2. QED
  BY GatewayInvariance, <1>1, PTL

(* No authorised voucher is ended as refused unless its reply cannot be     *)
(* read, and no refusal is retried (_classify_error, _raise_wsfe_errors).   *)
THEOREM VerdictsRespected == Spec => []OutcomeFollowsVerdict
  BY GatewayInvariance, PTL DEF GatewayInv

(* A voucher is taken for absent only if ARCA does not have it, unless the  *)
(* gateway says so in ARCA's place (process, _classify_error).              *)
THEOREM AbsenceReal == "misleading_404" \notin Faults => (Spec => []AbsentMeansAbsent)
<1> SUFFICES ASSUME "misleading_404" \notin Faults PROVE Spec => []AbsentMeansAbsent
  OBVIOUS
<1>1. GatewayInv => AbsentMeansAbsent
  BY DEF GatewayInv, AbsenceIsReal
<1>2. QED
  BY GatewayInvariance, <1>1, PTL

(* Production is contacted by instances that may only, and nobody after a   *)
(* failure on this side (create_arca_client).                               *)
THEOREM ProductionGuarded == Spec => []SentOnlyIfAllowed
<1>1. GatewayInv => SentOnlyIfAllowed
  BY DEF GatewayInv, ContactInv, CallsAllowed, SentOnlyIfAllowed
<1>2. QED
  BY GatewayInvariance, <1>1, PTL

=============================================================================
