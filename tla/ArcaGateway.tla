---------------------------- MODULE ArcaGateway ----------------------------
(***************************************************************************)
(* One exchange with ARCA through the HTTP gateway (arca/client.py): the   *)
(* client is built, a ticket is asked for, the operation is sent, and what *)
(* comes back or is raised becomes an answer of the service                *)
(* (_classify_error, _normalize_response).  ArcaIssuing takes the outcomes *)
(* of an exchange for granted; here they are derived, message by message.  *)
(* A createVoucher exchange starts from the amounts of the invoice, with   *)
(* the loop of ArcaAmounts.                                                *)
(***************************************************************************)
EXTENDS ArcaAmounts

CONSTANTS
    None,
    Faults   \* subset of {"unreadable_reply", "misleading_404"}

(* "unreadable_reply": ARCA handles the operation and the reply is not the *)
(*                     JSON the client expects.                            *)
(* "misleading_404":   the gateway's own 404 says "no encontrado".         *)
ASSUME FaultsAssumption == Faults \subseteq {"unreadable_reply", "misleading_404"}

VARIABLES
    exchange,   \* what is asked, fixed: [caller, op, environment, enabled, keyring]
    pc,         \* "adding", "connecting", "authenticating", "calling", "concluding", "done"
    voucher,    \* what ARCA holds under the number: "none", "authorised", "without_cae"
    verdict,    \* history: what ARCA decided on this request, None if it saw none
    contacted,  \* history: environments a request was sent to
    reply,      \* the result returned by executeRequest
    raised,     \* the exception raised instead
    outcome     \* what the service makes of it

gateway == <<exchange, pc, voucher, verdict, contacted, reply, raised, outcome>>
vars == <<amounts, gateway>>

-----------------------------------------------------------------------------
(* ARCA's error codes: no such voucher, credentials, a number out of       *)
(* sequence, amounts that do not add up.                                   *)
Codes == {"602", "600", "10016", "10048"}

(* Exceptions: their class, the HTTP status, and the code and the words of *)
(* the message that _classify_error looks for.  Statuses stand for the     *)
(* groups it tells apart: 401 and 403, 408 and 429, 500 and more, the rest. *)
Exceptions ==
    [kind   : {"timeout", "connection", "protocol", "http", "client", "domain"},
     status : {0, 401, 404, 429, 500},
     code   : {None} \cup Codes,
     text   : {"plain", "not_found", "auth", "unreadable", "disabled"}]

Exception(kind, status, code, text) ==
    [kind |-> kind, status |-> status, code |-> code, text |-> text]

(* JsonTransport.request.  A status below 500 is given before the request  *)
(* is passed on; the other failures hit handled requests as well.          *)
TransportErrors(handled) ==
    {Exception(k, 0, None, "plain") : k \in {"timeout", "connection", "protocol"}}
    \cup {Exception("http", 500, None, "plain")}
    \cup (IF handled
          THEN IF "unreadable_reply" \in Faults
               THEN {Exception("client", 0, None, "unreadable")} ELSE {}
          ELSE {Exception("http", 401, None, "auth"), Exception("http", 404, None, "plain"),
                Exception("http", 429, None, "plain")}
               \cup (IF "misleading_404" \in Faults
                     THEN {Exception("http", 404, None, "not_found")} ELSE {}))

Replies ==
    [Resultado : {"A", "R", None}, cae : BOOLEAN,
     Observaciones : {None, "10016"}, Errors : {None} \cup Codes]

Decisions == {"authorised", "refused", "unbalanced", "none", "without_cae", "listed"}

ASSUME NoneAssumption ==
    None \notin Codes /\ None \notin Decisions /\ None \notin Exceptions /\ None \notin Replies

Reply(result, cae, obs, errors) ==
    [Resultado |-> result, cae |-> cae, Observaciones |-> obs, Errors |-> errors]

(* Mutation: observations are errors even of an authorised voucher. *)
AnyObservation(op, r) ==
    IF op = "createVoucher" /\ r.Observaciones # None THEN r.Observaciones ELSE r.Errors

(* Observations of a refused voucher take the place of its errors. *)
_raise_wsfe_errors(op, r) ==
    IF op = "createVoucher" /\ r.Observaciones # None /\ r.Resultado # "A"
    THEN r.Observaciones ELSE r.Errors

Error(code, retryable) == [code |-> code, retryable |-> retryable]

(* Mutation: any status under 500 is a voucher not found. *)
ClientStatusIsAbsence(e) ==
    IF e.code = "602" \/ e.text = "not_found" \/ (e.kind = "http" /\ e.status < 500)
    THEN Error("not_found", FALSE)
    ELSE IF e.kind = "timeout" THEN Error("arca_timeout", TRUE)
    ELSE IF e.kind = "client" THEN Error("arca_rejected", FALSE)
    ELSE Error("arca_unavailable", TRUE)

_classify_error(e) ==
    CASE e.kind = "timeout" -> Error("arca_timeout", TRUE)
      [] e.kind = "http" /\ e.status = 401 -> Error("arca_auth_error", FALSE)
      [] e.kind = "http" /\ e.status \in {429, 500} -> Error("arca_unavailable", TRUE)
      [] e.kind = "connection" -> Error("arca_unavailable", TRUE)
      [] OTHER ->
            IF e.code = "602" \/ e.text = "not_found" THEN Error("not_found", FALSE)
            ELSE IF e.text = "auth" THEN Error("arca_auth_error", FALSE)
            ELSE IF e.kind \in {"client", "http"} THEN Error("arca_rejected", FALSE)
            ELSE Error("arca_unavailable", TRUE)

-----------------------------------------------------------------------------
(* What ARCA is asked to authorise. *)
_arca_payload ==
    [ImpTotal |-> final_total, ImpNeto |-> net_total, ImpIVA |-> vat_total,
     Iva |-> [BaseImp |-> net_total, Importe |-> vat_total]]

AddsUp(p) ==
    /\ p.ImpTotal = p.ImpNeto + p.ImpIVA
    /\ p.Iva = [BaseImp |-> p.ImpNeto, Importe |-> p.ImpIVA]

(* ARCA: what it decides, and the replies that say so. *)
Verdicts ==
    CASE exchange.op = "createVoucher" -> IF AddsUp(_arca_payload)
                                          THEN {"authorised", "refused"} ELSE {"unbalanced"}
      [] exchange.op = "getVoucherInfo" -> {voucher, "refused"}
      [] OTHER -> {"listed", "refused"}

RepliesTo(v) ==
    CASE v = "authorised" -> {Reply("A", TRUE, None, None)} \cup
                             (IF exchange.op = "createVoucher"
                              THEN {Reply("A", TRUE, "10016", None)} ELSE {})
      [] v = "without_cae" -> {Reply("R", FALSE, None, None)}
      [] v = "none" -> {Reply(None, FALSE, None, "602")}
      [] v = "unbalanced" -> {Reply("R", FALSE, None, "10048")}
      [] v = "listed" -> {Reply(None, FALSE, None, None)}
      [] v = "refused" -> {Reply(None, FALSE, None, "600"), Reply(None, FALSE, None, "10016")} \cup
                          (IF exchange.op = "createVoucher"
                           THEN {Reply("R", FALSE, "10016", None), Reply("R", FALSE, None, None)}
                           ELSE {})

VoucherAfter(v) ==
    IF exchange.op = "createVoucher" /\ v = "authorised" THEN "authorised" ELSE voucher

-----------------------------------------------------------------------------
Callers ==
    {<<"process", "createVoucher">>, <<"process", "getVoucherInfo">>,
     <<"process", "getLastVoucher">>, <<"validate", "getLastVoucher">>,
     <<"discover", "getSalesPoints">>}

Exchanges ==
    {[caller |-> c[1], op |-> c[2], environment |-> e, enabled |-> p, keyring |-> k] :
        c \in Callers, e \in {"development", "production"}, p \in BOOLEAN,
        k \in {"available", "without_key", "not_configured"}}

Init ==
    /\ AmountsInit
    /\ exchange \in Exchanges
    /\ pc = IF exchange.op = "createVoucher" THEN "adding" ELSE "connecting"
    /\ voucher \in IF exchange.op = "getVoucherInfo"
                   THEN {"none", "authorised", "without_cae"} ELSE {"none"}
    /\ verdict = None /\ contacted = {} /\ reply = None /\ raised = None /\ outcome = None

Add(i) == pc = "adding" /\ AddItem(i) /\ UNCHANGED gateway

(* The request needs one item at least (schemas.py); an amount that no     *)
(* column holds makes the commit fail.                                     *)
Store ==
    /\ pc = "adding" /\ items # <<>>
    /\ IF Storable
       THEN pc' = "connecting" /\ UNCHANGED outcome
       ELSE pc' = "done" /\ outcome' = Error("database_error", FALSE)
    /\ UNCHANGED <<amounts, exchange, voucher, verdict, contacted, reply, raised>>

(* Mutation: the switch of production is not looked at. *)
AlwaysEnabled == TRUE

CallsAllowed == exchange.environment = "production" => exchange.enabled

(* client_for and create_arca_client: the credentials are decrypted first; *)
(* discovery brings its own, checked before.  "credenciales" in the        *)
(* message of a missing key makes it an authentication error.              *)
LocalErrors ==
    CASE exchange.caller # "discover" /\ exchange.keyring = "without_key" ->
            {Exception("domain", 0, None, "auth")}
      [] exchange.caller # "discover" /\ exchange.keyring = "not_configured" ->
            {Exception("domain", 0, None, "plain")}
      [] OTHER -> IF CallsAllowed THEN {} ELSE {Exception("client", 0, None, "disabled")}

Connect ==
    /\ pc = "connecting"
    /\ \/ LocalErrors = {} /\ pc' = "authenticating" /\ UNCHANGED raised
       \/ raised' \in LocalErrors /\ pc' = "concluding"
    /\ UNCHANGED <<amounts, exchange, voucher, verdict, contacted, reply, outcome>>

(* getServiceTA *)
Authenticate ==
    /\ pc = "authenticating"
    /\ contacted' = contacted \cup {exchange.environment}
    /\ \/ pc' = "calling" /\ UNCHANGED raised
       \/ pc' = "concluding" /\ \E handled \in BOOLEAN : raised' \in TransportErrors(handled)
    /\ UNCHANGED <<amounts, exchange, voucher, verdict, reply, outcome>>

(* executeRequest, the request lost on its way. *)
CallNotHandled ==
    /\ pc = "calling"
    /\ pc' = "concluding"
    /\ raised' \in TransportErrors(FALSE)
    /\ UNCHANGED <<amounts, exchange, voucher, verdict, contacted, reply, outcome>>

(* executeRequest, handled; the reply is lost or unreadable. *)
ReplyLost(v) ==
    /\ pc = "calling" /\ v \in Verdicts
    /\ pc' = "concluding"
    /\ verdict' = v /\ voucher' = VoucherAfter(v)
    /\ raised' \in TransportErrors(TRUE)
    /\ UNCHANGED <<amounts, exchange, contacted, reply, outcome>>

ErrorText(code) == IF code = "600" THEN "auth" ELSE "plain"

(* executeRequest, handled and answered. *)
ReplyArrives(v) ==
    /\ pc = "calling" /\ v \in Verdicts
    /\ pc' = "concluding"
    /\ verdict' = v /\ voucher' = VoucherAfter(v)
    /\ \E r \in RepliesTo(v) :
          LET code == _raise_wsfe_errors(exchange.op, r) IN
          IF code # None
          THEN raised' = Exception("client", 0, code, ErrorText(code)) /\ UNCHANGED reply
          ELSE reply' = r /\ UNCHANGED raised
    /\ UNCHANGED <<amounts, exchange, contacted, outcome>>

Answer(code) == [code |-> code, retryable |-> FALSE]

(* _normalize_response *)
HasCae(r) == r.cae

(* The part of InvoiceService.process that looks at the answer. *)
Processed ==
    IF raised # None
    THEN IF exchange.op = "getVoucherInfo" /\ _classify_error(raised).code = "not_found"
         THEN Answer("absent") ELSE _classify_error(raised)
    ELSE IF exchange.op = "getLastVoucher" THEN Answer("number")
    ELSE IF HasCae(reply) THEN Answer("approved") ELSE Answer("arca_rejected")

(* FiscalProfileService.validate: an error of the domain is passed on, any *)
(* other makes the profile invalid.                                        *)
Validated ==
    IF raised = None THEN Answer("valid")
    ELSE IF raised.kind = "domain" THEN Error("credential_keyring_unavailable", TRUE)
    ELSE Answer("invalid")

(* FiscalProfileService.discover_sales_points, by HTTP status. *)
Discovered ==
    IF raised = None THEN Answer("200")
    ELSE IF raised.text = "disabled" THEN Error("503", TRUE)
    ELSE IF _classify_error(raised).code = "arca_timeout" THEN Error("504", TRUE)
    ELSE IF _classify_error(raised).retryable THEN Error("503", TRUE) ELSE Answer("422")

Conclude ==
    /\ pc = "concluding"
    /\ pc' = "done"
    /\ outcome' = CASE exchange.caller = "process" -> Processed
                    [] exchange.caller = "validate" -> Validated
                    [] exchange.caller = "discover" -> Discovered
    /\ UNCHANGED <<amounts, exchange, voucher, verdict, contacted, reply, raised>>

Next ==
    \/ \E i \in Items : Add(i)
    \/ Store \/ Connect \/ Authenticate \/ CallNotHandled
    \/ \E v \in Verdicts : ReplyLost(v) \/ ReplyArrives(v)
    \/ Conclude

Spec == Init /\ [][Next]_vars

-----------------------------------------------------------------------------
(* The variables have their types. *)
TypeOK ==
    /\ AmountsTypeOK
    /\ exchange \in Exchanges
    /\ pc \in {"adding", "connecting", "authenticating", "calling", "concluding", "done"}
    /\ voucher \in {"none", "authorised", "without_cae"}
    /\ verdict \in {None} \cup Decisions
    /\ contacted \subseteq {"development", "production"}
    /\ reply \in Replies \cup {None} /\ raised \in Exceptions \cup {None}
    /\ pc = "concluding" => (reply = None <=> raised # None)

Creating == pc = "done" /\ exchange.op = "createVoucher" /\ outcome.code # "database_error"

(* _raise_wsfe_errors, _normalize_response, _classify_error: a voucher ARCA*)
(* authorised is approved or will be asked about again, and is ended as    *)
(* refused only when the reply could not be read; a refusal that arrives   *)
(* ends the invoice and is not sent again.                                 *)
OutcomeFollowsVerdict ==
    Creating =>
        /\ voucher = "authorised" =>
              \/ outcome.code = "approved"
              \/ outcome.retryable
              \/ raised # None /\ raised.text = "unreadable"
        /\ verdict = "refused" /\ (reply # None \/ raised.code # None) =>
              ~outcome.retryable /\ outcome.code # "approved"

(* process: a worker goes on to authorise a number after asking about it   *)
(* only if ARCA does not have it.                                          *)
AbsentMeansAbsent ==
    pc = "done" /\ outcome.code = "absent" => voucher = "none"

(* create_arca_client: nothing is sent to production unless the instance   *)
(* may, and nothing at all after a failure on this side.                   *)
SentOnlyIfAllowed ==
    /\ "production" \in contacted => exchange.enabled
    /\ raised # None /\ (raised.kind = "domain" \/ raised.text = "disabled") =>
          contacted = {} /\ verdict = None

(* _arca_payload, _calculate_amounts: ARCA is never given amounts that do  *)
(* not add up.                                                             *)
NeverUnbalanced == verdict # "unbalanced"
=============================================================================
