---------------------------- MODULE Entitlement ----------------------------
(***************************************************************************)
(* What the tables of app/billing say a tenant may do: the subscriptions   *)
(* of the tenant, the plans and the row a plan has for the feature, the    *)
(* seed that writes them, the check of an entitlement and the status of    *)
(* the tenant.  It composes with BillingUsage, which knows of all this     *)
(* only `access' and `limit': here every change of the tables sets both to *)
(* what the tables then say, and the check and the status are translated   *)
(* in full, for features of every type.                                    *)
(***************************************************************************)
EXTENDS BillingUsage, Sequences

CONSTANTS
  Plans,             \* plan codes
  PlanCatalog,       \* [Plans -> Rows or None]: the feature in PLAN_CATALOG
  Statuses,          \* texts subscriptions are given as their status
  Lower,             \* [Statuses -> the text in lower case]
  EditedRows,        \* rows an operator may write for a plan
  MaxSubscriptions,  \* bound on the subscriptions of the tenant
  ResourceCounts     \* what callers may say they have of a resource

Rows == [enabled : BOOLEAN, limit_value : Limits]

Subscriptions == [status : Statuses, plan : Plans, ended : BOOLEAN]

(* What a status shows of a feature. *)
Shown == [enabled : BOOLEAN, limit : Limits, remaining : Nat \cup {None}]

(* The rows a plan may have for the feature. *)
PlanRows == (EditedRows \cup {PlanCatalog[p] : p \in Plans}) \ {None}

Denials == {"subscription_expired", "subscription_cancelled", "subscription_payment_required",
            "subscription_inactive"}

ASSUME EntitlementAssumption ==
  /\ None \notin Rows \cup Subscriptions \cup Shown \cup Denials
  /\ PlanCatalog \in [Plans -> Rows \cup {None}]
  /\ EditedRows \subseteq Rows
  /\ MaxSubscriptions \in Nat
  /\ ResourceCounts \subseteq Nat

VARIABLES
  subscriptions,  \* of the tenant, in the order of created_at
  plan_features,  \* [Plans -> Rows or None]: the plan's row for the feature
  seeded          \* the feature and the plans exist

tables == <<subscriptions, plan_features, seeded>>

ACTIVE_SUBSCRIPTION_STATUSES == {"trialing", "active"}
CANCELLED_SUBSCRIPTION_STATUSES == {"cancelled", "canceled"}
PAYMENT_REQUIRED_SUBSCRIPTION_STATUSES == {"past_due", "unpaid", "payment_failed"}

(* The words of the code are in lower case. *)
ASSUME LowerAssumption ==
  \A s \in Statuses : s \in ACTIVE_SUBSCRIPTION_STATUSES => Lower[s] = s

-----------------------------------------------------------------------------
(* get_subscription_for_tenant: the newest, whatever its status. *)
get_subscription_for_tenant ==
  IF subscriptions = <<>> THEN None ELSE subscriptions[Len(subscriptions)]

(* None when the subscription gives access: the one place where a status   *)
(* is compared in lower case.                                              *)
subscription_denial_reason(s) ==
  LET status == Lower[s.status] IN
  CASE s.ended -> "subscription_expired"
    [] ~s.ended /\ status \in CANCELLED_SUBSCRIPTION_STATUSES -> "subscription_cancelled"
    [] ~s.ended /\ status \in PAYMENT_REQUIRED_SUBSCRIPTION_STATUSES ->
         "subscription_payment_required"
    [] ~s.ended /\ status \in ACTIVE_SUBSCRIPTION_STATUSES -> None
    [] OTHER -> "subscription_inactive"

(* "or" the status as it is stored. *)
effective_subscription_status(s) ==
  IF subscription_denial_reason(s) # None THEN subscription_denial_reason(s) ELSE s.status

calculate_remaining(limit_value, used) ==
  IF limit_value = Unlimited \/ used = None THEN None
  ELSE IF limit_value >= used THEN limit_value - used ELSE 0

Allowed == "allowed"

(* The branch of a monthly feature; a resource is counted by the caller,   *)
(* None if it does not say.                                                *)
Types == {"boolean", "monthly_usage", "resource_limit"}

OverLimit(type, row, amount, resource_count) ==
  /\ row.limit_value # Unlimited
  /\ \/ type = "monthly_usage" /\ Used(month) + amount > row.limit_value
     \/ type = "resource_limit" /\ (resource_count = None \/ resource_count > row.limit_value)

RowEnabled(row) == row # None /\ row.enabled

(* _check_entitlement: the reason it answers with, were the feature of the *)
(* given type.                                                             *)
_check_entitlement(type, amount, resource_count) ==
  LET s == get_subscription_for_tenant
      row == plan_features[s.plan]
  IN  IF s = None THEN "subscription_not_found"
      ELSE IF subscription_denial_reason(s) # None THEN subscription_denial_reason(s)
      ELSE IF ~seeded THEN "feature_not_found"
      ELSE IF ~RowEnabled(row) THEN "feature_not_enabled"
      ELSE IF OverLimit(type, row, amount, resource_count)
           THEN IF type = "monthly_usage" THEN "quota_exceeded" ELSE "resource_limit_exceeded"
      ELSE Allowed

(* _current_monthly_limit looks at the stored status. *)
_current_monthly_limit ==
  LET s == get_subscription_for_tenant IN
  IF s = None THEN Unlimited
  ELSE IF s.status \notin ACTIVE_SUBSCRIPTION_STATUSES THEN Unlimited
  ELSE IF plan_features[s.plan] = None THEN Unlimited
  ELSE plan_features[s.plan].limit_value

(* get_tenant_status: what it says of the feature, None if it has no row.  *)
(* Mutation: the plan's row is enough.                                     *)
EnabledInPlan(row, s) == row.enabled
EnabledNow(row, s) ==
  row.enabled /\ effective_subscription_status(s) \in ACTIVE_SUBSCRIPTION_STATUSES

get_tenant_status(type) ==
  LET s == get_subscription_for_tenant
      row == plan_features[s.plan]
  IN  IF s = None THEN None
      ELSE IF row = None THEN None
      ELSE [enabled |-> EnabledNow(row, s),
            limit |-> row.limit_value,
            remaining |-> IF type = "monthly_usage"
                          THEN calculate_remaining(row.limit_value, Used(month)) ELSE None]

-----------------------------------------------------------------------------
(* What BillingUsage is told of the tables: what the check and the stored  *)
(* status each make of the current subscription, and the plan's limit.     *)
AccessOf ==
  LET s == get_subscription_for_tenant
      entitled == subscription_denial_reason(s) = None /\ RowEnabled(plan_features[s.plan])
  IN  IF s = None THEN "inactive"
      ELSE IF s.status \in ACTIVE_SUBSCRIPTION_STATUSES
      THEN IF entitled THEN "active" ELSE "disabled"
      ELSE IF entitled THEN "miscased" ELSE "inactive"

LimitOf ==
  LET s == get_subscription_for_tenant IN
  IF s = None THEN Unlimited
  ELSE IF plan_features[s.plan] = None THEN Unlimited
  ELSE plan_features[s.plan].limit_value

UsageIsTold == access' = AccessOf' /\ limit' = LimitOf'

usage == <<month, books, pc, request, session, answers, calls>>

BillingInit ==
  /\ subscriptions = <<>>
  /\ plan_features = [p \in Plans |-> None]
  /\ seeded = FALSE
  /\ Init
  /\ access = AccessOf /\ limit = LimitOf

(* seed_billing_catalog, one transaction: rows the catalogue names are     *)
(* written over, the others stay.                                          *)
SeededRow(p) == IF PlanCatalog[p] # None THEN PlanCatalog[p] ELSE plan_features[p]

Seed ==
  /\ seeded' = TRUE
  /\ plan_features' = [p \in Plans |-> SeededRow(p)]
  /\ UNCHANGED subscriptions
  /\ UsageIsTold
  /\ UNCHANGED usage

Open(n) == subscriptions[n].status \in ACTIVE_SUBSCRIPTION_STATUSES

(* uq_billing_tenant_active_subscription: one open subscription, of those  *)
(* whose stored status is one of the index's.                              *)
MayHave(status, others) ==
  status \in ACTIVE_SUBSCRIPTION_STATUSES => \A n \in others : ~Open(n)

(* Subscriptions are written by scripts and other services. *)
Subscribe(status, code) ==
  /\ seeded
  /\ Len(subscriptions) < MaxSubscriptions
  /\ MayHave(status, DOMAIN subscriptions)
  /\ subscriptions' = Append(subscriptions, [status |-> status, plan |-> code, ended |-> FALSE])
  /\ UNCHANGED <<plan_features, seeded>>
  /\ UsageIsTold
  /\ UNCHANGED usage

StatusChanges(n, status) ==
  /\ MayHave(status, DOMAIN subscriptions \ {n})
  /\ subscriptions' = [subscriptions EXCEPT ![n].status = status]
  /\ UNCHANGED <<plan_features, seeded>>
  /\ UsageIsTold
  /\ UNCHANGED usage

(* current_period_end passes, or a renewal moves it. *)
PeriodEndsOrRenews(n, ended) ==
  /\ subscriptions' = [subscriptions EXCEPT ![n].ended = ended]
  /\ UNCHANGED <<plan_features, seeded>>
  /\ UsageIsTold
  /\ UNCHANGED usage

EditPlan(code, row) ==
  /\ seeded
  /\ plan_features' = [plan_features EXCEPT ![code] = row]
  /\ UNCHANGED <<subscriptions, seeded>>
  /\ UsageIsTold
  /\ UNCHANGED usage

TablesChange ==
  \/ Seed
  \/ \E s \in Statuses, p \in Plans : Subscribe(s, p)
  \/ \E n \in DOMAIN subscriptions :
       \/ \E s \in Statuses : StatusChanges(n, s)
       \/ \E ended \in BOOLEAN : PeriodEndsOrRenews(n, ended)
  \/ \E p \in Plans, row \in EditedRows : EditPlan(p, row)

Serves ==
  \/ \E h \in Handlers :
       \/ \E k \in Keys : ReceiveKnown(h, k)
       \/ \E k \in Keys, endpoint \in Kinds, at \in Stamps : Receive(h, k, endpoint, at)
       \/ Deny(h) \/ Allow(h) \/ ReadCounter(h) \/ RecordUsage(h) \/ Conflict(h) \/ Fail(h)
  \/ MonthEnds

BillingNext == TablesChange \/ (Serves /\ UNCHANGED tables)

BillingSpec == BillingInit /\ [][BillingNext]_<<vars, tables>>

-----------------------------------------------------------------------------
(* What GET /tenants/{id}/status shows of a feature is what the check then *)
(* answers: get_tenant_status and _check_entitlement, which read the       *)
(* tables along different paths, agree on whether it is enabled and on     *)
(* what is left of a monthly feature.  Nothing is shown that is then       *)
(* denied; of what is allowed, only what a subscription gives whose stored *)
(* status is not in lower case is not shown.                               *)
StatusAgreesWithCheck ==
  \A type \in Types, k \in Keys, count \in {None} \cup ResourceCounts :
    LET s == get_subscription_for_tenant
        shown == get_tenant_status(type)
        shownAvailable ==
          /\ shown # None
          /\ shown.enabled
          /\ type = "monthly_usage" => shown.remaining = None \/ AmountOf[k] <= shown.remaining
          /\ type = "resource_limit" =>
               shown.limit = Unlimited \/ (count # None /\ count <= shown.limit)
        allowed == _check_entitlement(type, AmountOf[k], count) = Allowed
    IN  /\ shownAvailable => allowed
        /\ allowed => shownAvailable \/ Lower[s.status] # s.status

(* hard_limit: check-and-consume checks and records in two steps without a *)
(* lock, so requests served at once may all take the same remainder.  They *)
(* exceed the highest limit of the plans by one request for each other     *)
(* handler at most, also when a month ends or the tables change between    *)
(* the steps.  The proviso: a month that has lost an increment             *)
(* (CountersAreExact) is undercounted by the checks, and is not bounded so.*)
QuotaRespected ==
  \A p \in Periods, most \in Limits \ {Unlimited}, amount \in {AmountOf[k] : k \in Keys} :
    (/\ \A row \in PlanRows : row.limit_value # Unlimited /\ row.limit_value <= most
     /\ \A k \in Keys : AmountOf[k] <= amount
     /\ Used(p) = consumed[p])
    => consumed[p] <= most + (Cardinality(Handlers) - 1) * amount

=============================================================================
