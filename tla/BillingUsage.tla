---------------------------- MODULE BillingUsage ----------------------------
(***************************************************************************)
(* Consumption of one monthly feature by one tenant (app/billing): the     *)
(* endpoints usage/consume and usage/check-and-consume record an event per *)
(* idempotency key and add its amount to the counter of the month.         *)
(*                                                                         *)
(* Handlers serve requests concurrently, each in a database transaction of *)
(* isolation READ COMMITTED; the flush and the commit are one step, whose  *)
(* unique constraints see everything committed before.  A client may send  *)
(* a key again at any time, also while its first request is being served.  *)
(***************************************************************************)
EXTENDS Integers, FiniteSets, Functions

CONSTANTS
  Handlers,     \* threads of the API that serve requests
  Keys,         \* idempotency keys of the feature
  AmountOf,     \* [Keys -> Nat \ {0}]: amount of the request with the key
  Months,       \* number of months a behaviour lasts
  Limits,       \* limits the plan may have; Unlimited stands for NULL
  Unlimited,
  MaxCalls,     \* how many requests a behaviour serves
  Kinds,        \* {"consume", "check"}: endpoints the clients use
  Stamps,       \* what occurred_at may be: a month, or Now if it is absent
  None          \* no month, no key, no counter

Now == 0

ASSUME ConstantsAssumption ==
  /\ AmountOf \in [Keys -> Nat \ {0}]
  /\ Months \in Nat \ {0}
  /\ Limits \subseteq Nat \cup {Unlimited}
  /\ Limits # {}
  /\ Unlimited \notin Nat
  /\ MaxCalls \in Nat
  /\ Kinds \subseteq {"consume", "check"}
  /\ Stamps \subseteq 0 .. Months
  /\ None \notin Nat \cup Keys

VARIABLES
  month,     \* the current month
  access,    \* what the tenant's subscription allows, see Accesses
  limit,     \* limit_value of the plan's row for the feature
  counter,   \* [1 .. Months -> Nat or None]: used of the month's counter
  ceiling,   \* [1 .. Months -> limit]: limit_value of the counter
  events,    \* [Keys -> month or None]: the usage events, by their key
  consumed,  \* [1 .. Months -> Nat]: sum of the amounts of the events
  pc,        \* [Handlers -> Steps]
  key,       \* [Handlers -> Keys or None]: idempotency key being served
  kind,      \* [Handlers -> endpoint being served]
  stamp,     \* [Handlers -> Stamps]: occurred_at of the request
  period,    \* [Handlers -> month or None]: month whose counter is in hand
  seen,      \* [Handlers -> Nat or None]: used of the counter in the session
  bound,     \* [Handlers -> limit]: limit_value read for the counter
  reply,     \* [Handlers -> Replies]: the last answer, to the key in answered
  answered,  \* [Handlers -> Keys or None]
  calls      \* requests so far

books    == <<counter, ceiling, events, consumed>>
plan     == <<access, limit>>
request  == <<key, kind, stamp>>
session  == <<period, seen, bound>>
answers  == <<reply, answered>>
vars     == <<month, plan, books, pc, request, session, answers, calls>>

Periods == 1 .. Months

(***************************************************************************)
(* "active":   the current subscription is active, its plan has the feature *)
(* "disabled": it is expired, or the feature is not enabled                *)
(* "inactive": there is none, or it is cancelled or unpaid                 *)
(* "miscased": active, but its stored status is not in lower case: the     *)
(*             check takes it for active, the recording does not           *)
(***************************************************************************)
Accesses == {"active", "disabled", "inactive", "miscased"}
Steps   == {"idle", "check", "read", "write"}
Replies == {"none", "recorded", "already", "denied", "error"}

Init ==
  /\ month = 1
  /\ access \in Accesses
  /\ limit \in Limits
  /\ counter = [p \in Periods |-> None]
  /\ ceiling = [p \in Periods |-> Unlimited]
  /\ events = [k \in Keys |-> None]
  /\ consumed = [p \in Periods |-> 0]
  /\ pc = [h \in Handlers |-> "idle"]
  /\ key = [h \in Handlers |-> None]
  /\ kind = [h \in Handlers |-> "consume"]
  /\ stamp = [h \in Handlers |-> Now]
  /\ period = [h \in Handlers |-> None]
  /\ seen = [h \in Handlers |-> None]
  /\ bound = [h \in Handlers |-> Unlimited]
  /\ reply = [h \in Handlers |-> "none"]
  /\ answered = [h \in Handlers |-> None]
  /\ calls = 0

(***************************************************************************)
(* One handler.                                                            *)
(***************************************************************************)
Answer(h, k, r) ==
  /\ pc' = [pc EXCEPT ![h] = "idle"]
  /\ key' = [key EXCEPT ![h] = None]
  /\ kind' = [kind EXCEPT ![h] = "consume"]
  /\ stamp' = [stamp EXCEPT ![h] = Now]
  /\ period' = [period EXCEPT ![h] = None]
  /\ seen' = [seen EXCEPT ![h] = None]
  /\ bound' = [bound EXCEPT ![h] = Unlimited]
  /\ reply' = [reply EXCEPT ![h] = r]
  /\ answered' = [answered EXCEPT ![h] = k]

(* get_usage_event finds the key: already recorded. *)
ReceiveKnown(h, k) ==
  /\ pc[h] = "idle" /\ calls < MaxCalls
  /\ events[k] # None
  /\ calls' = calls + 1
  /\ Answer(h, k, "already")
  /\ UNCHANGED <<month, plan, books>>

(* It does not: check_and_consume_usage checks, consume_usage records. *)
Receive(h, k, endpoint, at) ==
  /\ pc[h] = "idle" /\ calls < MaxCalls
  /\ events[k] = None
  /\ calls' = calls + 1
  /\ pc' = [pc EXCEPT ![h] = IF endpoint = "check" THEN "check" ELSE "read"]
  /\ key' = [key EXCEPT ![h] = k]
  /\ kind' = [kind EXCEPT ![h] = endpoint]
  /\ stamp' = [stamp EXCEPT ![h] = at]
  /\ reply' = [reply EXCEPT ![h] = "none"]
  /\ answered' = [answered EXCEPT ![h] = None]
  /\ UNCHANGED <<month, plan, books, session>>

(* Mutation: the clock is asked even if the request is dated. *)
AlwaysNow(h) == month

(* occurred_at or utc_now(), as a period key. *)
PeriodOf(h) == IF stamp[h] = Now THEN month ELSE stamp[h]

Used(p) == IF counter[p] = None THEN 0 ELSE counter[p]

(* Mutation: the amount of the request is left out of the comparison. *)
ExceededAlready(used, amount) == limit # Unlimited /\ used > limit
Exceeds(used, amount) == limit # Unlimited /\ used + amount > limit

(* What the check makes of the subscription and the feature. *)
Entitled == access \in {"active", "miscased"}

(* _check_entitlement denies: no active subscription, or the quota. *)
Deny(h) ==
  /\ pc[h] = "check"
  /\ ~Entitled \/ Exceeds(Used(PeriodOf(h)), AmountOf[key[h]])
  /\ Answer(h, key[h], "denied")
  /\ UNCHANGED <<month, plan, books, calls>>

(* It allows. *)
Allow(h) ==
  /\ pc[h] = "check"
  /\ Entitled /\ ~Exceeds(Used(PeriodOf(h)), AmountOf[key[h]])
  /\ period' = [period EXCEPT ![h] = PeriodOf(h)]
  /\ pc' = [pc EXCEPT ![h] = "read"]
  /\ UNCHANGED <<month, plan, books, request, seen, bound, answers, calls>>

(* _current_monthly_limit looks at the stored status of the subscription   *)
(* only.  Mutation: a tenant without a plan has no limit to speak of.      *)
NoneWithoutPlan == IF access \in {"active", "disabled"} THEN limit ELSE None
CurrentLimit == IF access \in {"active", "disabled"} THEN limit ELSE Unlimited

(* _record_usage asks for the month, the limit and the counter again: the  *)
(* session refers to what it has loaded only while somebody else does, and *)
(* _check_entitlement has returned.                                        *)
ReadCounter(h) ==
  /\ pc[h] = "read"
  /\ period' = [period EXCEPT ![h] = PeriodOf(h)]
  /\ seen' = [seen EXCEPT ![h] = counter[PeriodOf(h)]]
  /\ bound' = [bound EXCEPT ![h] = CurrentLimit]
  /\ pc' = [pc EXCEPT ![h] = "write"]
  /\ UNCHANGED <<month, plan, books, request, answers, calls>>

(* uq_billing_usage_events_idempotency.  Mutation: there is none. *)
NoConstraint(h) == FALSE
KeyCollides(h) == events[key[h]] # None

(* uq_billing_usage_counters_period: the session found no counter, and     *)
(* another handler has inserted it since.                                  *)
CounterCollides(h) == seen[h] = None /\ counter[period[h]] # None

(* counter.used += amount in the session, written as a value.  Mutation:   *)
(* the amount is added twice.                                              *)
Doubled(h) == (IF seen[h] = None THEN 0 ELSE seen[h]) + 2 * AmountOf[key[h]]
Increased(h) == (IF seen[h] = None THEN 0 ELSE seen[h]) + AmountOf[key[h]]

(* Both inserts are accepted: the transaction commits. *)
RecordUsage(h) ==
  /\ pc[h] = "write"
  /\ ~KeyCollides(h) /\ ~CounterCollides(h)
  /\ counter' = [counter EXCEPT ![period[h]] = Increased(h)]
  /\ ceiling' = [ceiling EXCEPT ![period[h]] = bound[h]]
  /\ events' = [events EXCEPT ![key[h]] = period[h]]
  /\ consumed' = [consumed EXCEPT ![period[h]] = @ + AmountOf[key[h]]]
  /\ Answer(h, key[h], "recorded")
  /\ UNCHANGED <<month, plan, calls>>

(* IntegrityError, rollback, and the event of the key is looked up again:  *)
(* without one the error is raised.  Mutation: it is taken for granted.    *)
AlreadyRecorded(h) == "already"
AfterConflict(h) == IF events[key[h]] # None THEN "already" ELSE "error"

Conflict(h) ==
  /\ pc[h] = "write"
  /\ KeyCollides(h) \/ CounterCollides(h)
  /\ Answer(h, key[h], AfterConflict(h))
  /\ UNCHANGED <<month, plan, books, calls>>

(* The database or the process fails before the commit. *)
Fail(h) ==
  /\ pc[h] # "idle"
  /\ Answer(h, key[h], "error")
  /\ UNCHANGED <<month, plan, books, calls>>

(***************************************************************************)
(* The environment.                                                        *)
(***************************************************************************)
MonthEnds ==
  /\ month < Months
  /\ month' = month + 1
  /\ UNCHANGED <<plan, books, pc, request, session, answers, calls>>

(* The subscription or its plan is changed outside the service. *)
PlanChanges ==
  /\ access' \in Accesses
  /\ limit' \in Limits
  /\ UNCHANGED <<month, books, pc, request, session, answers, calls>>

Next ==
  \/ \E h \in Handlers :
       \/ \E k \in Keys : ReceiveKnown(h, k)
       \/ \E k \in Keys, endpoint \in Kinds, at \in Stamps : Receive(h, k, endpoint, at)
       \/ Deny(h)
       \/ Allow(h)
       \/ ReadCounter(h)
       \/ RecordUsage(h)
       \/ Conflict(h)
       \/ Fail(h)
  \/ MonthEnds
  \/ PlanChanges

Spec == Init /\ [][Next]_vars

-----------------------------------------------------------------------------
Bounds == Nat \cup {Unlimited}
Counts == Nat \cup {None}

(* Every variable has its type. *)
TypeOK ==
  /\ month \in Periods
  /\ access \in Accesses
  /\ limit \in Bounds
  /\ counter \in [Periods -> Counts]
  /\ ceiling \in [Periods -> Bounds]
  /\ events \in [Keys -> Periods \cup {None}]
  /\ consumed \in [Periods -> Nat]
  /\ pc \in [Handlers -> Steps]
  /\ key \in [Handlers -> Keys \cup {None}]
  /\ kind \in [Handlers -> {"consume", "check"}]
  /\ stamp \in [Handlers -> {Now} \cup Periods]
  /\ period \in [Handlers -> Periods \cup {None}]
  /\ seen \in [Handlers -> Counts]
  /\ bound \in [Handlers -> Bounds]
  /\ reply \in [Handlers -> Replies]
  /\ answered \in [Handlers -> Keys \cup {None}]
  /\ calls \in Nat

(* A client that is told its usage is recorded, now or before, finds the   *)
(* event of its key, whatever the handlers do to one another.              *)
AnswersAreTrue ==
  \A h \in Handlers : reply[h] \in {"recorded", "already"} => events[answered[h]] # None

(* A counter never claims more than was consumed: concurrency may lose     *)
(* increments, it does not invent any.                                     *)
NeverOvercounted == \A p \in Periods : Used(p) <= consumed[p]

(* What a key consumes it consumes once, however often and concurrently it *)
(* is sent: consumption is that of the events of the distinct keys.        *)
ConsumedOncePerKey ==
  \A p \in Periods :
    consumed[p] = SumFunctionOnSet(AmountOf, {k \in Keys : events[k] = p})

(* "fuente de verdad para ... consumo mensual": the counter of a month is  *)
(* the sum of the amounts of its events.                                   *)
CountersAreExact == \A p \in Periods : Used(p) = consumed[p]

(* What the check of check-and-consume looked at is the month the usage is *)
(* recorded in, unless the request is undated and a month ends in between: *)
(* _record_usage asks the clock a second time.                             *)
RecordedWhereChecked ==
  [][\A h \in Handlers :
       pc[h] = "read" /\ pc'[h] = "write" /\ period[h] # None =>
         period'[h] = period[h] \/ (stamp[h] = Now /\ period[h] < period'[h])]_vars

=============================================================================
