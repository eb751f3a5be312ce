--------------------------- MODULE Billing_proofs ---------------------------
(***************************************************************************)
(* Theorems about BillingUsage and Entitlement, for any number of handlers,*)
(* keys, months, requests, plans and subscriptions.                        *)
(***************************************************************************)
EXTENDS Entitlement, Sums_proofs

(* A handler past its reception has a key; once it writes, a month. *)
SessionsOpen ==
  \A h \in Handlers :
    /\ pc[h] # "idle" => key[h] \in Keys
    /\ pc[h] = "write" => period[h] \in Periods

(* Every variable has its type, and handlers have what they work on. *)
LEMMA TypeInit == ASSUME Init PROVE TypeOK /\ SessionsOpen
BY ConstantsAssumption
DEF Init, TypeOK, SessionsOpen, Periods, Accesses, Steps, Replies, Bounds, Counts, Now

(* Every step keeps the types and the sessions. *)
LEMMA TypeNext ==
  ASSUME TypeOK, SessionsOpen, [Next]_vars
  PROVE  TypeOK' /\ SessionsOpen'
<1> USE ConstantsAssumption
    DEF TypeOK, SessionsOpen, Periods, Accesses, Steps, Replies, Bounds, Counts, Now,
        plan, books, request, session, answers
<1>0. ASSUME NEW h \in Handlers, NEW k \in Keys, NEW r \in Replies, Answer(h, k, r)
      PROVE  /\ pc' \in [Handlers -> Steps]
             /\ key' \in [Handlers -> Keys \cup {None}]
             /\ kind' \in [Handlers -> {"consume", "check"}]
             /\ stamp' \in [Handlers -> {Now} \cup Periods]
             /\ period' \in [Handlers -> Periods \cup {None}]
             /\ seen' \in [Handlers -> Counts]
             /\ bound' \in [Handlers -> Bounds]
             /\ reply' \in [Handlers -> Replies]
             /\ answered' \in [Handlers -> Keys \cup {None}]
             /\ SessionsOpen'
  BY <1>0 DEF Answer
<1>1. ASSUME NEW h \in Handlers, NEW k \in Keys, ReceiveKnown(h, k)
      PROVE  TypeOK' /\ SessionsOpen'
  <2>1. Answer(h, k, "already") /\ "already" \in Replies /\ calls' \in Nat
    BY <1>1 DEF ReceiveKnown
  <2>2. UNCHANGED <<month, access, limit, counter, ceiling, events, consumed>>
    BY <1>1 DEF ReceiveKnown
  <2> QED
    BY <1>0, <2>1, <2>2
<1>2. ASSUME NEW h \in Handlers, NEW k \in Keys, NEW endpoint \in Kinds, NEW at \in Stamps,
             Receive(h, k, endpoint, at)
      PROVE  TypeOK' /\ SessionsOpen'
  <2>1. endpoint \in {"consume", "check"} /\ at \in {0} \cup 1 .. Months
    OBVIOUS
  <2>2. /\ calls' \in Nat
        /\ pc' \in [Handlers -> Steps]
        /\ key' \in [Handlers -> Keys \cup {None}]
        /\ kind' \in [Handlers -> {"consume", "check"}]
        /\ stamp' \in [Handlers -> {Now} \cup Periods]
    BY <1>2, <2>1 DEF Receive
  <2>3. reply' \in [Handlers -> Replies] /\ answered' \in [Handlers -> Keys \cup {None}]
    BY <1>2 DEF Receive
  <2>4. SessionsOpen'
    BY <1>2 DEF Receive
  <2> QED
    BY <1>2, <2>2, <2>3, <2>4 DEF Receive
<1>3. ASSUME NEW h \in Handlers, Deny(h)
      PROVE  TypeOK' /\ SessionsOpen'
  BY <1>0, <1>3 DEF Deny
<1>4. ASSUME NEW h \in Handlers, Allow(h)
      PROVE  TypeOK' /\ SessionsOpen'
  BY <1>4 DEF Allow, PeriodOf
<1>5. ASSUME NEW h \in Handlers, ReadCounter(h)
      PROVE  TypeOK' /\ SessionsOpen'
  BY <1>5 DEF ReadCounter, PeriodOf, CurrentLimit
<1>6. ASSUME NEW h \in Handlers, RecordUsage(h)
      PROVE  TypeOK' /\ SessionsOpen'
  <2>1. AmountOf[key[h]] \in Nat /\ period[h] \in Periods /\ key[h] \in Keys
    BY <1>6 DEF RecordUsage
  <2>2. Increased(h) \in Nat
    BY <2>1 DEF Increased
  <2>3. /\ counter' \in [Periods -> Counts]
        /\ ceiling' \in [Periods -> Bounds]
        /\ events' \in [Keys -> Periods \cup {None}]
    BY <1>6, <2>1, <2>2 DEF RecordUsage
  <2>4. consumed' \in [Periods -> Nat]
    BY <1>6, <2>1 DEF RecordUsage
  <2> QED
    BY <1>0, <1>6, <2>1, <2>3, <2>4 DEF RecordUsage
<1>7. ASSUME NEW h \in Handlers, Conflict(h)
      PROVE  TypeOK' /\ SessionsOpen'
  <2>1. key[h] \in Keys /\ AfterConflict(h) \in Replies
    BY <1>7 DEF Conflict, AfterConflict
  <2>2. Answer(h, key[h], AfterConflict(h)) /\ UNCHANGED calls
    BY <1>7 DEF Conflict
  <2>3. UNCHANGED <<month, access, limit, counter, ceiling, events, consumed>>
    BY <1>7 DEF Conflict
  <2> QED
    BY <1>0, <2>1, <2>2, <2>3
<1>8. ASSUME NEW h \in Handlers, Fail(h)
      PROVE  TypeOK' /\ SessionsOpen'
  BY <1>0, <1>8 DEF Fail
<1>9. CASE MonthEnds
  BY <1>9 DEF MonthEnds
<1>10. CASE PlanChanges
  BY <1>10 DEF PlanChanges
<1>11. CASE UNCHANGED vars
  BY <1>11 DEF vars
<1> QED
  BY <1>1, <1>2, <1>3, <1>4, <1>5, <1>6, <1>7, <1>8, <1>9, <1>10, <1>11 DEF Next

(* Every variable has its type in every reachable state. *)
THEOREM Typing == Spec => []TypeOK
<1>1. TypeOK /\ SessionsOpen /\ [Next]_vars => (TypeOK /\ SessionsOpen)'
  BY TypeNext
<1> QED
  BY TypeInit, <1>1, PTL DEF Spec

(* The books change only when a usage is recorded. *)
LEMMA BookKeeping ==
  ASSUME [Next]_vars
  PROVE  UNCHANGED books \/ \E h \in Handlers : RecordUsage(h)
BY DEF Next, vars, books, plan, request, session, answers, ReceiveKnown, Receive, Deny, Allow,
    ReadCounter, Conflict, Fail, MonthEnds, PlanChanges

-----------------------------------------------------------------------------
(* What a handler answered it found in the events. *)
AnswersInv ==
  /\ TypeOK
  /\ SessionsOpen
  /\ \A h \in Handlers : reply[h] \in {"recorded", "already"} => answered[h] \in Keys
  /\ AnswersAreTrue

(* Events are never removed. *)
LEMMA EventsStay ==
  ASSUME AnswersInv, [Next]_vars, NEW k \in Keys, events[k] # None
  PROVE  events'[k] # None
<1>1. ASSUME NEW h \in Handlers, RecordUsage(h)
      PROVE  events'[k] # None
  BY <1>1, ConstantsAssumption DEF RecordUsage, AnswersInv, TypeOK, SessionsOpen, Periods
<1> QED
  BY <1>1, BookKeeping DEF books

(* A reply of a handler says that the event of the key is there. *)
LEMMA RepliesAreTrue ==
  ASSUME AnswersInv, [Next]_vars, NEW h \in Handlers, reply'[h] \in {"recorded", "already"}
  PROVE  answered'[h] \in Keys /\ events'[answered'[h]] # None
<1> USE ConstantsAssumption
    DEF AnswersInv, TypeOK, SessionsOpen, plan, books, request, session, answers
<1>0. CASE UNCHANGED <<reply[h], answered[h]>>
  BY <1>0, EventsStay DEF AnswersAreTrue
<1>1. ASSUME NEW g \in Handlers, NEW k \in Keys, ReceiveKnown(g, k)
      PROVE  answered'[h] \in Keys /\ events'[answered'[h]] # None
  BY <1>0, <1>1 DEF ReceiveKnown, Answer
<1>2. ASSUME NEW g \in Handlers, NEW k \in Keys, NEW endpoint \in Kinds, NEW at \in Stamps,
             Receive(g, k, endpoint, at)
      PROVE  answered'[h] \in Keys /\ events'[answered'[h]] # None
  BY <1>0, <1>2 DEF Receive
<1>3. ASSUME NEW g \in Handlers, Deny(g)
      PROVE  answered'[h] \in Keys /\ events'[answered'[h]] # None
  BY <1>0, <1>3 DEF Deny, Answer
<1>4. ASSUME NEW g \in Handlers, Allow(g) \/ ReadCounter(g)
      PROVE  answered'[h] \in Keys /\ events'[answered'[h]] # None
  BY <1>0, <1>4 DEF Allow, ReadCounter
<1>5. ASSUME NEW g \in Handlers, RecordUsage(g)
      PROVE  answered'[h] \in Keys /\ events'[answered'[h]] # None
  BY <1>0, <1>5 DEF RecordUsage, Answer, Periods
<1>6. ASSUME NEW g \in Handlers, Conflict(g)
      PROVE  answered'[h] \in Keys /\ events'[answered'[h]] # None
  BY <1>0, <1>6 DEF Conflict, Answer, AfterConflict
<1>7. ASSUME NEW g \in Handlers, Fail(g)
      PROVE  answered'[h] \in Keys /\ events'[answered'[h]] # None
  BY <1>0, <1>7 DEF Fail, Answer
<1>8. CASE MonthEnds \/ PlanChanges \/ UNCHANGED vars
  BY <1>0, <1>8 DEF MonthEnds, PlanChanges, vars
<1> QED
  BY <1>1, <1>2, <1>3, <1>4, <1>5, <1>6, <1>7, <1>8 DEF Next

(* A client that is told "recorded" or "already recorded" finds its event, *)
(* however many handlers race for the same key or the same new counter.    *)
THEOREM TrueAnswers == Spec => []AnswersAreTrue
<1>1. Init => AnswersInv
  BY TypeInit DEF Init, AnswersInv, AnswersAreTrue
<1>2. AnswersInv /\ [Next]_vars => AnswersInv'
  BY TypeNext, RepliesAreTrue DEF AnswersInv, AnswersAreTrue
<1>3. AnswersInv => AnswersAreTrue
  BY DEF AnswersInv
<1> QED
  BY <1>1, <1>2, <1>3, PTL DEF Spec

-----------------------------------------------------------------------------
(* What a session remembers of a counter is not more than was consumed. *)
SeenWasConsumed ==
  \A h \in Handlers : pc[h] = "write" /\ seen[h] # None => seen[h] <= consumed[period[h]]

CountInv ==
  /\ TypeOK
  /\ SessionsOpen
  /\ NeverOvercounted
  /\ SeenWasConsumed

(* Every step keeps the counters below the consumption. *)
LEMMA CountNext ==
  ASSUME CountInv, [Next]_vars
  PROVE  CountInv'
<1>0. TypeOK' /\ SessionsOpen'
  BY TypeNext DEF CountInv
<1> DEFINE Rest == NeverOvercounted /\ SeenWasConsumed
<1> USE ConstantsAssumption
    DEF CountInv, TypeOK, SessionsOpen, NeverOvercounted, SeenWasConsumed, Used, Counts,
        plan, books, request, session, answers
<1>1. ASSUME NEW h \in Handlers, NEW k \in Keys, ReceiveKnown(h, k)
      PROVE  Rest'
  BY <1>1 DEF ReceiveKnown, Answer
<1>2. ASSUME NEW h \in Handlers, NEW k \in Keys, NEW endpoint \in Kinds, NEW at \in Stamps,
             Receive(h, k, endpoint, at)
      PROVE  Rest'
  BY <1>2 DEF Receive
<1>3. ASSUME NEW h \in Handlers, Deny(h) \/ Conflict(h) \/ Fail(h)
      PROVE  Rest'
  BY <1>3 DEF Deny, Conflict, Fail, Answer
<1>4. ASSUME NEW h \in Handlers, Allow(h) \/ ReadCounter(h)
      PROVE  Rest'
  <2>1. PeriodOf(h) \in Periods
    BY DEF PeriodOf, Periods, Now
  <2>2. counter[PeriodOf(h)] # None => counter[PeriodOf(h)] <= consumed[PeriodOf(h)]
    BY <2>1
  <2>3. CASE Allow(h)
    BY <2>3 DEF Allow
  <2>4. CASE ReadCounter(h)
    <3>1. NeverOvercounted'
      BY <2>4 DEF ReadCounter
    <3>2. SeenWasConsumed'
      BY <2>1, <2>2, <2>4 DEF ReadCounter
    <3> QED
      BY <3>1, <3>2
  <2> QED
    BY <1>4, <2>3, <2>4
<1>5. ASSUME NEW h \in Handlers, RecordUsage(h)
      PROVE  Rest'
  <2> DEFINE p == period[h]
             a == AmountOf[key[h]]
  <2>1. p \in Periods /\ a \in Nat /\ p # None
    BY <1>5 DEF RecordUsage, Periods
  <2>2. Increased(h) \in Nat /\ Increased(h) <= consumed[p] + a
    BY <1>5, <2>1 DEF RecordUsage, Increased
  <2>3. /\ consumed' = [consumed EXCEPT ![p] = consumed[p] + a]
        /\ counter' = [counter EXCEPT ![p] = Increased(h)]
    BY <1>5 DEF RecordUsage
  <2>4. \A q \in Periods : consumed'[q] \in Nat /\ consumed'[q] >= consumed[q]
    BY <2>1, <2>3
  <2>5. NeverOvercounted'
    BY <2>1, <2>2, <2>3, <2>4
  <2>6. SeenWasConsumed'
    <3> SUFFICES ASSUME NEW g \in Handlers, pc'[g] = "write", seen'[g] # None
                 PROVE  seen'[g] <= consumed'[period'[g]]
      OBVIOUS
    <3>1. pc[g] = "write" /\ period'[g] = period[g] /\ seen'[g] = seen[g]
      BY <1>5 DEF RecordUsage, Answer
    <3>2. period[g] \in Periods /\ seen[g] \in Nat
      BY <3>1
    <3> QED
      BY <3>1, <3>2, <2>4
  <2> QED
    BY <2>5, <2>6
<1>6. ASSUME MonthEnds \/ PlanChanges \/ UNCHANGED vars
      PROVE  Rest'
  BY <1>6 DEF MonthEnds, PlanChanges, vars
<1>7. Rest'
  <2> HIDE DEF Rest
  <2> QED
    BY <1>1, <1>2, <1>3, <1>4, <1>5, <1>6 DEF Next
<1> QED
  BY <1>0, <1>7

(* Lost increments aside, no counter claims more than was consumed. *)
THEOREM NoOvercount == Spec => []NeverOvercounted
<1>1. Init => CountInv
  BY TypeInit, ConstantsAssumption
  DEF Init, CountInv, NeverOvercounted, SeenWasConsumed, Used, Periods
<1>2. CountInv /\ [Next]_vars => CountInv'
  BY CountNext
<1>3. CountInv => NeverOvercounted
  BY DEF CountInv
<1> QED
  BY <1>1, <1>2, <1>3, PTL DEF Spec

-----------------------------------------------------------------------------
(* What a handler has checked is the month of its request, or a month that *)
(* was current when it asked the clock.                                    *)
CheckedMonth ==
  \A h \in Handlers :
    /\ pc[h] \in {"idle", "check"} => period[h] = None
    /\ pc[h] = "read" /\ period[h] # None =>
         IF stamp[h] = Now THEN period[h] <= month ELSE period[h] = stamp[h]

LEMMA CheckedMonthNext ==
  ASSUME TypeOK, CheckedMonth, [Next]_vars
  PROVE  CheckedMonth'
<1> SUFFICES ASSUME NEW g \in Handlers
             PROVE  /\ pc'[g] \in {"idle", "check"} => period'[g] = None
                    /\ pc'[g] = "read" /\ period'[g] # None =>
                         IF stamp'[g] = Now THEN period'[g] <= month' ELSE period'[g] = stamp'[g]
  BY DEF CheckedMonth
<1> DEFINE Goal == /\ pc'[g] \in {"idle", "check"} => period'[g] = None
                   /\ pc'[g] = "read" /\ period'[g] # None =>
                        IF stamp'[g] = Now THEN period'[g] <= month' ELSE period'[g] = stamp'[g]
<1> SUFFICES Goal
  OBVIOUS
<1> USE DEF TypeOK, CheckedMonth, plan, books, request, session, answers
<1>0. month \in Nat /\ month <= month' /\ month' \in Nat
  BY ConstantsAssumption
  DEF Next, vars, ReceiveKnown, Receive, Deny, Allow, ReadCounter, RecordUsage, Conflict, Fail,
      MonthEnds, PlanChanges, Periods
<1>1. ASSUME NEW h \in Handlers, NEW k, NEW r, Answer(h, k, r)
      PROVE  pc'[h] = "idle" /\ period'[h] = None
             /\ (g # h => UNCHANGED <<pc[g], period[g], stamp[g]>>)
  BY <1>1 DEF Answer
<1>2. CASE UNCHANGED <<pc[g], period[g], stamp[g]>>
  BY <1>0, <1>2, ConstantsAssumption DEF Periods
<1>3. CASE \E h \in Handlers : \E k, r : Answer(h, k, r)
  BY <1>1, <1>2, <1>3
<1>4. ASSUME NEW h \in Handlers, NEW k \in Keys, NEW endpoint \in Kinds, NEW at \in Stamps,
             Receive(h, k, endpoint, at)
      PROVE  Goal
  BY <1>2, <1>4 DEF Receive
<1>5. ASSUME NEW h \in Handlers, Allow(h)
      PROVE  Goal
  BY <1>0, <1>2, <1>5 DEF Allow, PeriodOf
<1>6. ASSUME NEW h \in Handlers, ReadCounter(h)
      PROVE  Goal
  BY <1>2, <1>6 DEF ReadCounter
<1>7. CASE MonthEnds \/ PlanChanges \/ UNCHANGED vars
  BY <1>2, <1>7 DEF MonthEnds, PlanChanges, vars
<1> QED
  BY <1>3, <1>4, <1>5, <1>6, <1>7 DEF Next, ReceiveKnown, Deny, RecordUsage, Conflict, Fail

(* A usage is recorded in the month it was checked for, unless its request *)
(* is undated and a month has ended since (_record_usage).                 *)
THEOREM CheckedAndRecorded == Spec => RecordedWhereChecked
<1> DEFINE Step == \A h \in Handlers :
                     pc[h] = "read" /\ pc'[h] = "write" /\ period[h] # None =>
                       period'[h] = period[h] \/ (stamp[h] = Now /\ period[h] < period'[h])
<1>1. ASSUME TypeOK, CheckedMonth, [Next]_vars
      PROVE  Step
  <2> SUFFICES ASSUME NEW g \in Handlers, pc[g] = "read", pc'[g] = "write", period[g] # None
               PROVE  period'[g] = period[g] \/ (stamp[g] = Now /\ period[g] < period'[g])
    OBVIOUS
  <2>1. ReadCounter(g)
    BY <1>1 DEF TypeOK, Next, vars, request, session, ReceiveKnown, Receive, Deny, Allow,
        ReadCounter, RecordUsage, Conflict, Fail, MonthEnds, PlanChanges, Answer
  <2>2. period'[g] = PeriodOf(g)
    BY <1>1, <2>1 DEF ReadCounter, TypeOK
  <2>3. period[g] \in Int /\ month \in Int
    BY <1>1, ConstantsAssumption DEF TypeOK, Periods
  <2> QED
    BY <1>1, <2>2, <2>3 DEF PeriodOf, CheckedMonth
<1>2. Init => CheckedMonth
  BY DEF Init, CheckedMonth
<1>3. TypeOK /\ SessionsOpen /\ CheckedMonth /\ [Next]_vars
      => (TypeOK /\ SessionsOpen /\ CheckedMonth)'
  BY TypeNext, CheckedMonthNext
<1>4. TypeOK /\ SessionsOpen /\ CheckedMonth /\ [Next]_vars => [Step]_vars
  BY <1>1
<1> QED
  BY TypeInit, <1>2, <1>3, <1>4, PTL DEF Spec, RecordedWhereChecked

-----------------------------------------------------------------------------
(* Finitely many keys have an event, each of one month, and consumption is *)
(* theirs.                                                                 *)
EventsOf(p) == {k \in Keys : events[k] = p}

KeysInv ==
  /\ TypeOK
  /\ SessionsOpen
  /\ \A p \in Periods : IsFiniteSet(EventsOf(p))
  /\ ConsumedOncePerKey

(* A usage recorded adds its key to the events of its month.               *)
LEMMA KeysNext ==
  ASSUME KeysInv, [Next]_vars
  PROVE  KeysInv'
<1>0. TypeOK' /\ SessionsOpen'
  BY TypeNext DEF KeysInv
<1>1. CASE UNCHANGED books
  BY <1>0, <1>1 DEF KeysInv, EventsOf, ConsumedOncePerKey, books
<1>2. ASSUME NEW h \in Handlers, RecordUsage(h)
      PROVE  KeysInv'
  <2>0. PICK k \in Keys, q \in Periods : k = key[h] /\ q = period[h]
    BY <1>2 DEF RecordUsage, KeysInv, SessionsOpen
  <2>1. k \in Keys /\ q \in Periods /\ events[k] = None /\ None \notin Periods
    BY <1>2, <2>0, ConstantsAssumption DEF RecordUsage, KeyCollides, Periods
  <2>2. /\ events' = [events EXCEPT ![k] = q]
        /\ consumed' = [consumed EXCEPT ![q] = @ + AmountOf[k]]
    BY <1>2, <2>0 DEF RecordUsage
  <2>3. events \in [Keys -> Periods \cup {None}] /\ consumed \in [Periods -> Nat]
    BY DEF KeysInv, TypeOK
  <2>4. EventsOf(q)' = EventsOf(q) \cup {k} /\ k \notin EventsOf(q)
    BY <2>1, <2>2, <2>3 DEF EventsOf
  <2>5. ASSUME NEW p \in Periods, p # q PROVE EventsOf(p)' = EventsOf(p)
    <3>1. \A j \in Keys : events'[j] = p <=> events[j] = p
      BY <2>1, <2>2, <2>3, <2>5
    <3> QED
      BY <3>1 DEF EventsOf
  <2>6. ASSUME NEW p \in Periods PROVE IsFiniteSet(EventsOf(p)')
    <3>1. IsFiniteSet(EventsOf(p))
      BY DEF KeysInv
    <3> QED
      BY <2>4, <2>5, <3>1, FS_AddElement
  <2>7. \A j \in Keys : AmountOf[j] \in Int
    BY ConstantsAssumption
  <2>8. SumFunctionOnSet(AmountOf, EventsOf(q) \cup {k})
          = SumFunctionOnSet(AmountOf, EventsOf(q)) + AmountOf[k]
    BY <2>1, <2>4, <2>7, SumWithOneMore DEF KeysInv, EventsOf
  <2>9. \A p \in Periods : consumed[p] = SumFunctionOnSet(AmountOf, EventsOf(p))
    BY DEF KeysInv, ConsumedOncePerKey, EventsOf
  <2>10. ASSUME NEW p \in Periods PROVE consumed'[p] = SumFunctionOnSet(AmountOf, EventsOf(p)')
    <3>1. CASE p = q
      <4>1. consumed'[q] = consumed[q] + AmountOf[k]
        BY <2>1, <2>2, <2>3
      <4> QED
        BY <2>1, <2>4, <2>8, <2>9, <3>1, <4>1
    <3>2. CASE p # q
      BY <2>2, <2>3, <2>5, <2>9, <3>2
    <3> QED
      BY <3>1, <3>2
  <2>11. ConsumedOncePerKey'
    BY <2>10 DEF ConsumedOncePerKey, EventsOf
  <2> QED
    BY <1>0, <2>6, <2>11 DEF KeysInv
<1> QED
  BY <1>1, <1>2, BookKeeping

(* However often and concurrently a key is sent, it consumes once: what a  *)
(* month has consumed is the sum of the amounts of its distinct keys.      *)
THEOREM ConsumedOnce == Spec => []ConsumedOncePerKey
<1>1. Init => KeysInv
  <2> SUFFICES ASSUME Init PROVE KeysInv
    OBVIOUS
  <2>1. \A p \in Periods : EventsOf(p) = {} /\ consumed[p] = 0
    BY ConstantsAssumption DEF Init, EventsOf, Periods
  <2>2. \A p \in Periods : IsFiniteSet(EventsOf(p)) /\ SumFunctionOnSet(AmountOf, EventsOf(p)) = 0
    BY <2>1, FS_EmptySet, SumOfNone
  <2> QED
    BY <2>1, <2>2, TypeInit DEF KeysInv, ConsumedOncePerKey, EventsOf
<1>2. KeysInv /\ [Next]_vars => KeysInv'
  BY KeysNext
<1>3. KeysInv => ConsumedOncePerKey
  BY DEF KeysInv
<1> QED
  BY <1>1, <1>2, <1>3, PTL DEF Spec

-----------------------------------------------------------------------------
(* The tables are what the seed, the scripts and the operators write; a    *)
(* subscription needs a plan, so it comes after the seed; and the usage is *)
(* told what the tables say.                                               *)
TablesTypeOK ==
  /\ subscriptions \in Seq(Subscriptions)
  /\ plan_features \in [Plans -> Rows \cup {None}]
  /\ seeded \in BOOLEAN
  /\ subscriptions # <<>> => seeded

TablesInv ==
  /\ TablesTypeOK
  /\ access = AccessOf /\ limit = LimitOf
  /\ Unlimited \in Limits

(* The newest subscription is a row of the table, and says nothing but an  *)
(* access and a limit.                                                     *)
LEMMA NewestSubscription ==
  TablesTypeOK =>
    IF subscriptions = <<>> THEN get_subscription_for_tenant = None
    ELSE /\ get_subscription_for_tenant \in Subscriptions
         /\ get_subscription_for_tenant # None
         /\ plan_features[get_subscription_for_tenant.plan] \in Rows \cup {None}
<1> SUFFICES ASSUME TablesTypeOK, subscriptions # <<>>
             PROVE  /\ subscriptions[Len(subscriptions)] \in Subscriptions
                    /\ plan_features[subscriptions[Len(subscriptions)].plan] \in Rows \cup {None}
  BY EntitlementAssumption DEF get_subscription_for_tenant
<1>1. subscriptions[Len(subscriptions)] \in Subscriptions
  BY DEF TablesTypeOK
<1> QED
  BY <1>1 DEF TablesTypeOK, Subscriptions

LEMMA ToldTyped ==
  TablesTypeOK /\ Unlimited \in Limits =>
    AccessOf \in Accesses /\ LimitOf \in Limits
<1> SUFFICES ASSUME TablesTypeOK, Unlimited \in Limits
             PROVE  AccessOf \in Accesses /\ LimitOf \in Limits
  OBVIOUS
<1>1. AccessOf \in Accesses
  BY DEF AccessOf, Accesses
<1>2. CASE subscriptions = <<>>
  <2>1. get_subscription_for_tenant = None
    BY <1>2 DEF get_subscription_for_tenant
  <2> QED
    BY <1>1, <2>1 DEF LimitOf
<1>3. CASE subscriptions # <<>>
  <2>1. /\ get_subscription_for_tenant # None
        /\ plan_features[get_subscription_for_tenant.plan] \in Rows \cup {None}
    BY <1>3, NewestSubscription
  <2> QED
    BY <1>1, <2>1 DEF LimitOf, Rows
<1> QED
  BY <1>1, <1>2, <1>3

(* What a handler does leaves the tables and what is told of them alone.   *)
LEMMA ServesIsUsage ==
  ASSUME Serves
  PROVE  Next /\ UNCHANGED plan
BY DEF Serves, Next, plan, MonthEnds, ReceiveKnown, Receive, Deny, Allow, ReadCounter,
    RecordUsage, Conflict, Fail

(* Every write of the tables keeps their types. *)
LEMMA TablesKeepTypes ==
  ASSUME TablesTypeOK, TablesChange
  PROVE  TablesTypeOK' /\ UsageIsTold /\ UNCHANGED usage
<1> USE EntitlementAssumption DEF TablesTypeOK
<1>1. CASE Seed
  <2>1. \A p \in Plans : SeededRow(p) \in Rows \cup {None}
    BY DEF SeededRow
  <2> QED
    BY <1>1, <2>1 DEF Seed
<1>2. ASSUME NEW s \in Statuses, NEW p \in Plans, Subscribe(s, p)
      PROVE  TablesTypeOK' /\ UsageIsTold /\ UNCHANGED usage
  <2>1. [status |-> s, plan |-> p, ended |-> FALSE] \in Subscriptions
    BY DEF Subscriptions
  <2> QED
    BY <1>2, <2>1 DEF Subscribe
<1>3. ASSUME NEW n \in DOMAIN subscriptions, NEW s \in Statuses, StatusChanges(n, s)
      PROVE  TablesTypeOK' /\ UsageIsTold /\ UNCHANGED usage
  <2>0. subscriptions[n] \in Subscriptions
    OBVIOUS
  <2>1. [subscriptions[n] EXCEPT !.status = s] \in Subscriptions
    BY <2>0 DEF Subscriptions
  <2>2. subscriptions' \in Seq(Subscriptions)
    BY <1>3, <2>1 DEF StatusChanges
  <2> QED
    BY <1>3, <2>2 DEF StatusChanges
<1>4. ASSUME NEW n \in DOMAIN subscriptions, NEW ended \in BOOLEAN, PeriodEndsOrRenews(n, ended)
      PROVE  TablesTypeOK' /\ UsageIsTold /\ UNCHANGED usage
  <2>0. subscriptions[n] \in Subscriptions
    OBVIOUS
  <2>1. [subscriptions[n] EXCEPT !.ended = ended] \in Subscriptions
    BY <2>0 DEF Subscriptions
  <2>2. subscriptions' \in Seq(Subscriptions)
    BY <1>4, <2>1 DEF PeriodEndsOrRenews
  <2> QED
    BY <1>4, <2>2 DEF PeriodEndsOrRenews
<1>5. ASSUME NEW p \in Plans, NEW row \in EditedRows, EditPlan(p, row)
      PROVE  TablesTypeOK' /\ UsageIsTold /\ UNCHANGED usage
  BY <1>5 DEF EditPlan
<1> QED
  BY <1>1, <1>2, <1>3, <1>4, <1>5 DEF TablesChange

LEMMA TablesInit == ASSUME BillingInit PROVE TablesInv
<1>1. TablesTypeOK
  <2>1. <<>> \in Seq(Subscriptions)
    OBVIOUS
  <2>2. [p \in Plans |-> None] \in [Plans -> Rows \cup {None}]
    OBVIOUS
  <2> QED
    BY <2>1, <2>2 DEF BillingInit, TablesTypeOK
<1>2. limit = Unlimited /\ limit \in Limits
  BY DEF BillingInit, Init, LimitOf, get_subscription_for_tenant
<1> QED
  BY <1>1, <1>2 DEF TablesInv, BillingInit

(* Every step keeps the tables and what is told of them in agreement. *)
LEMMA TablesNext ==
  ASSUME TablesInv, [BillingNext]_<<vars, tables>>
  PROVE  TablesInv'
<1>1. CASE TablesChange
  BY <1>1, TablesKeepTypes DEF TablesInv, UsageIsTold
<1>2. ASSUME UNCHANGED <<plan, tables>>
      PROVE  TablesInv'
  BY <1>2 DEF TablesInv, TablesTypeOK, plan, tables, AccessOf, LimitOf,
      get_subscription_for_tenant, subscription_denial_reason, RowEnabled
<1>3. CASE Serves /\ UNCHANGED tables
  BY <1>2, <1>3, ServesIsUsage
<1>4. CASE UNCHANGED <<vars, tables>>
  BY <1>2, <1>4 DEF vars
<1> QED
  BY <1>1, <1>3, <1>4 DEF BillingNext

(* A change of the tables is, for the usage, a change of the plan. *)
LEMMA TablesChangeThePlan ==
  ASSUME TablesInv, TablesInv', [BillingNext]_<<vars, tables>>
  PROVE  [Next]_vars
<1>1. CASE TablesChange
  <2>1. UNCHANGED usage
    BY <1>1, TablesKeepTypes DEF TablesInv
  <2>2. access' \in Accesses /\ limit' \in Limits
    <3>1. (TablesTypeOK /\ Unlimited \in Limits)'
      BY DEF TablesInv
    <3>2. (TablesTypeOK /\ Unlimited \in Limits)'
          => (AccessOf \in Accesses /\ LimitOf \in Limits)'
      BY ToldTyped, PTL
    <3> QED
      BY <3>1, <3>2 DEF TablesInv
  <2>3. PlanChanges
    BY <2>1, <2>2 DEF PlanChanges, usage
  <2> QED
    BY <2>3 DEF Next
<1>2. CASE Serves /\ UNCHANGED tables
  BY <1>2, ServesIsUsage
<1>3. CASE UNCHANGED <<vars, tables>>
  BY <1>3
<1> QED
  BY <1>1, <1>2, <1>3 DEF BillingNext

(* The tables drive the usage: with subscriptions, plans and the seed in   *)
(* place of an arbitrary access and limit, every behaviour is one of       *)
(* BillingUsage, so what is proved of it holds with the tables too.        *)
THEOREM TablesDriveUsage == BillingSpec => Spec
<1>1. BillingInit => Init /\ TablesInv
  BY TablesInit DEF BillingInit
<1>2. TablesInv /\ [BillingNext]_<<vars, tables>> => TablesInv'
  BY TablesNext
<1>3. TablesInv /\ TablesInv' /\ [BillingNext]_<<vars, tables>> => [Next]_vars
  BY TablesChangeThePlan
<1> QED
  BY <1>1, <1>2, <1>3, PTL DEF BillingSpec, Spec

(* Answers, counters and keys with the tables. *)
COROLLARY UsageWithTables ==
  BillingSpec => [](TypeOK /\ AnswersAreTrue /\ NeverOvercounted /\ ConsumedOncePerKey)
BY TablesDriveUsage, Typing, TrueAnswers, NoOvercount, ConsumedOnce, PTL

LEMMA TablesInvariance == BillingSpec => []TablesInv
<1>1. BillingInit => TablesInv
  BY TablesInit
<1>2. TablesInv /\ [BillingNext]_<<vars, tables>> => TablesInv'
  BY TablesNext
<1> QED
  BY <1>1, <1>2, PTL DEF BillingSpec

-----------------------------------------------------------------------------
(* The check of an amount and what is shown as remaining are the same      *)
(* comparison.                                                             *)
LEMMA RemainingIsRoom ==
  ASSUME NEW limit_value \in Limits, NEW used \in Nat, NEW amount \in Nat \ {0}
  PROVE  /\ calculate_remaining(limit_value, used) \in Nat \cup {None}
         /\ ~(limit_value # Unlimited /\ used + amount > limit_value) <=>
              \/ calculate_remaining(limit_value, used) = None
              \/ amount <= calculate_remaining(limit_value, used)
<1>1. used # None /\ (limit_value = Unlimited \/ limit_value \in Nat)
  BY ConstantsAssumption
<1>2. CASE limit_value = Unlimited
  BY <1>2 DEF calculate_remaining
<1>3. CASE limit_value # Unlimited
  <2>1. limit_value \in Nat
    BY <1>1, <1>3
  <2>2. calculate_remaining(limit_value, used)
          = IF limit_value >= used THEN limit_value - used ELSE 0
    BY <1>1, <1>3 DEF calculate_remaining
  <2>3. calculate_remaining(limit_value, used) \in Nat
    BY <2>1, <2>2
  <2>4. calculate_remaining(limit_value, used) # None
    BY <2>3, ConstantsAssumption
  <2>5. amount <= calculate_remaining(limit_value, used) <=> used + amount <= limit_value
    BY <2>1, <2>2
  <2> QED
    BY <1>3, <2>1, <2>3, <2>4, <2>5
<1> QED
  BY <1>2, <1>3

(* A subscription is denied unless it has not ended and its status is, in  *)
(* lower case, an active one; what is shown for its status takes the       *)
(* stored text.                                                            *)
LEMMA DeniedOrActive ==
  ASSUME NEW s \in Subscriptions
  PROVE  /\ subscription_denial_reason(s) = None <=>
              ~s.ended /\ Lower[s.status] \in ACTIVE_SUBSCRIPTION_STATUSES
         /\ subscription_denial_reason(s) # None => subscription_denial_reason(s) \in Denials
         /\ effective_subscription_status(s) \in ACTIVE_SUBSCRIPTION_STATUSES <=>
              /\ subscription_denial_reason(s) = None
              /\ s.status \in ACTIVE_SUBSCRIPTION_STATUSES
<1> USE EntitlementAssumption
<1> DEFINE d == subscription_denial_reason(s)
           status == Lower[s.status]
<1>1. s.ended \in BOOLEAN
  BY DEF Subscriptions
<1>2. ~s.ended /\ status \in ACTIVE_SUBSCRIPTION_STATUSES => d = None
  BY DEF subscription_denial_reason, ACTIVE_SUBSCRIPTION_STATUSES, CANCELLED_SUBSCRIPTION_STATUSES,
     PAYMENT_REQUIRED_SUBSCRIPTION_STATUSES
<1>3. ~(~s.ended /\ status \in ACTIVE_SUBSCRIPTION_STATUSES) => d \in Denials
  BY <1>1 DEF subscription_denial_reason, Denials
<1>4. None \notin Denials /\ \A e \in Denials : e \notin ACTIVE_SUBSCRIPTION_STATUSES
  BY DEF Denials, ACTIVE_SUBSCRIPTION_STATUSES
<1> HIDE DEF d, status
<1>5. d = None <=> ~s.ended /\ status \in ACTIVE_SUBSCRIPTION_STATUSES
  BY <1>2, <1>3, <1>4
<1>6. effective_subscription_status(s) \in ACTIVE_SUBSCRIPTION_STATUSES <=>
        d = None /\ s.status \in ACTIVE_SUBSCRIPTION_STATUSES
  <2>1. effective_subscription_status(s) = IF d # None THEN d ELSE s.status
    BY DEF effective_subscription_status, d
  <2> QED
    BY <2>1, <1>3, <1>4, <1>5
<1> QED
  BY <1>3, <1>5, <1>6 DEF d, status

(* What the check answers, on the tables as they are. *)
LEMMA CheckAllows ==
  ASSUME TablesTypeOK, NEW type \in Types, NEW amount, NEW count
  PROVE  _check_entitlement(type, amount, count) = Allowed <=>
           /\ subscriptions # <<>>
           /\ subscription_denial_reason(get_subscription_for_tenant) = None
           /\ plan_features[get_subscription_for_tenant.plan] # None
           /\ plan_features[get_subscription_for_tenant.plan].enabled
           /\ ~OverLimit(type, plan_features[get_subscription_for_tenant.plan], amount, count)
<1> DEFINE s == get_subscription_for_tenant
           row == plan_features[s.plan]
<1>1. CASE subscriptions = <<>>
  <2>1. s = None
    BY <1>1 DEF get_subscription_for_tenant
  <2>2. _check_entitlement(type, amount, count) = "subscription_not_found"
    BY <2>1 DEF _check_entitlement
  <2> QED
    BY <1>1, <2>2 DEF Allowed
<1>2. CASE subscriptions # <<>>
  <2>1. s \in Subscriptions /\ s # None /\ row \in Rows \cup {None} /\ seeded
    BY <1>2, NewestSubscription DEF TablesTypeOK
  <2> HIDE DEF s
  <2>2. CASE subscription_denial_reason(s) # None
    <3>1. _check_entitlement(type, amount, count) = subscription_denial_reason(s)
      BY <2>1, <2>2 DEF _check_entitlement, s
    <3>2. subscription_denial_reason(s) \in Denials
      BY <2>1, <2>2, DeniedOrActive
    <3>3. subscription_denial_reason(s) # Allowed
      BY <3>2 DEF Denials, Allowed
    <3> QED
      BY <2>2, <3>1, <3>3 DEF s
  <2>3. CASE subscription_denial_reason(s) = None
    <3>1. _check_entitlement(type, amount, count)
            = IF ~RowEnabled(row) THEN "feature_not_enabled"
              ELSE IF OverLimit(type, row, amount, count)
                   THEN IF type = "monthly_usage" THEN "quota_exceeded" ELSE "resource_limit_exceeded"
              ELSE Allowed
      BY <2>1, <2>3 DEF _check_entitlement, s
    <3> QED
      BY <1>2, <2>3, <3>1 DEF RowEnabled, Allowed, s
  <2> QED
    BY <2>2, <2>3
<1> QED
  BY <1>1, <1>2

(* GET status and the check read the tables along different paths: what is *)
(* shown as enabled and remaining the check allows, and it allows nothing  *)
(* else but to a subscription whose stored status is not in lower case.    *)
THEOREM StatusIsTrue == BillingSpec => []StatusAgreesWithCheck
<1>1. ASSUME TypeOK, TablesInv
      PROVE  StatusAgreesWithCheck
  <2> SUFFICES ASSUME NEW type \in Types, NEW k \in Keys, NEW count \in {None} \cup ResourceCounts
               PROVE  LET s == get_subscription_for_tenant
                          shown == get_tenant_status(type)
                          shownAvailable ==
                            /\ shown # None
                            /\ shown.enabled
                            /\ type = "monthly_usage" =>
                                  shown.remaining = None \/ AmountOf[k] <= shown.remaining
                            /\ type = "resource_limit" =>
                                  shown.limit = Unlimited \/ (count # None /\ count <= shown.limit)
                          allowed == _check_entitlement(type, AmountOf[k], count) = Allowed
                      IN  /\ shownAvailable => allowed
                          /\ allowed => shownAvailable \/ Lower[s.status] # s.status
    BY DEF StatusAgreesWithCheck
  <2> DEFINE s == get_subscription_for_tenant
             row == plan_features[s.plan]
             shown == get_tenant_status(type)
             amount == AmountOf[k]
             allowed == _check_entitlement(type, amount, count) = Allowed
             fits == /\ type = "monthly_usage" =>
                          shown.remaining = None \/ amount <= shown.remaining
                     /\ type = "resource_limit" =>
                          shown.limit = Unlimited \/ (count # None /\ count <= shown.limit)
  <2>1. amount \in Nat \ {0} /\ Used(month) \in Nat
    BY <1>1, ConstantsAssumption DEF TypeOK, Used, Counts, Periods
  <2>2. allowed <=>
          /\ subscriptions # <<>>
          /\ subscription_denial_reason(s) = None
          /\ row # None
          /\ row.enabled
          /\ ~OverLimit(type, row, amount, count)
    BY <1>1, CheckAllows DEF TablesInv
  <2>3. CASE subscriptions = <<>> \/ row = None
    <3>1. shown = None
      BY <2>3 DEF get_tenant_status, get_subscription_for_tenant
    <3> QED
      BY <2>2, <2>3, <3>1
  <2>4. CASE subscriptions # <<>> /\ row # None
    <3>1. s \in Subscriptions /\ s # None /\ row \in Rows
      BY <1>1, <2>4, NewestSubscription DEF TablesInv
    <3>2. row.limit_value \in Limits /\ row.enabled \in BOOLEAN
      BY <3>1 DEF Rows
    <3> DEFINE remaining == calculate_remaining(row.limit_value, Used(month))
    <3>3. shown = [enabled |-> EnabledNow(row, s), limit |-> row.limit_value,
                   remaining |-> IF type = "monthly_usage" THEN remaining ELSE None]
      BY <2>4, <3>1 DEF get_tenant_status
    <3>4. /\ remaining \in Nat \cup {None}
          /\ ~(row.limit_value # Unlimited /\ Used(month) + amount > row.limit_value) <=>
                remaining = None \/ amount <= remaining
      BY <2>1, <3>2, RemainingIsRoom
    <3>5. EnabledNow(row, s) \in BOOLEAN
      BY <3>2 DEF EnabledNow
    <3>6. /\ EnabledNow(row, s) <=>
               /\ row.enabled
               /\ subscription_denial_reason(s) = None
               /\ s.status \in ACTIVE_SUBSCRIPTION_STATUSES
          /\ subscription_denial_reason(s) = None => Lower[s.status] \in ACTIVE_SUBSCRIPTION_STATUSES
      BY <3>1, DeniedOrActive DEF EnabledNow
    <3> HIDE DEF remaining, shown, amount, row, s
    <3>7. shown \in Shown
      BY <3>2, <3>3, <3>4, <3>5 DEF Shown
    <3>8. /\ shown # None /\ shown.enabled = EnabledNow(row, s) /\ shown.limit = row.limit_value
          /\ type = "monthly_usage" => shown.remaining = remaining
      BY <3>3, <3>7, EntitlementAssumption
    <3>9. ~OverLimit(type, row, amount, count) <=> fits
      <4>1. row.limit_value # Unlimited /\ count # None =>
              (count > row.limit_value <=> ~(count <= row.limit_value))
        <5>1. row.limit_value # Unlimited => row.limit_value \in Nat
          BY <3>2, ConstantsAssumption
        <5>2. count # None => count \in Nat
          BY EntitlementAssumption
        <5> QED
          BY <5>1, <5>2
      <4> QED
        BY <3>4, <3>8, <4>1 DEF OverLimit, Types
    <3> HIDE DEF fits, allowed
    <3>10. /\ shown # None /\ shown.enabled /\ fits => allowed
           /\ allowed => (shown # None /\ shown.enabled /\ fits) \/ Lower[s.status] # s.status
      BY <2>2, <2>4, <3>6, <3>8, <3>9
    <3> QED
      BY <3>10 DEF shown, amount, s, fits, allowed
  <2> QED
    BY <2>3, <2>4
<1> QED
  BY <1>1, TablesInvariance, UsageWithTables, PTL

(* The access and the limit that the usage is told, in words of the check  *)
(* and of _current_monthly_limit.                                          *)
LEMMA ToldIsChecked ==
  ASSUME TablesInv
  PROVE  /\ Entitled <=>
              /\ subscriptions # <<>>
              /\ subscription_denial_reason(get_subscription_for_tenant) = None
              /\ RowEnabled(plan_features[get_subscription_for_tenant.plan])
         /\ Entitled => limit = plan_features[get_subscription_for_tenant.plan].limit_value
         /\ CurrentLimit = _current_monthly_limit
<1> DEFINE s == get_subscription_for_tenant
           row == plan_features[s.plan]
           entitled == subscription_denial_reason(s) = None /\ RowEnabled(row)
<1>1. CASE subscriptions = <<>>
  <2>1. s = None
    BY <1>1 DEF get_subscription_for_tenant
  <2>2. access = "inactive" /\ _current_monthly_limit = Unlimited
    BY <2>1 DEF TablesInv, AccessOf, _current_monthly_limit
  <2> QED
    BY <1>1, <2>2 DEF CurrentLimit, Entitled
<1>2. CASE subscriptions # <<>>
  <2>1. s \in Subscriptions /\ s # None
    BY <1>2, NewestSubscription DEF TablesInv
  <2>2. access = IF s.status \in ACTIVE_SUBSCRIPTION_STATUSES
                 THEN IF entitled THEN "active" ELSE "disabled"
                 ELSE IF entitled THEN "miscased" ELSE "inactive"
    BY <2>1 DEF TablesInv, AccessOf
  <2>3. limit = IF row = None THEN Unlimited ELSE row.limit_value
    BY <2>1 DEF TablesInv, LimitOf
  <2>4. _current_monthly_limit
          = IF s.status \notin ACTIVE_SUBSCRIPTION_STATUSES THEN Unlimited
            ELSE IF row = None THEN Unlimited ELSE row.limit_value
    BY <2>1 DEF _current_monthly_limit
  <2>5. entitled => row # None
    BY DEF RowEnabled
  <2> HIDE DEF s, row, entitled
  <2>6. CurrentLimit = _current_monthly_limit
    BY <2>2, <2>3, <2>4 DEF CurrentLimit
  <2>7. Entitled <=> entitled
    BY <2>2 DEF Entitled
  <2>8. Entitled => limit = row.limit_value
    BY <2>3, <2>5, <2>7
  <2> QED
    BY <1>2, <2>6, <2>7, <2>8 DEF s, row, entitled
<1> QED
  BY <1>1, <1>2

-----------------------------------------------------------------------------
(* An increment lost is lost for good: a session whose counter is the whole*)
(* consumption has the stored counter in hand.                             *)
SeenBy(h) == IF seen[h] = None THEN 0 ELSE seen[h]

WholeIsStored ==
  \A h \in Handlers :
    pc[h] = "write" /\ SeenBy(h) = consumed[period[h]] => Used(period[h]) = consumed[period[h]]

(* What is recorded on such a counter goes on top of all that was consumed. *)
LEMMA RecordedOnTop ==
  ASSUME CountInv, WholeIsStored, NEW h \in Handlers, RecordUsage(h),
         NEW p, p = period[h], NEW a, a = AmountOf[key[h]]
  PROVE  /\ p \in Periods /\ a \in Nat \ {0}
         /\ consumed' = [consumed EXCEPT ![p] = consumed[p] + a]
         /\ counter' = [counter EXCEPT ![p] = SeenBy(h) + a]
         /\ consumed[p] \in Nat /\ SeenBy(h) \in Nat /\ SeenBy(h) <= consumed[p]
         /\ consumed'[p] = consumed[p] + a
         /\ Used(p)' = SeenBy(h) + a
         /\ Used(p)' = consumed'[p] => Used(p) = consumed[p] /\ Used(p)' = Used(p) + a
<1>1. p \in Periods /\ a \in Nat \ {0} /\ pc[h] = "write"
  BY ConstantsAssumption DEF RecordUsage, CountInv, SessionsOpen
<1>2. consumed[p] \in Nat /\ SeenBy(h) \in Nat /\ SeenBy(h) <= consumed[p]
  BY <1>1 DEF CountInv, TypeOK, SeenWasConsumed, SeenBy, Counts
<1>3. /\ consumed' = [consumed EXCEPT ![p] = consumed[p] + a]
      /\ counter' = [counter EXCEPT ![p] = SeenBy(h) + a]
  BY DEF RecordUsage, Increased, SeenBy
<1>4. consumed'[p] = consumed[p] + a /\ counter'[p] = SeenBy(h) + a
  BY <1>1, <1>3 DEF CountInv, TypeOK
<1>5. Used(p)' = SeenBy(h) + a
  <2>1. (SeenBy(h) + a) \in Nat
    BY <1>1, <1>2
  <2>2. (SeenBy(h) + a) # None
    BY <2>1, ConstantsAssumption
  <2> QED
    BY <1>4, <2>2 DEF Used
<1>6. Used(p)' = consumed'[p] => SeenBy(h) = consumed[p]
  BY <1>1, <1>2, <1>4, <1>5
<1>7. SeenBy(h) = consumed[p] => Used(p) = consumed[p]
  BY <1>1 DEF WholeIsStored
<1> QED
  BY <1>1, <1>2, <1>3, <1>4, <1>5, <1>6, <1>7

(* Every step keeps it so. *)
LEMMA WholeNext ==
  ASSUME CountInv, WholeIsStored, [Next]_vars
  PROVE  WholeIsStored'
<1> SUFFICES ASSUME NEW g \in Handlers, pc'[g] = "write",
                    NEW q, q = period'[g], SeenBy(g)' = consumed'[q]
             PROVE  Used(q)' = consumed'[q]
  BY DEF WholeIsStored
<1> USE DEF CountInv, TypeOK, SessionsOpen, plan, books, request, session, answers
<1>1. CASE /\ UNCHANGED books
           /\ UNCHANGED <<pc[g], period[g], seen[g]>>
  <2>1. SeenBy(g)' = SeenBy(g) /\ Used(q)' = Used(q) /\ consumed' = consumed
    BY <1>1 DEF SeenBy, Used
  <2> QED
    BY <1>1, <2>1 DEF WholeIsStored
<1>2. ASSUME NEW h \in Handlers, NEW k, NEW r, Answer(h, k, r)
      PROVE  h # g /\ UNCHANGED <<pc[g], period[g], seen[g]>>
  BY <1>2 DEF Answer
<1>3. ASSUME NEW h \in Handlers, NEW k \in Keys, ReceiveKnown(h, k)
      PROVE  Used(q)' = consumed'[q]
  BY <1>1, <1>2, <1>3 DEF ReceiveKnown
<1>4. ASSUME NEW h \in Handlers, Deny(h) \/ Conflict(h) \/ Fail(h)
      PROVE  Used(q)' = consumed'[q]
  BY <1>1, <1>2, <1>4 DEF Deny, Conflict, Fail
<1>5. ASSUME NEW h \in Handlers, NEW k \in Keys, NEW endpoint \in Kinds, NEW at \in Stamps,
             Receive(h, k, endpoint, at)
      PROVE  Used(q)' = consumed'[q]
  BY <1>1, <1>5 DEF Receive
<1>6. ASSUME NEW h \in Handlers, Allow(h)
      PROVE  Used(q)' = consumed'[q]
  BY <1>1, <1>6 DEF Allow
<1>7. ASSUME NEW h \in Handlers, ReadCounter(h)
      PROVE  Used(q)' = consumed'[q]
  <2>1. CASE h = g
    <3>1. q = PeriodOf(g) /\ seen'[g] = counter[q] /\ counter' = counter
      BY <1>7, <2>1 DEF ReadCounter
    <3>2. SeenBy(g)' = Used(q)'
      BY <3>1 DEF SeenBy, Used
    <3> QED
      BY <3>2
  <2>2. CASE h # g
    BY <1>1, <1>7, <2>2 DEF ReadCounter
  <2> QED
    BY <2>1, <2>2
<1>8. ASSUME NEW h \in Handlers, RecordUsage(h)
      PROVE  Used(q)' = consumed'[q]
  <2>0. PICK p, a : p = period[h] /\ a = AmountOf[key[h]]
    OBVIOUS
  <2>1. h # g /\ UNCHANGED <<pc[g], period[g], seen[g]>>
    BY <1>2, <1>8 DEF RecordUsage
  <2>2. /\ p \in Periods /\ a \in Nat \ {0}
        /\ consumed' = [consumed EXCEPT ![p] = consumed[p] + a]
        /\ counter' = [counter EXCEPT ![p] = SeenBy(h) + a]
        /\ consumed[p] \in Nat
    BY <1>8, <2>0, RecordedOnTop
  <2>3. SeenBy(g)' = SeenBy(g) /\ q = period[g] /\ q \in Periods
    BY <2>1 DEF SeenBy
  <2>4. CASE q = p
    <3>1. SeenBy(g) \in Nat /\ SeenBy(g) <= consumed[q]
      BY <2>1, <2>3 DEF SeenWasConsumed, SeenBy, Counts
    <3>2. consumed'[q] = consumed[q] + a
      BY <2>2, <2>4
    <3> QED
      BY <2>2, <2>3, <2>4, <3>1, <3>2
  <2>5. CASE q # p
    <3>1. consumed'[q] = consumed[q] /\ counter'[q] = counter[q]
      BY <2>2, <2>3, <2>5
    <3>2. Used(q)' = Used(q)
      BY <3>1 DEF Used
    <3> QED
      BY <2>1, <2>3, <3>1, <3>2 DEF WholeIsStored
  <2> QED
    BY <2>4, <2>5
<1>9. CASE MonthEnds \/ PlanChanges \/ UNCHANGED vars
  BY <1>1, <1>9 DEF MonthEnds, PlanChanges, vars
<1> QED
  BY <1>3, <1>4, <1>5, <1>6, <1>7, <1>8, <1>9 DEF Next

-----------------------------------------------------------------------------
(* With u used and the handlers P about to record, each at its cost: some  *)
(* handler of P still fits when every handler that is not in P has used an *)
(* amount above the limit L, and when nobody is about to record, what is   *)
(* used is within L and an amount for each handler but one.                *)
Fits(u, P, cost, L, amount) ==
  IF P = {} THEN u <= L + amount * (Cardinality(Handlers) - 1)
  ELSE \E g \in P : u + cost[g] <= L + amount * Cardinality(Handlers \ P)

(* A handler that has been let in fits. *)
LEMMA FitsWhenLetIn ==
  ASSUME IsFiniteSet(Handlers), NEW P \in SUBSET Handlers, NEW h \in P, NEW cost,
         NEW u \in Nat, NEW L \in Nat, NEW amount \in Nat, cost[h] \in Nat, u + cost[h] <= L
  PROVE  Fits(u, P, cost, L, amount)
<1>1. Cardinality(Handlers \ P) \in Nat
  BY FS_Difference, FS_CardinalityType
<1>2. amount * Cardinality(Handlers \ P) \in Nat
  BY <1>1
<1>3. u + cost[h] <= L + amount * Cardinality(Handlers \ P)
  BY <1>2
<1> QED
  BY <1>3 DEF Fits

(* One that gives up, or records what it was let in for, leaves room for   *)
(* the others.                                                             *)
LEMMA FitsWhenOneLeaves ==
  ASSUME IsFiniteSet(Handlers), NEW P \in SUBSET Handlers, NEW h \in P, NEW cost, NEW cost2,
         NEW L \in Nat, NEW amount \in Nat, NEW u \in Nat, NEW u2, u2 = u \/ u2 = u + cost[h],
         \A g \in P : cost[g] \in Nat /\ cost[g] <= amount,
         \A g \in P \ {h} : cost2[g] = cost[g],
         Fits(u, P, cost, L, amount)
  PROVE  Fits(u2, P \ {h}, cost2, L, amount)
<1> DEFINE Q == P \ {h}
           n == Cardinality(Handlers \ P)
           m == Cardinality(Handlers \ Q)
<1>1. n \in Nat /\ m = n + 1
  <2>1. IsFiniteSet(Handlers \ P) /\ h \notin Handlers \ P
    BY FS_Difference
  <2>2. Handlers \ Q = (Handlers \ P) \cup {h}
    OBVIOUS
  <2> QED
    BY <2>1, <2>2, FS_AddElement, FS_CardinalityType
<1>2. PICK g \in P : u + cost[g] <= L + amount * n
  BY DEF Fits
<1>3. amount * m = amount * n + amount /\ amount * n \in Nat
  BY <1>1
<1>4. cost[h] \in Nat /\ cost[h] <= amount /\ cost[g] \in Nat /\ cost[g] <= amount
  OBVIOUS
<1>5. u2 \in Nat /\ u2 <= u + cost[h]
  BY <1>4
<1>6. CASE Q = {}
  <2>1. g = h /\ P = {h}
    BY <1>6
  <2>2. n = Cardinality(Handlers) - 1
    BY <2>1, FS_RemoveElement
  <2>3. u2 <= L + amount * n
    BY <1>2, <1>3, <1>4, <1>5, <2>1
  <2> QED
    BY <1>6, <2>2, <2>3 DEF Fits
<1>7. CASE g # h
  <2>1. g \in Q /\ cost2[g] = cost[g]
    BY <1>7
  <2> HIDE DEF Q, m, n
  <2>2. u2 + cost2[g] <= L + amount * m
    BY <1>2, <1>3, <1>4, <1>5, <2>1
  <2> QED
    BY <2>1, <2>2 DEF Fits, Q, m
<1>8. CASE g = h /\ Q # {}
  <2>1. PICK k \in Q : cost2[k] = cost[k] /\ cost[k] \in Nat /\ cost[k] <= amount
    BY <1>8
  <2> HIDE DEF m, n
  <2>2. u2 + cost2[k] <= L + amount * m
    BY <1>2, <1>3, <1>4, <1>5, <1>8, <2>1
  <2> QED
    BY <2>1, <2>2 DEF Fits, m
<1> QED
  BY <1>6, <1>7, <1>8

(* The handlers that are in, and whose usage may be recorded in the month: *)
(* that of an undated request may come later than the check.               *)
IsIn(h) == pc[h] \in {"read", "write"}

MayRecord(h, p) ==
  IsIn(h) /\ (period[h] = p \/ (pc[h] = "read" /\ stamp[h] = Now /\ period[h] < p))

Recording(p) == {h \in Handlers : MayRecord(h, p)}

Costs == [h \in Handlers |-> AmountOf[key[h]]]

(* The months handlers were let in for. *)
LetInFor ==
  \A h \in Handlers :
    /\ pc[h] # "idle" => stamp[h] \in Stamps
    /\ IsIn(h) =>
         /\ period[h] \in Periods
         /\ stamp[h] # Now => period[h] = stamp[h]
         /\ stamp[h] = Now => period[h] <= month

(* Undated requests use no month before it comes. *)
MonthsToCome == Now \in Stamps => \A p \in Periods : p > month => counter[p] = None

LEMMA LetInForNext ==
  ASSUME Kinds = {"check"}, TypeOK, LetInFor, [Next]_vars
  PROVE  LetInFor'
<1> DEFINE Goal(g) == /\ pc[g] # "idle" => stamp[g] \in Stamps
                      /\ IsIn(g) =>
                           /\ period[g] \in Periods
                           /\ stamp[g] # Now => period[g] = stamp[g]
                           /\ stamp[g] = Now => period[g] <= month
<1> SUFFICES ASSUME NEW g \in Handlers
             PROVE  Goal(g)'
  BY DEF LetInFor
<1> USE DEF TypeOK, LetInFor, IsIn, plan, books, request, session, answers
<1>0. month \in Nat /\ month <= month' /\ month' \in Nat
  BY ConstantsAssumption
  DEF Next, vars, ReceiveKnown, Receive, Deny, Allow, ReadCounter, RecordUsage, Conflict, Fail,
      MonthEnds, PlanChanges, Periods
<1>1. CASE UNCHANGED <<pc[g], period[g], stamp[g]>>
  BY <1>0, <1>1, ConstantsAssumption DEF Periods
<1>2. ASSUME NEW h \in Handlers, NEW k, NEW r, Answer(h, k, r)
      PROVE  Goal(g)'
  <2>1. h = g => pc'[g] = "idle"
    BY <1>2 DEF Answer
  <2>2. h # g => UNCHANGED <<pc[g], period[g], stamp[g]>>
    BY <1>2 DEF Answer
  <2> QED
    BY <1>1, <2>1, <2>2
<1>3. ASSUME NEW h \in Handlers, NEW k \in Keys, NEW endpoint \in Kinds, NEW at \in Stamps,
             Receive(h, k, endpoint, at)
      PROVE  Goal(g)'
  <2>1. h = g => pc'[g] = "check" /\ stamp'[g] \in Stamps
    BY <1>3 DEF Receive
  <2>2. h # g => UNCHANGED <<pc[g], period[g], stamp[g]>>
    BY <1>3 DEF Receive
  <2> QED
    BY <1>1, <2>1, <2>2
<1>4. ASSUME NEW h \in Handlers, Allow(h) \/ ReadCounter(h)
      PROVE  Goal(g)'
  <2>1. CASE h = g
    <3>1. /\ period'[g] = PeriodOf(g) /\ stamp'[g] = stamp[g] /\ month' = month
          /\ pc[g] # "idle"
      BY <1>4, <2>1 DEF Allow, ReadCounter
    <3>2. PeriodOf(g) \in Periods
      BY DEF PeriodOf, Periods, Now
    <3> QED
      BY <1>0, <3>1, <3>2 DEF PeriodOf
  <2>2. CASE h # g
    BY <1>1, <1>4, <2>2 DEF Allow, ReadCounter
  <2> QED
    BY <2>1, <2>2
<1>5. CASE MonthEnds \/ PlanChanges \/ UNCHANGED vars
  BY <1>1, <1>5 DEF MonthEnds, PlanChanges, vars
<1> HIDE DEF Goal
<1> QED
  BY <1>2, <1>3, <1>4, <1>5 DEF Next, ReceiveKnown, Deny, RecordUsage, Conflict, Fail

LEMMA MonthsToComeNext ==
  ASSUME Now \in Stamps => Stamps = {Now}, TypeOK, SessionsOpen, LetInFor, MonthsToCome,
         [Next]_vars
  PROVE  MonthsToCome'
<1> USE DEF TypeOK, MonthsToCome
<1>0. month \in Nat /\ month <= month' /\ month' \in Nat
  BY ConstantsAssumption
  DEF Next, vars, plan, books, ReceiveKnown, Receive, Deny, Allow, ReadCounter, RecordUsage,
      Conflict, Fail, MonthEnds, PlanChanges, Periods
<1>1. CASE UNCHANGED books
  BY <1>0, <1>1 DEF books, Periods
<1>2. ASSUME NEW h \in Handlers, RecordUsage(h)
      PROVE  MonthsToCome'
  <2>0. PICK q \in Periods : q = period[h]
    BY <1>2 DEF RecordUsage, SessionsOpen
  <2>1. \A p \in Periods : p # q => counter'[p] = counter[p]
    BY <1>2, <2>0 DEF RecordUsage
  <2>2. Now \in Stamps => q <= month
    BY <1>2, <2>0 DEF RecordUsage, LetInFor, IsIn
  <2> QED
    BY <1>0, <2>0, <2>1, <2>2 DEF Periods
<1> QED
  BY <1>1, <1>2, BookKeeping

(* In a month that has lost no increment those who are in fit. *)
AllFit(L, amount) ==
  \A p \in Periods :
    Used(p) = consumed[p] => Fits(Used(p), Recording(p), Costs, L, amount)

(* Who is let in fits, and every other step leaves the room to the rest.   *)
LEMMA AllFitNext ==
  ASSUME IsFiniteSet(Handlers), Kinds = {"check"}, Now \in Stamps => Stamps = {Now},
         NEW L \in Nat, NEW amount \in Nat, \A k \in Keys : AmountOf[k] <= amount,
         Entitled => limit \in Nat /\ limit <= L,
         CountInv, WholeIsStored, LetInFor, MonthsToCome, AllFit(L, amount), [Next]_vars
  PROVE  AllFit(L, amount)'
<1> SUFFICES ASSUME NEW p \in Periods, Used(p)' = consumed'[p]
             PROVE  Fits(Used(p)', Recording(p)', Costs', L, amount)
  BY DEF AllFit, Fits
<1> DEFINE Goal == Fits(Used(p)', Recording(p)', Costs', L, amount)
<1> USE DEF plan, books, request, session, answers
<1>1. TypeOK /\ SessionsOpen
  BY DEF CountInv
<1>2. \A g \in Recording(p) : Costs[g] \in Nat /\ Costs[g] <= amount
  BY <1>1, ConstantsAssumption DEF Recording, MayRecord, IsIn, Costs, SessionsOpen
<1>3. Used(p) \in Nat
  BY <1>1 DEF TypeOK, Used, Counts
<1>4. ASSUME UNCHANGED books, NEW h \in Handlers, MayRecord(h, p)' => MayRecord(h, p),
             UNCHANGED key[h] \/ ~MayRecord(h, p)',
             \A g \in Handlers : g # h => UNCHANGED <<pc[g], period[g], stamp[g], key[g]>>
      PROVE  Goal
  <2>1. Used(p)' = Used(p) /\ Fits(Used(p), Recording(p), Costs, L, amount)
    BY <1>4 DEF Used, AllFit
  <2>2. \A g \in Handlers : g # h => MayRecord(g, p)' = MayRecord(g, p) /\ Costs'[g] = Costs[g]
    BY <1>4 DEF MayRecord, IsIn, Costs
  <2>3. MayRecord(h, p)' => Costs'[h] = Costs[h]
    BY <1>4 DEF Costs
  <2>4. CASE MayRecord(h, p)' \/ ~MayRecord(h, p)
    <3>1. Recording(p)' = Recording(p) /\ \A g \in Recording(p) : Costs'[g] = Costs[g]
      BY <1>4, <2>2, <2>3, <2>4 DEF Recording
    <3> QED
      BY <2>1, <3>1 DEF Fits
  <2>5. CASE ~MayRecord(h, p)' /\ MayRecord(h, p)
    <3>1. /\ Recording(p)' = Recording(p) \ {h} /\ h \in Recording(p)
          /\ Recording(p) \in SUBSET Handlers
          /\ \A g \in Recording(p) \ {h} : Costs'[g] = Costs[g]
      BY <2>2, <2>5 DEF Recording
    <3>2. Fits(Used(p), Recording(p) \ {h}, Costs', L, amount)
      BY <1>2, <1>3, <2>1, <3>1, FitsWhenOneLeaves
    <3> QED
      BY <2>1, <3>1, <3>2
  <2> QED
    BY <2>4, <2>5
<1>5. ASSUME NEW h \in Handlers, NEW k, NEW r, Answer(h, k, r)
      PROVE  /\ ~MayRecord(h, p)'
             /\ \A g \in Handlers : g # h => UNCHANGED <<pc[g], period[g], stamp[g], key[g]>>
  BY <1>1, <1>5 DEF Answer, MayRecord, IsIn, TypeOK
<1>6. ASSUME NEW h \in Handlers, NEW k \in Keys, ReceiveKnown(h, k)
      PROVE  Goal
  BY <1>4, <1>5, <1>6 DEF ReceiveKnown
<1>7. ASSUME NEW h \in Handlers, Deny(h) \/ Conflict(h) \/ Fail(h)
      PROVE  Goal
  BY <1>4, <1>5, <1>7 DEF Deny, Conflict, Fail
<1>8. ASSUME NEW h \in Handlers, NEW k \in Keys, NEW endpoint \in Kinds, NEW at \in Stamps,
             Receive(h, k, endpoint, at)
      PROVE  Goal
  <2>1. ~MayRecord(h, p)'
    BY <1>1, <1>8 DEF Receive, MayRecord, IsIn, TypeOK
  <2>2. \A g \in Handlers : g # h => UNCHANGED <<pc[g], period[g], stamp[g], key[g]>>
    BY <1>1, <1>8 DEF Receive, TypeOK
  <2>3. UNCHANGED books
    BY <1>8 DEF Receive
  <2> QED
    BY <1>4, <2>1, <2>2, <2>3
<1>9. ASSUME NEW h \in Handlers, Allow(h)
      PROVE  Goal
  <2>1. /\ UNCHANGED books /\ UNCHANGED <<key, stamp>> /\ pc[h] = "check" /\ pc'[h] = "read"
        /\ period'[h] = PeriodOf(h)
        /\ \A g \in Handlers : g # h => UNCHANGED <<pc[g], period[g], stamp[g], key[g]>>
    BY <1>1, <1>9 DEF Allow, TypeOK
  <2>2. CASE ~MayRecord(h, p)'
    BY <1>4, <2>1, <2>2
  <2>3. CASE MayRecord(h, p)'
    <3> DEFINE a == AmountOf[key[h]]
    <3>1. a \in Nat /\ Costs'[h] = a
      BY <1>1, <2>1, ConstantsAssumption DEF SessionsOpen, Costs
    <3>2. PeriodOf(h) \in Periods /\ Used(PeriodOf(h)) \in Nat
      BY <1>1, ConstantsAssumption DEF PeriodOf, TypeOK, Used, Counts, Periods, Now
    <3>3. Used(PeriodOf(h)) + a <= L
      <4>1. ~Exceeds(Used(PeriodOf(h)), a) /\ limit \in Nat /\ limit <= L
        BY <1>9 DEF Allow
      <4> QED
        BY <3>1, <3>2, <4>1, ConstantsAssumption DEF Exceeds
    <3>4. Used(p)' = Used(p)
      BY <2>1 DEF Used
    <3>5. Used(p) + a <= L
      <4>1. CASE PeriodOf(h) = p
        BY <3>3, <4>1
      <4>2. CASE PeriodOf(h) # p
        <5>1. stamp[h] = Now /\ PeriodOf(h) = month /\ month < p
          BY <2>1, <2>3, <4>2 DEF MayRecord, PeriodOf
        <5>2. Now \in Stamps
          BY <2>1, <5>1 DEF LetInFor
        <5>3. Used(p) = 0
          BY <1>1, <5>1, <5>2 DEF MonthsToCome, Used, TypeOK, Periods
        <5> QED
          BY <3>1, <3>2, <3>3, <5>3
      <4> QED
        BY <4>1, <4>2
    <3>6. Recording(p)' \in SUBSET Handlers /\ h \in Recording(p)'
      BY <2>3 DEF Recording
    <3> QED
      BY <1>3, <3>1, <3>4, <3>5, <3>6, FitsWhenLetIn
  <2> QED
    BY <2>2, <2>3
<1>10. ASSUME NEW h \in Handlers, ReadCounter(h)
      PROVE  Goal
  <2>1. /\ UNCHANGED books /\ UNCHANGED <<key, stamp>> /\ pc[h] = "read" /\ pc'[h] = "write"
        /\ period'[h] = PeriodOf(h)
        /\ \A g \in Handlers : g # h => UNCHANGED <<pc[g], period[g], stamp[g], key[g]>>
    BY <1>1, <1>10 DEF ReadCounter, TypeOK
  <2>2. MayRecord(h, p)' => PeriodOf(h) = p
    BY <2>1 DEF MayRecord
  <2>3. PeriodOf(h) = p => MayRecord(h, p)
    <3>1. /\ period[h] \in Periods
          /\ stamp[h] # Now => period[h] = stamp[h]
          /\ stamp[h] = Now => period[h] <= month
      BY <2>1 DEF LetInFor, IsIn
    <3> QED
      BY <1>1, <2>1, <3>1, ConstantsAssumption DEF PeriodOf, MayRecord, IsIn, TypeOK, Periods
  <2> QED
    BY <1>4, <2>1, <2>2, <2>3
<1>11. ASSUME NEW h \in Handlers, RecordUsage(h)
      PROVE  Goal
  <2>0. PICK q, a : q = period[h] /\ a = AmountOf[key[h]]
    OBVIOUS
  <2>1. /\ q \in Periods /\ a \in Nat \ {0}
        /\ consumed' = [consumed EXCEPT ![q] = consumed[q] + a]
        /\ counter' = [counter EXCEPT ![q] = SeenBy(h) + a]
        /\ Used(q)' = consumed'[q] => Used(q) = consumed[q] /\ Used(q)' = Used(q) + a
    BY <1>11, <2>0, RecordedOnTop
  <2>2. /\ pc[h] = "write"
        /\ ~MayRecord(h, p)'
        /\ \A g \in Handlers : g # h => UNCHANGED <<pc[g], period[g], stamp[g], key[g]>>
    BY <1>5, <1>11 DEF RecordUsage
  <2>3. \A g \in Handlers : g # h => MayRecord(g, p)' = MayRecord(g, p) /\ Costs'[g] = Costs[g]
    BY <2>2 DEF MayRecord, IsIn, Costs
  <2>4. Recording(p)' = Recording(p) \ {h} /\ \A g \in Recording(p) \ {h} : Costs'[g] = Costs[g]
    BY <2>2, <2>3 DEF Recording
  <2>5. CASE p = q
    <3>1. Used(p) = consumed[p] /\ Used(p)' = Used(p) + Costs[h]
      BY <2>0, <2>1, <2>5 DEF Costs
    <3>2. h \in Recording(p) /\ Recording(p) \in SUBSET Handlers
      BY <2>0, <2>2, <2>5 DEF Recording, MayRecord, IsIn
    <3>3. Fits(Used(p), Recording(p), Costs, L, amount)
      BY <3>1 DEF AllFit
    <3> QED
      BY <1>2, <1>3, <2>4, <3>1, <3>2, <3>3, FitsWhenOneLeaves
  <2>6. CASE p # q
    <3>1. consumed'[p] = consumed[p] /\ counter'[p] = counter[p]
      BY <1>1, <2>1, <2>6 DEF TypeOK
    <3>2. Used(p)' = Used(p) /\ Used(p) = consumed[p]
      BY <3>1 DEF Used
    <3>3. h \notin Recording(p)
      BY <2>0, <2>2, <2>6 DEF Recording, MayRecord
    <3>4. Recording(p)' = Recording(p)
      BY <2>4, <3>3
    <3>5. Fits(Used(p), Recording(p), Costs, L, amount)
      BY <3>2 DEF AllFit
    <3>6. \A g \in Recording(p) : Costs'[g] = Costs[g]
      BY <2>4, <3>3
    <3> QED
      BY <3>2, <3>4, <3>5, <3>6 DEF Fits
  <2> QED
    BY <2>5, <2>6
<1>12. CASE MonthEnds \/ PlanChanges \/ UNCHANGED vars
  <2>1. UNCHANGED <<counter, consumed, pc, period, stamp, key>>
    BY <1>12 DEF MonthEnds, PlanChanges, vars
  <2>2. Used(p)' = Used(p) /\ Recording(p)' = Recording(p) /\ Costs' = Costs /\ consumed' = consumed
    BY <2>1 DEF Used, Recording, MayRecord, IsIn, Costs
  <2> QED
    BY <2>2 DEF AllFit, Fits
<1> HIDE DEF Goal
<1> QED
  BY <1>6, <1>7, <1>8, <1>9, <1>10, <1>11, <1>12 DEF Next, Goal

(* The rows of the plans are the catalogue's or the operators'. *)
RowsKnown == \A p \in Plans : plan_features[p] \in PlanRows \cup {None}

LEMMA RowsKnownNext ==
  ASSUME TablesTypeOK, RowsKnown, [BillingNext]_<<vars, tables>>
  PROVE  RowsKnown'
<1>1. CASE UNCHANGED plan_features
  BY <1>1 DEF RowsKnown
<1>2. CASE Seed
  BY <1>2 DEF Seed, SeededRow, RowsKnown, PlanRows
<1>3. ASSUME NEW p \in Plans, NEW row \in EditedRows, EditPlan(p, row)
      PROVE  RowsKnown'
  <2>1. row \in PlanRows
    BY EntitlementAssumption DEF PlanRows
  <2> QED
    BY <1>3, <2>1 DEF EditPlan, RowsKnown, TablesTypeOK
<1> QED
  BY <1>1, <1>2, <1>3
  DEF BillingNext, TablesChange, Subscribe, StatusChanges, PeriodEndsOrRenews, tables

(* A limit above all rows is above the one a request is checked against. *)
LEMMA CheckedLimit ==
  ASSUME TablesInv, RowsKnown, NEW L \in Limits \ {Unlimited},
         \A row \in PlanRows : row.limit_value # Unlimited /\ row.limit_value <= L
  PROVE  Entitled => limit \in Nat /\ limit <= L
<1> SUFFICES ASSUME Entitled
             PROVE  limit \in Nat /\ limit <= L
  OBVIOUS
<1> DEFINE s == get_subscription_for_tenant
           row == plan_features[s.plan]
<1>1. subscriptions # <<>> /\ RowEnabled(row) /\ limit = row.limit_value
  BY ToldIsChecked
<1>2. s \in Subscriptions /\ row \in Rows
  BY <1>1, NewestSubscription DEF TablesInv, RowEnabled
<1>3. row \in PlanRows
  BY <1>1, <1>2 DEF RowsKnown, RowEnabled, Subscriptions
<1>4. row.limit_value \in Limits
  BY <1>2 DEF Rows
<1> QED
  BY <1>1, <1>3, <1>4, ConstantsAssumption

(* Of any number of handlers that check and then record, without a lock,   *)
(* each but one may exceed the quota by one request, and no more; months   *)
(* may end, subscriptions come and end and plans be edited in between.  In *)
(* a behaviour all requests are dated or none is.                          *)
THEOREM QuotaWithTables ==
  ASSUME IsFiniteSet(Handlers), Handlers # {}, Kinds = {"check"},
         Now \in Stamps => Stamps = {Now}
  PROVE  BillingSpec => []QuotaRespected
<1> DEFINE Highest(L) == \A row \in PlanRows : row.limit_value # Unlimited /\ row.limit_value <= L
           Largest(amount) == \A k \in Keys : AmountOf[k] <= amount
           Books == CountInv /\ WholeIsStored /\ LetInFor /\ MonthsToCome
           Fit == \A L \in Limits \ {Unlimited}, amount \in {AmountOf[k] : k \in Keys} :
                    Highest(L) /\ Largest(amount) => AllFit(L, amount)
           Inv == Books /\ Fit /\ TablesInv /\ RowsKnown
<1>0. /\ \A L \in Limits \ {Unlimited} : L \in Nat
      /\ \A amount \in {AmountOf[k] : k \in Keys} : amount \in Nat
  BY ConstantsAssumption
<1>1. BillingInit => Inv
  <2> SUFFICES ASSUME BillingInit PROVE Inv
    OBVIOUS
  <2>1. Init /\ TablesInv
    BY TablesInit DEF BillingInit
  <2>2. CountInv
    BY <2>1, TypeInit, ConstantsAssumption
    DEF Init, CountInv, NeverOvercounted, SeenWasConsumed, Used, Periods
  <2>3. WholeIsStored /\ LetInFor /\ MonthsToCome
    BY <2>1 DEF Init, WholeIsStored, LetInFor, IsIn, MonthsToCome
  <2>4. ASSUME NEW L \in Nat, NEW amount \in Nat
        PROVE  AllFit(L, amount)
    <3>1. Cardinality(Handlers) - 1 \in Nat
      BY FS_EmptySet, FS_CardinalityType
    <3>2. amount * (Cardinality(Handlers) - 1) \in Nat
      BY <3>1
    <3>3. \A p \in Periods : Recording(p) = {} /\ Used(p) = 0
      BY <2>1 DEF Init, Recording, MayRecord, IsIn, Used
    <3> QED
      BY <3>2, <3>3 DEF AllFit, Fits
  <2>5. RowsKnown
    BY DEF BillingInit, RowsKnown
  <2> QED
    BY <1>0, <2>1, <2>2, <2>3, <2>4, <2>5
<1>2. Inv /\ [BillingNext]_<<vars, tables>> => Inv'
  <2> SUFFICES ASSUME Inv, [BillingNext]_<<vars, tables>> PROVE Inv'
    OBVIOUS
  <2>1. TablesInv' /\ RowsKnown'
    BY TablesNext, RowsKnownNext DEF TablesInv
  <2>2. [Next]_vars
    BY <2>1, TablesChangeThePlan
  <2>3. Books'
    BY <2>2, CountNext, WholeNext, LetInForNext, MonthsToComeNext DEF CountInv
  <2>4. ASSUME NEW L \in Limits \ {Unlimited}, NEW amount \in {AmountOf[k] : k \in Keys},
               Highest(L), Largest(amount)
        PROVE  AllFit(L, amount)'
    <3>1. Entitled => limit \in Nat /\ limit <= L
      BY <2>4, CheckedLimit
    <3>2. AllFit(L, amount)
      BY <2>4
    <3> QED
      BY <1>0, <2>2, <2>4, <3>1, <3>2, AllFitNext
  <2>5. Fit'
    BY <2>4
  <2> QED
    BY <2>1, <2>3, <2>5
<1>3. Inv => QuotaRespected
  <2> SUFFICES ASSUME Inv, NEW p \in Periods, NEW L \in Limits \ {Unlimited},
                      NEW amount \in {AmountOf[k] : k \in Keys},
                      Highest(L), Largest(amount), Used(p) = consumed[p]
               PROVE  Used(p) <= L + (Cardinality(Handlers) - 1) * amount
    BY DEF QuotaRespected
  <2>1. Fits(Used(p), Recording(p), Costs, L, amount)
    BY DEF AllFit
  <2>2. L \in Nat /\ amount \in Nat /\ Used(p) \in Nat /\ Cardinality(Handlers) \in Nat
    BY <1>0, FS_CardinalityType DEF CountInv, TypeOK, Used, Counts
  <2>3. CASE Recording(p) = {}
    BY <2>1, <2>2, <2>3 DEF Fits
  <2>4. CASE Recording(p) # {}
    <3>1. PICK g \in Recording(p) :
            Used(p) + Costs[g] <= L + amount * Cardinality(Handlers \ Recording(p))
      BY <2>1, <2>4 DEF Fits
    <3>2. Costs[g] \in Nat
      BY <3>1, ConstantsAssumption DEF CountInv, SessionsOpen, Recording, MayRecord, IsIn, Costs
    <3>3. /\ Cardinality(Handlers \ Recording(p)) \in Nat
          /\ Cardinality(Handlers \ Recording(p)) <= Cardinality(Handlers) - 1
      <4>1. g \in Handlers /\ Handlers \ Recording(p) \subseteq Handlers \ {g}
        BY DEF Recording
      <4>2. IsFiniteSet(Handlers \ {g}) /\ Cardinality(Handlers \ {g}) = Cardinality(Handlers) - 1
        BY <4>1, FS_RemoveElement
      <4> QED
        BY <4>1, <4>2, FS_Subset, FS_CardinalityType
    <3>4. amount * Cardinality(Handlers \ Recording(p)) <= amount * (Cardinality(Handlers) - 1)
      BY <2>2, <3>3
    <3> HIDE DEF Inv, Books, Fit
    <3>5. (Cardinality(Handlers) - 1) * amount = amount * (Cardinality(Handlers) - 1)
      BY <2>2
    <3>6. amount * Cardinality(Handlers \ Recording(p)) \in Int
          /\ amount * (Cardinality(Handlers) - 1) \in Int
      BY <2>2, <3>3
    <3> QED
      BY <2>2, <3>1, <3>2, <3>4, <3>5, <3>6
  <2> QED
    BY <2>3, <2>4
<1> QED
  BY <1>1, <1>2, <1>3, PTL DEF BillingSpec

=============================================================================
