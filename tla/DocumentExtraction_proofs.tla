--------------------- MODULE DocumentExtraction_proofs ---------------------
(***************************************************************************)
(* Proofs about DocumentExtraction, for every configuration, request,      *)
(* image and answer of a model.                                            *)
(***************************************************************************)
EXTENDS DocumentExtraction, Sums_proofs

(* One provider is asked, or two. *)
LEMMA OneOrTwo ==
    ASSUME settings \in Configurations, NEW q \in Requests
    PROVE  Len(_provider_attempts(q.provider)) \in 1..2
<1>1. settings.MAX_AI_ATTEMPTS \in Int
  BY ConfigurationAssumption
<1>2. QED
  BY <1>1 DEF _provider_attempts

(* A confidence is within 0..1 whatever the model wrote. *)
LEMMA ConfidenceInRange ==
    ASSUME NEW raw \in Int \cup {None, NaN}
    PROVE  parse_confidence(raw) \in Nat /\ InUnit(parse_confidence(raw))
<1>1. CASE raw = None
  BY <1>1, ModelAssumption DEF parse_confidence, One, InUnit
<1>2. CASE raw \in Int
  BY <1>2, NoneAssumption, ModelAssumption DEF parse_confidence, One, InUnit
<1>3. CASE raw = NaN
  BY <1>3 DEF parse_confidence, One, InUnit
<1>4. QED
  BY <1>1, <1>2, <1>3

(* What a provider returns is an answer. *)
LEMMA ResultsAreAnswers ==
    ASSUME settings \in Configurations, NEW name \in Names, Supported(name),
           NEW a \in Results(name)
    PROVE  a \in Answers
<1>1. PROVIDERS[Lowered(name)] \in Names
  BY NameAssumption DEF PROVIDERS, Supported, Lowered
<1>2. MockResult \in Answers
  BY NameAssumption DEF MockResult, Answers, Usages, NoUsage, One, InUnit
<1>3. ASSUME NEW u \in UsageMetadata
      PROVE  _extract_usage(u) \in Usages
  BY ModelAssumption DEF _extract_usage, Usages
<1>4. CASE PROVIDERS[Lowered(name)] = "mock"
  BY <1>2, <1>4 DEF Results
<1>5. CASE PROVIDERS[Lowered(name)] # "mock"
  <2>1. a \in [provider : {PROVIDERS[Lowered(name)]}, is_invoice : BOOLEAN,
               confidence : {parse_confidence(raw) : raw \in RawConfidences},
               usage : {_extract_usage(u) : u \in UsageMetadata}]
    BY <1>5 DEF Results
  <2>2. a.confidence \in Nat /\ InUnit(a.confidence)
    BY <2>1, ConfidenceInRange, ModelAssumption
  <2>3. a.usage \in Usages
    BY <2>1, <1>3
  <2>4. QED
    BY <1>1, <2>1, <2>2, <2>3 DEF Answers
<1>6. QED
  BY <1>4, <1>5

(* A configured threshold of four decimals survives the rounding. *)
LEMMA RoundingKeepsThreshold ==
    ASSUME NEW c \in Nat, NEW t \in Nat, c >= 10 * t
    PROVE  Rounded(c) >= 10 * t
  BY DEF Rounded

(***************************************************************************)
(* The inductive invariant: what the variables of the loop say of the      *)
(* calls made so far, and what an answered request carries.                *)
(***************************************************************************)
LoopInv ==
    /\ pc \in {"idle", "fetching"} => replies = <<>> /\ usage_events = <<>> /\ attempts_done = 0
    /\ pc = "asking" => attempts_done = Len(replies)
    /\ last_result = None => \A n \in DOMAIN replies : replies[n] = None
    /\ last_result # None =>
          /\ last_result \in [call : Nat, answer : Answers]
          /\ last_result.call \in DOMAIN replies
          /\ replies[last_result.call] = last_result.answer
          /\ \A m \in DOMAIN replies : m > last_result.call => replies[m] = None

EventsInv ==
    /\ usage_events \in Seq([attempt : Nat, provider : Names, status : {"completed", "needs_review", "failed"},
                            usage : Usages])
    /\ FallbackOnlyWhenNeeded

ReportsLast ==
    IF last_result = None
    THEN /\ response.from = 0 /\ response.status = "failed"
         /\ response.error \in {"raised", "nothing_extracted"}
    ELSE /\ response.from = last_result.call
         /\ response.provider = last_result.answer.provider
         /\ response.confidence = Rounded(last_result.answer.confidence)
         /\ response.status = _status_for(last_result.answer)
         /\ response.error = FinalError(_status_for(last_result.answer))

ResponseInv == Served => ReportsLast

IInv == TypeOK /\ LoopInv /\ EventsInv /\ ResponseInv

LEMMA InitIInv == Init => IInv
  BY DEF Init, IInv, TypeOK, LoopInv, EventsInv, ResponseInv, FallbackOnlyWhenNeeded, Served

(* The facts about a step of the loop that both of its outcomes share. *)
LEMMA AskingFacts ==
    ASSUME IInv, pc = "asking", MustAsk
    PROVE  /\ request \in Requests /\ settings \in Configurations
           /\ request.attempts \in Nat
           /\ NextProvider \in Names
           /\ attempts_done = Len(replies) /\ attempts_done + 1 \in 1..2
           /\ \A n \in DOMAIN replies : replies[n] = None \/ ~GoodEnough(replies[n])
<1>1. settings \in Configurations /\ request \in Requests /\ replies \in Seq(Answers \cup {None})
  BY DEF IInv, TypeOK
<1>2. attempts_done = Len(replies)
  BY DEF IInv, LoopInv
<1>3. Len(_provider_attempts(request.provider)) \in 1..2
  BY <1>1, OneOrTwo
<1>4. attempts_done + 1 \in 1..2
  <2>1. attempts_done < Len(_provider_attempts(request.provider))
    BY DEF MustAsk
  <2>2. attempts_done \in 0..2
    BY DEF IInv, TypeOK
  <2>3. PICK n \in 1..2 : attempts_done < n
    BY <1>3, <2>1
  <2>4. QED
    BY <2>2, <2>3
<1>5. NextProvider \in Names
  <2>1. \A k \in 1..Len(_provider_attempts(request.provider)) :
           _provider_attempts(request.provider)[k] \in Names
    BY <1>1, RequestAssumption, ConfigurationAssumption DEF _provider_attempts
  <2>2. attempts_done < Len(_provider_attempts(request.provider))
    BY DEF MustAsk
  <2>3. PICK m \in 1..2 : m = Len(_provider_attempts(request.provider)) /\ attempts_done < m
    BY <1>3, <2>2
  <2>4. attempts_done + 1 \in 1..m
    BY <2>3 DEF IInv, TypeOK
  <2>5. QED
    BY <2>1, <2>3, <2>4 DEF NextProvider
<1>6. ASSUME NEW n \in DOMAIN replies, replies[n] # None PROVE ~GoodEnough(replies[n])
  <2>1. last_result # None
    BY <1>6 DEF IInv, LoopInv
  <2>2. CASE n < Len(replies)
    BY <2>2, <1>6 DEF IInv, EventsInv, FallbackOnlyWhenNeeded, GoodEnough
  <2>3. CASE n = Len(replies)
    <3>1. last_result.call = n
      BY <1>1, <2>1, <2>3, <1>6 DEF IInv, LoopInv
    <3>2. QED
      BY <2>1, <3>1 DEF IInv, LoopInv, MustAsk
  <2>4. QED
    BY <1>1, <2>2, <2>3
<1>7. QED
  BY <1>1, <1>2, <1>4, <1>5, <1>6, RequestAssumption

(* One more event keeps what is known of the events. *)
LEMMA EventsGrow ==
    ASSUME IInv, pc = "asking", MustAsk,
           NEW a \in Answers \cup {None}, NEW p \in Names,
           NEW status \in {"completed", "needs_review", "failed"}, NEW usage \in Usages,
           usage_events' = Append(usage_events, _usage_event(p, status, usage)),
           replies' = Append(replies, a),
           request' = request, settings' = settings
    PROVE  EventsInv'
<1> DEFINE Event == [attempt : Nat, provider : Names,
                     status : {"completed", "needs_review", "failed"}, usage : Usages]
           e == _usage_event(p, status, usage)
<1>1. /\ request.attempts \in Nat /\ attempts_done = Len(replies)
      /\ \A n \in DOMAIN replies : replies[n] = None \/ ~GoodEnough(replies[n])
  BY AskingFacts
<1>2. replies \in Seq(Answers \cup {None})
  BY DEF IInv, TypeOK
<1>3. e \in Event /\ e.attempt = request.attempts + Len(replies) + 1
  BY <1>1, <1>2 DEF _usage_event
<1>4. usage_events \in Seq(Event) /\ Len(usage_events) = Len(replies)
  BY DEF IInv, EventsInv, FallbackOnlyWhenNeeded
<1>5. \A n \in DOMAIN usage_events : usage_events[n].attempt = request.attempts + n
  BY DEF IInv, EventsInv, FallbackOnlyWhenNeeded
<1> HIDE DEF e, Event
<1>6. usage_events' \in Seq(Event) /\ Len(usage_events') = Len(replies')
  BY <1>2, <1>3, <1>4 DEF e
<1>7. ASSUME NEW n \in DOMAIN usage_events'
      PROVE  /\ usage_events'[n].attempt = request'.attempts + n
             /\ n < Len(replies') => replies'[n] = None \/ ~GoodEnough(replies[n])'
  <2>1. CASE n \in DOMAIN usage_events
    <3>1. n \in DOMAIN replies /\ replies'[n] = replies[n] /\ usage_events'[n] = usage_events[n]
      BY <1>2, <1>3, <1>4, <2>1 DEF e
    <3>2. QED
      BY <1>1, <1>5, <3>1, <2>1 DEF GoodEnough
  <2>2. CASE n \notin DOMAIN usage_events
    <3>1. n = Len(replies) + 1 /\ usage_events'[n] = e /\ Len(replies') = Len(replies) + 1
      BY <1>2, <1>3, <1>4, <2>2 DEF e
    <3>2. QED
      BY <1>1, <1>2, <1>3, <3>1
  <2>3. QED
    BY <2>1, <2>2
<1>8. QED
  BY <1>6, <1>7 DEF EventsInv, FallbackOnlyWhenNeeded, GoodEnough, Event

LEMMA NextIInv == IInv /\ [Next]_vars => IInv'
<1> SUFFICES ASSUME IInv, [Next]_vars PROVE IInv'
  OBVIOUS
<1>1. ASSUME NEW q \in Requests, Receive(q) PROVE IInv'
  <2>1. TypeOK'
    BY <1>1, NoneAssumption DEF IInv, Receive, TypeOK
  <2>2. LoopInv'
    BY <1>1 DEF IInv, Receive, LoopInv
  <2>3. EventsInv'
    <3>1. replies = <<>> /\ usage_events = <<>>
      BY <1>1 DEF IInv, Receive, LoopInv
    <3>2. QED
      BY <1>1, <3>1 DEF Receive, EventsInv, FallbackOnlyWhenNeeded
  <2>4. ResponseInv'
    BY <1>1 DEF Receive, ResponseInv, Served
  <2>5. QED
    BY <2>1, <2>2, <2>3, <2>4 DEF IInv
<1>2. ASSUME NEW i \in Images, FetchImage(i) PROVE IInv'
  BY <1>2 DEF IInv, FetchImage, TypeOK, LoopInv, EventsInv, ResponseInv, Served,
              FallbackOnlyWhenNeeded
<1>3. ASSUME NEW i \in Images, FetchFails(i) PROVE IInv'
  BY <1>3 DEF IInv, FetchFails, TypeOK, LoopInv, EventsInv, ResponseInv, ReportsLast, Served,
              FallbackOnlyWhenNeeded, _build_response
<1>4. CASE ProviderAnswers
  <2>1. /\ pc = "asking" /\ MustAsk /\ Supported(NextProvider)
        /\ attempts_done' = attempts_done + 1
        /\ UNCHANGED <<settings, request, pc, last_error, response>>
    BY <1>4 DEF ProviderAnswers
  <2>2. PICK a \in Results(NextProvider) :
           /\ last_result' = [call |-> attempts_done + 1, answer |-> a]
           /\ usage_events' = Append(usage_events, _usage_event(a.provider, _status_for(a), a.usage))
           /\ replies' = Append(replies, a)
           /\ spent' = [spent EXCEPT !.readable = @ + a.usage.total]
    BY <1>4 DEF ProviderAnswers
  <2>3. a \in Answers
    BY <2>1, AskingFacts, ResultsAreAnswers
  <2>4. a # None /\ last_result' # None /\ last_result' \in [call : Nat, answer : Answers]
    BY <2>1, <2>2, <2>3, AskingFacts, NoneAssumption
  <2>5. attempts_done + 1 \in 1..2 /\ attempts_done = Len(replies)
    BY <2>1, AskingFacts
  <2>6. replies \in Seq(Answers \cup {None}) /\ spent \in [readable : Nat, unreadable : Nat]
    BY DEF IInv, TypeOK
  <2>7. TypeOK'
    <3>1. a.usage.total \in Nat
      BY <2>3 DEF Answers, Usages
    <3>2. /\ replies' \in Seq(Answers \cup {None}) /\ spent' \in [readable : Nat, unreadable : Nat]
          /\ last_result'.call \in 1..Len(replies')
      BY <2>2, <2>3, <2>5, <2>6, <3>1
    <3>3. QED
      BY <2>1, <2>5, <3>2 DEF IInv, TypeOK
  <2>8. LoopInv'
    BY <2>1, <2>2, <2>3, <2>4, <2>5, <2>6 DEF LoopInv
  <2>9. EventsInv'
    <3>1. /\ a.provider \in Names /\ a.usage \in Usages
          /\ _status_for(a) \in {"completed", "needs_review", "failed"}
      BY <2>3 DEF Answers, _status_for
    <3>2. QED
      BY <2>1, <2>2, <2>3, <3>1, EventsGrow
  <2>10. QED
    BY <2>1, <2>7, <2>8, <2>9 DEF IInv, ResponseInv, Served
<1>5. CASE ProviderFails
  <2>1. /\ pc = "asking" /\ MustAsk
        /\ attempts_done' = attempts_done + 1 /\ last_error' = "raised"
        /\ usage_events' = Append(usage_events, _usage_event(NextProvider, "failed", NoUsage))
        /\ replies' = Append(replies, None)
        /\ UNCHANGED <<settings, request, pc, last_result, response>>
    BY <1>5 DEF ProviderFails
  <2>2. PICK tokens \in Losses(NextProvider) : spent' = [spent EXCEPT !.unreadable = @ + tokens]
    BY <1>5 DEF ProviderFails
  <2>3. tokens \in Nat
    BY ModelAssumption DEF Losses, _extract_usage, Usages
  <2>4. /\ attempts_done + 1 \in 1..2 /\ attempts_done = Len(replies)
        /\ NextProvider \in Names
    BY <2>1, AskingFacts
  <2>5. replies \in Seq(Answers \cup {None}) /\ spent \in [readable : Nat, unreadable : Nat]
    BY DEF IInv, TypeOK
  <2>6. TypeOK'
    BY <2>1, <2>2, <2>3, <2>4, <2>5 DEF IInv, TypeOK
  <2>7. LoopInv'
    BY <2>1, <2>4, <2>5 DEF IInv, LoopInv
  <2>8. EventsInv'
    <3>1. NoUsage \in Usages
      BY DEF NoUsage, Usages
    <3>2. QED
      BY <2>1, <2>4, <3>1, EventsGrow
  <2>9. QED
    BY <2>1, <2>6, <2>7, <2>8 DEF IInv, ResponseInv, Served
<1>6. CASE Respond
  <2>1. TypeOK' /\ LoopInv'
    BY <1>6 DEF IInv, Respond, TypeOK, LoopInv
  <2>2. EventsInv'
    BY <1>6 DEF IInv, Respond, EventsInv, FallbackOnlyWhenNeeded
  <2>3. ResponseInv'
    BY <1>6 DEF IInv, Respond, ResponseInv, ReportsLast, FinalResponse, _build_response, TypeOK,
       _status_for, FinalError, Rounded
  <2>4. QED
    BY <2>1, <2>2, <2>3 DEF IInv
<1>7. CASE UNCHANGED vars
  <2>1. TypeOK' /\ LoopInv'
    BY <1>7 DEF IInv, vars, TypeOK, LoopInv
  <2>2. EventsInv'
    BY <1>7 DEF IInv, vars, EventsInv, FallbackOnlyWhenNeeded
  <2>3. ResponseInv'
    BY <1>7 DEF IInv, vars, ResponseInv, ReportsLast, Served, _status_for, FinalError, Rounded
  <2>4. QED
    BY <2>1, <2>2, <2>3 DEF IInv
<1>8. QED
  BY <1>1, <1>2, <1>3, <1>4, <1>5, <1>6, <1>7 DEF Next

LEMMA Invariance == Spec => []IInv
  BY InitIInv, NextIInv, PTL DEF Spec

(***************************************************************************)
(* The variables have their types, confidences included.                   *)
(***************************************************************************)
THEOREM TypeCorrect == Spec => []TypeOK
  BY Invariance, PTL DEF IInv

(***************************************************************************)
(* A response is the last answer, whole (process).                         *)
(***************************************************************************)
THEOREM OneCallReported == Spec => []ReportsOneCall
<1>1. IInv => ReportsOneCall
  <2> SUFFICES ASSUME IInv, Served, \E n \in DOMAIN replies : replies[n] # None
               PROVE  ReportsOneCall
    BY DEF ReportsOneCall
  <2>1. last_result # None
    BY DEF IInv, LoopInv
  <2>2. QED
    BY <2>1, NoneAssumption DEF ReportsOneCall, IInv, LoopInv, ResponseInv, ReportsLast
<1>2. QED
  BY <1>1, Invariance, PTL

(***************************************************************************)
(* An answer that reaches the minimum is the one reported (process).       *)
(***************************************************************************)
THEOREM UsableAnswersKept == Spec => []NoUsableAnswerDropped
<1>1. IInv => NoUsableAnswerDropped
  <2> SUFFICES ASSUME IInv, Served, NEW n \in DOMAIN replies, replies[n] # None,
                      replies[n].confidence >= settings.minimum_confidence_threshold
               PROVE  response.from = n /\ response.status # "failed"
    BY DEF NoUsableAnswerDropped
  <2>1. last_result # None
    BY DEF IInv, LoopInv
  <2>2. n = Len(replies)
    BY DEF IInv, EventsInv, FallbackOnlyWhenNeeded, TypeOK
  <2>3. last_result.call = n /\ last_result.answer = replies[n]
    BY <2>1, <2>2 DEF IInv, LoopInv, TypeOK
  <2>4. QED
    BY <2>1, <2>3 DEF GoodEnough, _status_for, IInv, ResponseInv, ReportsLast
<1>2. QED
  BY <1>1, Invariance, PTL

(***************************************************************************)
(* A completed extraction reports an accepted confidence (_status_for).    *)
(***************************************************************************)
THEOREM CompletedAccepted == Spec => []CompletedIsAccepted
<1>1. IInv => CompletedIsAccepted
  <2> SUFFICES ASSUME IInv, Served, response.status = "completed"
               PROVE  response.confidence >= settings.accepted_confidence_threshold
    BY DEF CompletedIsAccepted
  <2>1. last_result # None
    BY DEF IInv, ResponseInv, ReportsLast
  <2>2. last_result.answer.confidence >= settings.accepted_confidence_threshold
    BY <2>1 DEF _status_for, IInv, ResponseInv, ReportsLast
  <2>3. last_result.answer.confidence \in Nat
    BY <2>1 DEF IInv, LoopInv, Answers
  <2>4. PICK t \in Nat : settings.accepted_confidence_threshold = 10 * t
    <3>1. /\ settings.accepted_confidence_threshold \in Nat
          /\ settings.accepted_confidence_threshold % 10 = 0
      BY ConfigurationAssumption DEF IInv, TypeOK
    <3>2. settings.accepted_confidence_threshold = 10 * (settings.accepted_confidence_threshold \div 10)
      BY <3>1
    <3>3. QED
      BY <3>1, <3>2
  <2>5. QED
    BY <2>1, <2>2, <2>3, <2>4, RoundingKeepsThreshold DEF IInv, ResponseInv, ReportsLast
<1>2. QED
  BY <1>1, Invariance, PTL

(***************************************************************************)
(* error_message says failed and only that (process).                      *)
(***************************************************************************)
THEOREM ErrorsExplainFailures == Spec => []ErrorIffFailed
<1>1. IInv => ErrorIffFailed
  <2> SUFFICES ASSUME IInv, Served
               PROVE  response.error # None <=> response.status = "failed"
    BY DEF ErrorIffFailed
  <2>1. None # "raised" /\ None # "nothing_extracted" /\ None # "low_confidence"
    BY NoneAssumption
  <2>2. QED
    BY <2>1 DEF IInv, ResponseInv, ReportsLast, FinalError, _status_for
<1>2. QED
  BY <1>1, Invariance, PTL

(***************************************************************************)
(* The fallback is asked only for want of a usable answer (process).       *)
(***************************************************************************)
THEOREM FallbackNeeded == Spec => []FallbackOnlyWhenNeeded
  BY Invariance, PTL DEF IInv, EventsInv

(***************************************************************************)
(* Tokens: one more event adds its own to those reported.                  *)
(***************************************************************************)
Events ==
    [attempt : Nat, provider : Names, status : {"completed", "needs_review", "failed"},
     usage : Usages]

LEMMA RecordGrows ==
    ASSUME NEW es \in Seq(Events), NEW e \in Events
    PROVE  _usage_record(Append(es, e)) = _usage_record(es) + UsageOf(e)
<1> DEFINE n == Len(es)
           w == [m \in DOMAIN es |-> UsageOf(es[m])]
           v == [m \in DOMAIN Append(es, e) |-> UsageOf(Append(es, e)[m])]
<1>1. n \in Nat /\ DOMAIN es = 1..n /\ DOMAIN Append(es, e) = 1..n \cup {n + 1} /\ n + 1 \notin 1..n
  OBVIOUS
<1>2. \A f \in Events : UsageOf(f) \in Int
  BY DEF Events, UsageOf, Usages
<1>3. /\ \A m \in 1..n : w[m] \in Int /\ v[m] = w[m]
      /\ v[n + 1] = UsageOf(e) /\ v[n + 1] \in Int
  BY <1>1, <1>2
<1>4. IsFiniteSet(1..n)
  BY <1>1, FS_Interval
<1>5. _usage_record(es) = SumFunctionOnSet(w, 1..n)
  BY <1>1 DEF _usage_record, SumFunction
<1>6. _usage_record(Append(es, e)) = SumFunctionOnSet(v, 1..n \cup {n + 1})
  BY <1>1 DEF _usage_record, SumFunction
<1> HIDE DEF n, w, v
<1>7. SumFunctionOnSet(v, 1..n) = SumFunctionOnSet(w, 1..n)
  BY <1>3, <1>4, SumOfEqualWeights
<1>8. SumFunctionOnSet(v, 1..n \cup {n + 1}) = SumFunctionOnSet(v, 1..n) + v[n + 1]
  BY <1>1, <1>3, <1>4, SumWithOneMore
<1> QED
  BY <1>3, <1>5, <1>6, <1>7, <1>8

(* No event, no token. *)
LEMMA NoEventNoToken == _usage_record(<<>>) = 0
<1>1. DOMAIN [n \in DOMAIN <<>> |-> UsageOf(<<>>[n])] = {}
  OBVIOUS
<1> QED
  BY <1>1, SumOfNone DEF _usage_record, SumFunction

(* What the events add up to is what the readable answers have cost, and   *)
(* the response carries it.                                                *)
UsageInv ==
    /\ _usage_record(usage_events) = spent.readable
    /\ UsageIsComplete

LEMMA UsageNext == IInv /\ UsageInv /\ [Next]_vars => UsageInv'
<1> SUFFICES ASSUME IInv, UsageInv, [Next]_vars PROVE UsageInv'
  OBVIOUS
<1>1. ASSUME UNCHANGED <<usage_events, spent, pc, response>> PROVE UsageInv'
  BY <1>1 DEF UsageInv, UsageIsComplete, Served
<1>2. ASSUME NEW q \in Requests, Receive(q) PROVE UsageInv'
  <2>1. response'.code # 200 \/ pc' # "answered"
    BY <1>2 DEF Receive
  <2> QED
    BY <1>2, <2>1 DEF Receive, UsageInv, UsageIsComplete, Served
<1>3. ASSUME NEW i \in Images, FetchImage(i) PROVE UsageInv'
  BY <1>3 DEF FetchImage, UsageInv, UsageIsComplete, Served
<1>4. ASSUME NEW i \in Images, FetchFails(i) PROVE UsageInv'
  BY <1>4 DEF FetchFails, UsageInv, UsageIsComplete, Served, _build_response
<1>5. CASE ProviderAnswers
  <2>1. PICK a \in Results(NextProvider) :
           /\ usage_events' = Append(usage_events, _usage_event(a.provider, _status_for(a), a.usage))
           /\ spent' = [spent EXCEPT !.readable = @ + a.usage.total]
    BY <1>5 DEF ProviderAnswers
  <2>2. /\ pc = "asking" /\ pc' = "asking" /\ MustAsk /\ Supported(NextProvider)
    BY <1>5 DEF ProviderAnswers
  <2>3. a \in Answers /\ request.attempts \in Nat /\ attempts_done \in Nat
    BY <2>2, AskingFacts, ResultsAreAnswers DEF IInv, TypeOK
  <2> DEFINE e == _usage_event(a.provider, _status_for(a), a.usage)
  <2>4. e \in Events /\ UsageOf(e) = a.usage.total
    BY <2>3 DEF Events, Answers, _status_for, _usage_event, UsageOf
  <2>5. usage_events \in Seq(Events) /\ spent \in [readable : Nat, unreadable : Nat]
    BY DEF IInv, EventsInv, Events, TypeOK
  <2>6. _usage_record(usage_events') = _usage_record(usage_events) + a.usage.total
    <3> HIDE DEF e
    <3> QED
      BY <2>1, <2>4, <2>5, RecordGrows DEF e
  <2> QED
    BY <2>1, <2>2, <2>5, <2>6 DEF UsageInv, UsageIsComplete, Served
<1>6. CASE ProviderFails
  <2>1. PICK tokens \in Losses(NextProvider) : spent' = [spent EXCEPT !.unreadable = @ + tokens]
    BY <1>6 DEF ProviderFails
  <2>2. /\ pc = "asking" /\ pc' = "asking" /\ MustAsk
        /\ usage_events' = Append(usage_events, _usage_event(NextProvider, "failed", NoUsage))
    BY <1>6 DEF ProviderFails
  <2>3. NextProvider \in Names /\ request.attempts \in Nat /\ attempts_done \in Nat
    BY <2>2, AskingFacts DEF IInv, TypeOK
  <2> DEFINE e == _usage_event(NextProvider, "failed", NoUsage)
  <2>4. e \in Events /\ UsageOf(e) = 0
    BY <2>3 DEF Events, _usage_event, UsageOf, NoUsage, Usages
  <2>5. usage_events \in Seq(Events) /\ spent \in [readable : Nat, unreadable : Nat]
    BY DEF IInv, EventsInv, Events, TypeOK
  <2>6. _usage_record(usage_events') = _usage_record(usage_events) + 0
    <3> HIDE DEF e
    <3> QED
      BY <2>2, <2>4, <2>5, RecordGrows DEF e
  <2> QED
    BY <2>1, <2>2, <2>5, <2>6 DEF UsageInv, UsageIsComplete, Served
<1>7. CASE Respond
  <2>1. response'.tokens = _usage_record(usage_events)
    BY <1>7 DEF Respond, FinalResponse, _build_response
  <2> QED
    BY <1>7, <2>1 DEF Respond, UsageInv, UsageIsComplete
<1>8. CASE UNCHANGED vars
  BY <1>1, <1>8 DEF vars
<1>9. QED
  BY <1>2, <1>3, <1>4, <1>5, <1>6, <1>7, <1>8 DEF Next

(***************************************************************************)
(* A response accounts for every token of the answers that could be read,  *)
(* replaced answers included (_usage_record).                              *)
(***************************************************************************)
THEOREM UsageAccounted == Spec => []UsageIsComplete
<1>1. Init => UsageInv
  BY NoEventNoToken DEF Init, UsageInv, UsageIsComplete, Served
<1>2. UsageInv => UsageIsComplete
  BY DEF UsageInv
<1> QED
  BY Invariance, UsageNext, <1>1, <1>2, PTL DEF Spec

=============================================================================
