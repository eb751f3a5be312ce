------------------------- MODULE DocumentExtraction -------------------------
(***************************************************************************)
(* One call of POST /document-extractions/process: the request is admitted *)
(* (core/security.py), the image is fetched (services/images.py), and one  *)
(* or two AI providers are asked in turn (providers/) until an answer is   *)
(* good enough; the response carries the last answer and the usage of     *)
(* every call (services/document_extractions.py).  The service keeps no    *)
(* state between calls, so one call is the whole behaviour.                *)
(*                                                                         *)
(* Confidences are counted in units of 10^-5, so that the rounding of the  *)
(* reported one to four decimals can be told from the confidence itself.   *)
(***************************************************************************)
EXTENDS Integers, Sequences, SequencesExt

CONSTANTS
    Configurations,  \* the values of Settings this code may be started with
    Requests,        \* requests: [provider, attempts, source, token]
    Images,          \* what is found at a file_url: [scheme, reachable, header, guess, size]
    RawConfidences,  \* numbers a model may write as its confidence
    Names,           \* what may be written where a provider is named
    NaN,             \* not a number, which JSON may hold for Python
    UsageMetadata,   \* token counts a model may report: [prompt, completion, total]
    None

One == 100000
InUnit(c) == 0 <= c /\ c <= One

Usages == [prompt : Nat, completion : Nat, total : Nat]

Answers ==
    {a \in [provider : Names, is_invoice : BOOLEAN, confidence : Nat, usage : Usages] :
        InUnit(a.confidence)}

ASSUME NameAssumption == {"google_genai", "gemini", "mock"} \subseteq Names

ASSUME NoneAssumption ==
    /\ None \notin Int /\ None \notin Names /\ None \notin Requests
    /\ None \notin Answers /\ None \notin [call : Nat, answer : Answers]
    /\ None \notin {"raised", "nothing_extracted", "low_confidence"}

ASSUME ModelAssumption ==
    /\ NaN \notin Int \cup {None}
    /\ RawConfidences \subseteq Int \cup {None, NaN}
    /\ UsageMetadata \subseteq Usages

ASSUME RequestAssumption ==
    \A q \in Requests : q.attempts \in Nat /\ q.provider \in Names \cup {None}

(* The accepted threshold has at most four decimals. *)
ASSUME ConfigurationAssumption ==
    \A s \in Configurations :
       /\ s.ai_provider \in Names /\ s.fallback_ai_provider \in Names \cup {None}
       /\ s.MAX_AI_ATTEMPTS \in Int
       /\ s.accepted_confidence_threshold \in Nat /\ s.accepted_confidence_threshold % 10 = 0
       /\ s.minimum_confidence_threshold \in Nat

VARIABLES
    settings,       \* the configuration of the process
    request,        \* the request being served, None before it arrives
    pc,             \* "idle", "fetching", "asking", "answered"
    attempts_done,  \* providers asked so far
    last_result,    \* the answer of the last call that returned one
    last_error,     \* "raised" after some call raised
    usage_events,   \* one entry per provider asked
    response,       \* what the caller gets
    replies,        \* history: the answer each call returned, None for a call that raised
    spent           \* history: tokens the models have billed, [readable, unreadable]

vars == <<settings, request, pc, attempts_done, last_result, last_error,
          usage_events, response, replies, spent>>

-----------------------------------------------------------------------------
(* Admission and the image. *)

verify_request(q) ==
    IF settings.allowed_request_sources # {} /\ q.source \notin settings.allowed_request_sources
    THEN 403
    ELSE IF settings.postas_ai_api_token = None
         THEN IF settings.require_api_token THEN 500 ELSE 200
         ELSE IF q.token = settings.postas_ai_api_token THEN 200 ELSE 401

(* The header wins over the extension of the path; neither: octet-stream. *)
_normalize_content_type(i) ==
    IF i.header # None THEN i.header
    ELSE IF i.guess # None THEN i.guess ELSE "application"

Fetchable(i) ==
    /\ i.scheme \in {"http", "https"}
    /\ i.reachable
    /\ _normalize_content_type(i) = "image"
    /\ i.size <= settings.max_image_bytes

-----------------------------------------------------------------------------
(* Providers. *)

Lowered(name) == IF name = "Gemini" THEN "gemini" ELSE name

(* The registry: the name each class reports as its own. *)
PROVIDERS == [name \in {"google_genai", "gemini", "mock"} |->
                 IF name = "mock" THEN "mock" ELSE "google_genai"]

Supported(name) == Lowered(name) \in DOMAIN PROVIDERS

_provider_attempts(asked) ==
    LET first == IF asked = None THEN settings.ai_provider ELSE asked
        all   == IF settings.fallback_ai_provider \in {None, first}
                 THEN <<first>>
                 ELSE <<first, settings.fallback_ai_provider>>
        max   == IF settings.MAX_AI_ATTEMPTS < 1 THEN 1 ELSE settings.MAX_AI_ATTEMPTS
    IN  SubSeq(all, 1, IF max < Len(all) THEN max ELSE Len(all))

(* Mutation: nothing keeps a large number within 0..1. *)
Unbounded(raw) ==
    IF raw = None THEN 0 ELSE IF raw = NaN THEN One ELSE IF raw > One THEN raw \div 100 ELSE IF raw < 0 THEN 0 ELSE raw

(* Above one it is read as a percentage, then forced into 0..1; min keeps  *)
(* the 1 it compares with what is not a number.                            *)
parse_confidence(raw) ==
    LET parsed == IF raw = None THEN 0 ELSE IF raw > One THEN raw \div 100 ELSE raw
    IN  IF raw = NaN THEN One
        ELSE IF parsed < 0 THEN 0 ELSE IF parsed > One THEN One ELSE parsed

(* A total the provider leaves out is prompt and completion together. *)
_extract_usage(u) ==
    [u EXCEPT !.total = IF u.total # 0 THEN u.total ELSE u.prompt + u.completion]

NoUsage == [prompt |-> 0, completion |-> 0, total |-> 0]

MockResult == [provider |-> "mock", is_invoice |-> TRUE, confidence |-> 90000, usage |-> NoUsage]

(* What a supported provider may return when nothing raises. *)
Results(name) ==
    IF PROVIDERS[Lowered(name)] = "mock"
    THEN {MockResult}
    ELSE IF settings.google_api_key = None
    THEN {}
    ELSE [provider : {PROVIDERS[Lowered(name)]}, is_invoice : BOOLEAN,
          confidence : {parse_confidence(raw) : raw \in RawConfidences},
          usage : {_extract_usage(u) : u \in UsageMetadata}]

(* Tokens billed by a call that raises: none when the provider is unknown, *)
(* has no key or is not reached, some when its answer is not the JSON of   *)
(* an invoice.  The mock never raises.                                     *)
Losses(name) ==
    IF ~Supported(name) THEN {0}
    ELSE IF PROVIDERS[Lowered(name)] = "mock" THEN {}
    ELSE IF settings.google_api_key = None THEN {0}
    ELSE {0} \cup {_extract_usage(u).total : u \in UsageMetadata}

-----------------------------------------------------------------------------
(* The response. *)

(* Mutation: the lower threshold accepts. *)
AcceptedAtMinimum(a) ==
    IF ~a.is_invoice THEN "needs_review"
    ELSE IF a.confidence >= settings.minimum_confidence_threshold THEN "completed" ELSE "failed"

_status_for(a) ==
    IF ~a.is_invoice THEN "needs_review"
    ELSE IF a.confidence >= settings.accepted_confidence_threshold THEN "completed"
    ELSE IF a.confidence >= settings.minimum_confidence_threshold THEN "needs_review"
    ELSE "failed"

(* Mutation: the loop ends at an accepted answer only. *)
Accepted(a) == a.confidence >= settings.accepted_confidence_threshold

GoodEnough(a) == a.confidence >= settings.minimum_confidence_threshold

(* round(confidence, 4) *)
Rounded(c) == 10 * ((c + 5) \div 10)

_usage_event(name, status, usage) ==
    [attempt |-> request.attempts + attempts_done + 1, provider |-> name,
     status |-> status, usage |-> usage]

UsageOf(e) == e.usage.total

(* Mutation: only the last call is counted. *)
UsageOfLast(events) == IF events = <<>> THEN 0 ELSE UsageOf(Last(events))

_usage_record(events) == SumFunction([n \in DOMAIN events |-> UsageOf(events[n])])

(* attempts: the caller's own count when it has one. *)
_build_response(status, from, provider, confidence, error) ==
    [code |-> 200, status |-> status, from |-> from, provider |-> provider,
     confidence |-> confidence, error |-> error,
     attempts |-> IF request.attempts > 0 THEN request.attempts ELSE attempts_done,
     tokens |-> _usage_record(usage_events)]

FinalError(status) == IF status = "failed" THEN "low_confidence" ELSE None

(* Mutation: the provider of the last call, not of the last answer. *)
MixedResponse ==
    LET status == IF last_result = None THEN "failed" ELSE _status_for(last_result.answer)
    IN  _build_response(status, IF last_result = None THEN 0 ELSE last_result.call,
                        IF usage_events = <<>> THEN None ELSE Last(usage_events).provider,
                        IF last_result = None THEN None ELSE Rounded(last_result.answer.confidence),
                        FinalError(status))

(* "from" is the call whose data is returned, 0 for the request's own. *)
FinalResponse ==
    IF last_result = None
    THEN _build_response("failed", 0, IF usage_events = <<>> THEN None ELSE Last(usage_events).provider,
                         None, IF last_error = None THEN "nothing_extracted" ELSE last_error)
    ELSE LET a == last_result.answer
             status == _status_for(a)
         IN  _build_response(status, last_result.call, a.provider, Rounded(a.confidence),
                             FinalError(status))

-----------------------------------------------------------------------------
Init ==
    /\ settings \in Configurations
    /\ request = None /\ pc = "idle" /\ attempts_done = 0
    /\ last_result = None /\ last_error = None
    /\ usage_events = <<>> /\ response = None
    /\ replies = <<>> /\ spent = [readable |-> 0, unreadable |-> 0]

Receive(q) ==
    /\ pc = "idle"
    /\ request' = q
    /\ IF verify_request(q) = 200
       THEN pc' = "fetching" /\ UNCHANGED response
       ELSE pc' = "answered" /\ response' = [code |-> verify_request(q)]
    /\ UNCHANGED <<settings, attempts_done, last_result, last_error, usage_events, replies, spent>>

FetchImage(i) ==
    /\ pc = "fetching"
    /\ Fetchable(i)
    /\ pc' = "asking"
    /\ UNCHANGED <<settings, request, attempts_done, last_result, last_error, usage_events,
                   response, replies, spent>>

(* No provider is asked: one attempt, no usage. *)
FetchFails(i) ==
    /\ pc = "fetching"
    /\ ~Fetchable(i)
    /\ attempts_done' = 1
    /\ last_error' = "raised"
    /\ pc' = "answered"
    /\ response' = [_build_response("failed", 0, None, None, "raised")
                      EXCEPT !.attempts = IF request.attempts > 0 THEN request.attempts ELSE 1]
    /\ UNCHANGED <<settings, request, last_result, usage_events, replies, spent>>

(* The loop goes on while a provider is left and no answer was good enough. *)
MustAsk ==
    /\ attempts_done < Len(_provider_attempts(request.provider))
    /\ last_result # None => ~GoodEnough(last_result.answer)

NextProvider == _provider_attempts(request.provider)[attempts_done + 1]

ProviderAnswers ==
    /\ pc = "asking" /\ MustAsk /\ Supported(NextProvider)
    /\ \E a \in Results(NextProvider) :
          /\ last_result' = [call |-> attempts_done + 1, answer |-> a]
          /\ usage_events' = Append(usage_events, _usage_event(a.provider, _status_for(a), a.usage))
          /\ replies' = Append(replies, a)
          /\ spent' = [spent EXCEPT !.readable = @ + a.usage.total]
    /\ attempts_done' = attempts_done + 1
    /\ UNCHANGED <<settings, request, pc, last_error, response>>

(* What was billed for an unreadable answer is not recorded. *)
ProviderFails ==
    /\ pc = "asking" /\ MustAsk
    /\ \E tokens \in Losses(NextProvider) :
          spent' = [spent EXCEPT !.unreadable = @ + tokens]
    /\ attempts_done' = attempts_done + 1
    /\ last_error' = "raised"
    /\ usage_events' = Append(usage_events, _usage_event(NextProvider, "failed", NoUsage))
    /\ replies' = Append(replies, None)
    /\ UNCHANGED <<settings, request, pc, last_result, response>>

Respond ==
    /\ pc = "asking" /\ ~MustAsk
    /\ pc' = "answered"
    /\ response' = FinalResponse
    /\ UNCHANGED <<settings, request, attempts_done, last_result, last_error, usage_events,
                   replies, spent>>

Next ==
    \/ \E q \in Requests : Receive(q)
    \/ \E i \in Images : FetchImage(i) \/ FetchFails(i)
    \/ ProviderAnswers
    \/ ProviderFails
    \/ Respond

Spec == Init /\ [][Next]_vars

-----------------------------------------------------------------------------
(* The variables have their types; a confidence is always within 0..1,     *)
(* whatever number the model writes (parse_confidence).                    *)
TypeOK ==
    /\ settings \in Configurations
    /\ request \in Requests \cup {None}
    /\ pc \in {"idle", "fetching", "asking", "answered"}
    /\ request = None <=> pc = "idle"
    /\ attempts_done \in 0..2
    /\ last_error \in {None, "raised"}
    /\ replies \in Seq(Answers \cup {None})
    /\ last_result # None => last_result.call \in 1..Len(replies)
    /\ spent \in [readable : Nat, unreadable : Nat]

Served == pc = "answered" /\ response.code = 200

(* process: the status, the confidence, the provider and the data of a     *)
(* response all come from one and the same call, the last one that         *)
(* answered; a later call that raises neither replaces nor mixes them.     *)
ReportsOneCall ==
    Served /\ (\E n \in DOMAIN replies : replies[n] # None) =>
        LET n == response.from IN
        /\ n \in DOMAIN replies
        /\ replies[n] # None
        /\ \A m \in DOMAIN replies : m > n => replies[m] = None
        /\ response.provider = replies[n].provider
        /\ response.confidence = Rounded(replies[n].confidence)
        /\ response.status = _status_for(replies[n])

(* process: an answer the response does not carry was under the minimum,   *)
(* so the fallback may replace a better answer but never a usable one, and *)
(* a document some model could read is not reported as failed.             *)
NoUsableAnswerDropped ==
    Served => \A n \in DOMAIN replies :
                 replies[n] # None /\ replies[n].confidence >= settings.minimum_confidence_threshold =>
                     response.from = n /\ response.status # "failed"

(* _status_for: a completed extraction reports a confidence that reaches   *)
(* the configured threshold, after the rounding too.                       *)
CompletedIsAccepted ==
    Served /\ response.status = "completed" =>
        response.confidence >= settings.accepted_confidence_threshold

(* _usage_record: the tokens reported are those of every call that         *)
(* answered, replaced answers included; only a call whose answer could not *)
(* be read is billed and not reported.                                     *)
UsageIsComplete == Served => response.tokens = spent.readable

(* process: error_message is there exactly when the status is failed; an   *)
(* error of the first provider does not outlive the fallback's answer.     *)
ErrorIffFailed ==
    Served => (response.error # None <=> response.status = "failed")

(* process: the fallback is asked only after an error or an answer under   *)
(* the minimum, whatever the attempts allowed, and every event is numbered *)
(* after the caller's own attempts.                                        *)
FallbackOnlyWhenNeeded ==
    /\ Len(usage_events) = Len(replies)
    /\ \A n \in DOMAIN usage_events :
          /\ usage_events[n].attempt = request.attempts + n
          /\ n < Len(replies) =>
                replies[n] = None
                \/ ~(replies[n].confidence >= settings.minimum_confidence_threshold)

=============================================================================
