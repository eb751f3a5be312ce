---------------------------- MODULE ArcaIssuing ----------------------------
(***************************************************************************)
(* Issuing electronic vouchers on one fiscal sequence.                     *)
(*                                                                         *)
(* A fiscal sequence is one (environment, CUIT, point of sale, voucher     *)
(* type); sequences share no state.  The API enqueues invoices as rows of  *)
(* arca_invoices (app/arca/service.py, InvoiceService), worker processes   *)
(* (app/arca/worker.py) claim due rows and drive them to a terminal        *)
(* status, and ARCA (external) authorises vouchers with consecutive        *)
(* numbers.  Workers talk to ARCA over connections that may time out after *)
(* the request arrived, and any worker may die between two steps.          *)
(***************************************************************************)
EXTENDS Naturals, FiniteSets

CONSTANTS
  Invoices,         \* the invoice requests of the sequence
  Workers,          \* the worker processes
  None,             \* "no invoice", "no worker"
  MaxAttempts,      \* MAX_ATTEMPTS, 5 in the code
  MaxCrashes,       \* how many worker deaths a behaviour may contain
  ExplicitNumbers,  \* the voucher numbers explicit requests may name
  InitialLast,      \* last number ARCA had authorised before the first request
  MaxForeign,       \* numbers other systems may take on the sequence
  Faults            \* what the environment may do, a subset of AllFaults

(***************************************************************************)
(* "slow_worker":   a worker may outlive the lease of its claim            *)
(* "late_delivery": a request may reach ARCA after its sender gave up      *)
(* "garbled_reply": the reply of an authorisation may be unreadable, which *)
(*                  client.py reports as a non-retryable ArcaClientError   *)
(* "refused_query": connecting or querying may fail with an error that is  *)
(*                  not retryable (HTTP 401 or 403, an unreadable reply)   *)
(* "no_cae":        querying a number ARCA does not know may return a      *)
(*                  voucher without CAE instead of a not-found error       *)
(* "internal":      a step of process() may raise, the reading of the row   *)
(*                  for its response after the last commit included         *)
(* "revalidation":  the profile may be re-validated while rows are queued  *)
(***************************************************************************)
AllFaults == {"slow_worker", "late_delivery", "garbled_reply",
              "refused_query", "no_cae", "internal", "revalidation"}

ASSUME ConstantsAssumption ==
  /\ None \notin Invoices \cup Workers
  /\ MaxAttempts \in Nat \ {0}
  /\ MaxCrashes \in Nat
  /\ ExplicitNumbers \subseteq Nat \ {0}
  /\ InitialLast \in Nat
  /\ MaxForeign \in Nat
  /\ Faults \subseteq AllFaults

VARIABLES
  status,       \* [Invoices -> Statuses]: arca_invoices.status
  number,       \* [Invoices -> Nat]: voucher_number, 0 is NULL
  attempts,     \* [Invoices -> Nat]: attempt_count
  due,          \* [Invoices -> Dues]: next_retry_at against the clock
  cae,          \* [Invoices -> Caes]: whose voucher the stored CAE is of
  profileValid, \* validation_status = "valid" of the fiscal profile
  last,         \* ARCA: last authorised number of the sequence
  issued,       \* ARCA: vouchers it authorised for these invoices
  foreign,      \* ARCA: how many numbers other systems took since the start
  requests,     \* createVoucher requests on their way to ARCA
  pc,           \* [Workers -> Steps]: where process() is
  job,          \* [Workers -> Invoices or None]: the record in hand
  sNumber,      \* [Workers -> Nat]: record.voucher_number in the session
  sAttempts,    \* [Workers -> Nat]: record.attempt_count in the session
  expected,     \* [Workers -> Nat]: getLastVoucher + 1
  answer,       \* [Workers -> Answers]: reply waiting on the connection
  lock,         \* holder of the advisory lock of the sequence, or None
  crashes       \* worker deaths so far

rows    == <<status, number, attempts, due, cae>>
arca    == <<last, issued, foreign, requests>>
session == <<job, sNumber, sAttempts>>
workers == <<pc, session, expected, answer, lock>>
vars    == <<rows, profileValid, arca, workers, crashes>>

Statuses == {"absent", "receiver_identification_required", "pending",
             "processing", "retrying", "approved", "rejected", "failed",
             "quarantined"}
Dues     == {"null", "scheduled", "due"}
Caes     == {"none", "own", "foreign"}
Steps    == {"idle", "connect", "lookup", "sequence", "reserve", "create",
             "raised", "raised_in_try"}
Answers  == {"none", "cae", "refused"}
Vouchers == [num : Nat \ {0}, inv : Invoices]
Requests == [num : Nat \ {0}, inv : Invoices, att : Nat]

(* The statuses the worker's query selects.  Mutation: forget the rows of *)
(* workers that died.                                                     *)
ActiveWithoutProcessing == {"pending", "retrying"}
ActiveStatuses == {"pending", "processing", "retrying"}

Init ==
  /\ status = [i \in Invoices |-> "absent"]
  /\ number = [i \in Invoices |-> 0]
  /\ attempts = [i \in Invoices |-> 0]
  /\ due = [i \in Invoices |-> "null"]
  /\ cae = [i \in Invoices |-> "none"]
  /\ profileValid = TRUE
  /\ last = InitialLast
  /\ issued = {}
  /\ foreign = 0
  /\ requests = {}
  /\ pc = [w \in Workers |-> "idle"]
  /\ job = [w \in Workers |-> None]
  /\ sNumber = [w \in Workers |-> 0]
  /\ sAttempts = [w \in Workers |-> 0]
  /\ expected = [w \in Workers |-> 0]
  /\ answer = [w \in Workers |-> "none"]
  /\ lock = None
  /\ crashes = 0

(***************************************************************************)
(* The API.                                                                *)
(***************************************************************************)

(* uq_arca_invoice_fiscal_reference: rejected rows count, NULL does not. *)
Taken(n, i) == \E j \in Invoices \ {i} : number[j] = n

FreeFor(n, i) == n = 0 \/ ~Taken(n, i)

(* POST /invoices: n is the explicit number or 0, missing says that the   *)
(* amount requires a receiver the request does not identify.              *)
Enqueue(i, n, missing) ==
  /\ status[i] = "absent"
  /\ profileValid
  /\ FreeFor(n, i)
  /\ status' = [status EXCEPT ![i] = IF missing THEN "receiver_identification_required"
                                                ELSE "pending"]
  /\ due' = [due EXCEPT ![i] = IF missing THEN "null" ELSE "due"]
  /\ number' = [number EXCEPT ![i] = n]
  /\ UNCHANGED <<attempts, cae, profileValid, arca, workers, crashes>>

(* POST /invoices/explicit on a row waiting for its receiver. *)
ResumeReceiverIdentification(i, n) ==
  /\ status[i] = "receiver_identification_required"
  /\ profileValid
  /\ n # 0 /\ FreeFor(n, i)
  /\ number' = [number EXCEPT ![i] = n]
  /\ status' = [status EXCEPT ![i] = "pending"]
  /\ due' = [due EXCEPT ![i] = "due"]
  /\ UNCHANGED <<attempts, cae, profileValid, arca, workers, crashes>>

(* POST /profiles/validate: the live query succeeded or failed. *)
ValidateProfile(ok) ==
  /\ "revalidation" \in Faults
  /\ profileValid' = ok
  /\ UNCHANGED <<rows, arca, workers, crashes>>

(***************************************************************************)
(* Time.  next_retry_at passes: a retry delay ends, or a lease expires.    *)
(* Both are a minute or more, so unless a fault says otherwise the worker  *)
(* has returned and its request has reached ARCA or is lost by then.       *)
(***************************************************************************)
Held(i) == \E w \in Workers : job[w] = i

InFlight(i) == \E m \in requests : m.inv = i

TimePasses(i) ==
  /\ due[i] = "scheduled"
  /\ Held(i) => "slow_worker" \in Faults
  /\ InFlight(i) => "late_delivery" \in Faults
  /\ due' = [due EXCEPT ![i] = "due"]
  /\ UNCHANGED <<status, number, attempts, cae, profileValid, arca, workers, crashes>>

(***************************************************************************)
(* The worker: claiming a row (run_once's query and process() up to its    *)
(* first commit are one transaction that holds the row).                   *)
(***************************************************************************)
Claimable(i) == status[i] \in ActiveStatuses /\ due[i] = "due"

(* process() at its first commit: next_retry_at is the end of the lease,  *)
(* max(60, 2 * timeout) seconds away.  Mutation: the row stays due.       *)
NoLease == "due"
Lease == "scheduled"

(* Claims of one row, bounded for the runs in which leases expire under    *)
(* live workers; in the others AttemptsBounded shows it is never reached.  *)
ClaimBound == MaxAttempts + MaxCrashes

Claim(w, i) ==
  /\ pc[w] = "idle"
  /\ Claimable(i)
  /\ profileValid
  /\ attempts[i] < ClaimBound
  /\ status' = [status EXCEPT ![i] = "processing"]
  /\ attempts' = [attempts EXCEPT ![i] = @ + 1]
  /\ due' = [due EXCEPT ![i] = Lease]
  /\ pc' = [pc EXCEPT ![w] = "connect"]
  /\ job' = [job EXCEPT ![w] = i]
  /\ sNumber' = [sNumber EXCEPT ![w] = number[i]]
  /\ sAttempts' = [sAttempts EXCEPT ![w] = attempts[i] + 1]
  /\ UNCHANGED <<number, cae, profileValid, arca, expected, answer, lock, crashes>>

(* fiscal_profile_not_valid: the row ends as failed, no attempt counted. *)
ClaimWithInvalidProfile(w, i) ==
  /\ pc[w] = "idle"
  /\ Claimable(i)
  /\ ~profileValid
  /\ status' = [status EXCEPT ![i] = "failed"]
  /\ due' = [due EXCEPT ![i] = "null"]
  /\ \/ UNCHANGED <<pc, session>>
     \/ /\ "internal" \in Faults  \* to_response raises, see CommitAndReturn
        /\ pc' = [pc EXCEPT ![w] = "raised"]
        /\ job' = [job EXCEPT ![w] = i]
        /\ sNumber' = [sNumber EXCEPT ![w] = number[i]]
        /\ sAttempts' = [sAttempts EXCEPT ![w] = attempts[i]]
  /\ UNCHANGED <<number, attempts, cae, profileValid, arca, expected, answer, lock, crashes>>

(***************************************************************************)
(* How process() ends: a commit, which frees the advisory lock, and        *)
(* to_response(record), which reads updated_at (expired by onupdate) in a  *)
(* transaction of its own.  The reading changes nothing, so one that       *)
(* succeeds is part of the step of the commit.  One that raises leaves the *)
(* worker with a row whose new status is stored: inside the try of the     *)
(* reservation and createVoucher, whose except clause handles the error as *)
(* if it were ARCA's, or outside, where it leaves process().               *)
(***************************************************************************)
Raised == {"raised", "raised_in_try"}

Unlocked(w) == IF lock = w THEN None ELSE lock

Return(w) ==
  /\ pc' = [pc EXCEPT ![w] = "idle"]
  /\ job' = [job EXCEPT ![w] = None]
  /\ sNumber' = [sNumber EXCEPT ![w] = 0]
  /\ sAttempts' = [sAttempts EXCEPT ![w] = 0]
  /\ expected' = [expected EXCEPT ![w] = 0]
  /\ answer' = [answer EXCEPT ![w] = "none"]
  /\ lock' = Unlocked(w)

(* a is record.attempt_count in the session that goes on if it raises. *)
CommitAndReturn(w, a, raised) ==
  \/ Return(w)
  \/ /\ "internal" \in Faults
     /\ pc' = [pc EXCEPT ![w] = raised]
     /\ sAttempts' = [sAttempts EXCEPT ![w] = a]
     /\ expected' = [expected EXCEPT ![w] = 0]
     /\ answer' = [answer EXCEPT ![w] = "none"]
     /\ lock' = Unlocked(w)
     /\ UNCHANGED <<job, sNumber>>

(* _approve: c says whether the CAE is of a voucher of this invoice. *)
Approve(w, c, raised) ==
  /\ status' = [status EXCEPT ![job[w]] = "approved"]
  /\ cae' = [cae EXCEPT ![job[w]] = c]
  /\ due' = [due EXCEPT ![job[w]] = "null"]
  /\ CommitAndReturn(w, sAttempts[w], raised)

(* _finish_error with arca_rejected or correlative_conflict. *)
Reject(w, raised) ==
  /\ status' = [status EXCEPT ![job[w]] = "rejected"]
  /\ due' = [due EXCEPT ![job[w]] = "null"]
  /\ UNCHANGED cae
  /\ CommitAndReturn(w, sAttempts[w], raised)

(* _handle_error's test of attempt_count.  Mutation: off by one. *)
MayRetryOnceMore(a) == a <= MaxAttempts
MayRetry(a) == a < MaxAttempts

(* _handle_error of a retryable error; a is record.attempt_count. *)
RetryLater(w, a, raised) ==
  /\ status' = [status EXCEPT ![job[w]] = IF MayRetry(a) THEN "retrying" ELSE "failed"]
  /\ due' = [due EXCEPT ![job[w]] = IF MayRetry(a) THEN "scheduled" ELSE "null"]
  /\ UNCHANGED cae
  /\ CommitAndReturn(w, a, raised)

(* _handle_error(record, _classify_error(exc)), always called outside the  *)
(* try or in its except clause.                                            *)
HandleError(w, retryable) ==
  IF retryable THEN RetryLater(w, sAttempts[w], "raised") ELSE Reject(w, "raised")

(* The except clause after a response that raised: _classify_error takes   *)
(* an error that is none of ARCA's for a retryable one, and the row just   *)
(* committed is written again, an approved or rejected one too.            *)
ResponseRaisedInTry(w) ==
  /\ pc[w] = "raised_in_try"
  /\ HandleError(w, TRUE)
  /\ UNCHANGED <<number, attempts, profileValid, arca, crashes>>

(***************************************************************************)
(* process() after its first commit, one action per exchange with ARCA.    *)
(***************************************************************************)

(* A number the row already had is queried before it is used, from the     *)
(* second attempt on.  Mutation: from the third on.                        *)
NeedsLookupLate(w) == sNumber[w] # 0 /\ sAttempts[w] > 2
NeedsLookup(w) == sNumber[w] # 0 /\ sAttempts[w] > 1

Connect(w) ==
  /\ pc[w] = "connect"
  /\ pc' = [pc EXCEPT ![w] = IF NeedsLookup(w) THEN "lookup" ELSE "sequence"]
  /\ UNCHANGED <<rows, profileValid, arca, session, expected, answer, lock, crashes>>

(* client_for or getVoucherInfo fail; a refusal is not retryable. *)
ConnectOrLookupFails(w, retryable) ==
  /\ pc[w] \in {"connect", "lookup"}
  /\ retryable \/ "refused_query" \in Faults
  /\ HandleError(w, retryable)
  /\ UNCHANGED <<number, attempts, profileValid, arca, crashes>>

(* Whose voucher the number n of the sequence is. *)
Owner(n, i) == IF [num |-> n, inv |-> i] \in issued THEN "own" ELSE "foreign"

(* getVoucherInfo finds the number authorised: its CAE is adopted. *)
LookupFinds(w) ==
  /\ pc[w] = "lookup"
  /\ sNumber[w] <= last
  /\ Approve(w, Owner(sNumber[w], job[w]), "raised")
  /\ UNCHANGED <<number, attempts, profileValid, arca, crashes>>

(* getVoucherInfo fails with a not-found code: go on with the number. *)
LookupFindsNothing(w) ==
  /\ pc[w] = "lookup"
  /\ sNumber[w] > last
  /\ pc' = [pc EXCEPT ![w] = "sequence"]
  /\ UNCHANGED <<rows, profileValid, arca, session, expected, answer, lock, crashes>>

(* getVoucherInfo returns a voucher without CAE: arca_rejected. *)
LookupFindsNoCae(w) ==
  /\ "no_cae" \in Faults
  /\ pc[w] = "lookup"
  /\ sNumber[w] > last
  /\ Reject(w, "raised")
  /\ UNCHANGED <<number, attempts, profileValid, arca, crashes>>

(* _acquire_sequence_lock, then getLastVoucher. *)
GetLastVoucher(w) ==
  /\ pc[w] = "sequence"
  /\ lock = None
  /\ lock' = w
  /\ expected' = [expected EXCEPT ![w] = last + 1]
  /\ pc' = [pc EXCEPT ![w] = "reserve"]
  /\ UNCHANGED <<rows, profileValid, arca, session, answer, crashes>>

GetLastVoucherFails(w, retryable) ==
  /\ pc[w] = "sequence"
  /\ lock = None
  /\ HandleError(w, retryable)
  /\ UNCHANGED <<number, attempts, profileValid, arca, crashes>>

NeedsNumber(w) == sNumber[w] = 0

(* The query of the reservation: another row, not rejected, has the number. *)
SequenceBusy(w) ==
  /\ pc[w] = "reserve"
  /\ NeedsNumber(w)
  /\ \E j \in Invoices \ {job[w]} : number[j] = expected[w] /\ status[j] # "rejected"
  /\ RetryLater(w, sAttempts[w], "raised_in_try")
  /\ UNCHANGED <<number, attempts, profileValid, arca, crashes>>

(* The commit of the reservation fails on the unique constraint: the       *)
(* record is read again and retried as sequence_busy.                      *)
ReservationCollides(w) ==
  /\ pc[w] = "reserve"
  /\ NeedsNumber(w)
  /\ Taken(expected[w], job[w])
  /\ RetryLater(w, attempts[job[w]], "raised_in_try")
  /\ UNCHANGED <<number, attempts, profileValid, arca, crashes>>

Request(w) == [num |-> sNumber[w], inv |-> job[w], att |-> sAttempts[w]]

(* The reservation is committed before the call.  Mutation: it is not. *)
ReservedOnlyInMemory(i, n) == number
Reserved(i, n) == [number EXCEPT ![i] = n]

(* The payload is built from the number just reserved.  Mutation: from    *)
(* the number the record had before.                                      *)
PayloadBeforeReservation(w) == Request(w)
FirstRequest(w) == [num |-> expected[w], inv |-> job[w], att |-> sAttempts[w]]

(* The number is reserved and createVoucher is on its way; the commit in   *)
(* between ended the transaction that held the advisory lock.              *)
ReserveAndCreate(w) ==
  /\ pc[w] = "reserve"
  /\ NeedsNumber(w)
  /\ ~Taken(expected[w], job[w])
  /\ number' = Reserved(job[w], expected[w])
  /\ sNumber' = [sNumber EXCEPT ![w] = expected[w]]
  /\ lock' = Unlocked(w)
  /\ requests' = requests \cup {FirstRequest(w)}
  /\ pc' = [pc EXCEPT ![w] = "create"]
  /\ UNCHANGED <<status, attempts, due, cae, profileValid, last, issued, foreign,
                 job, sAttempts, expected, answer, crashes>>

(* The row had its number, and it is the next one: the lock is kept. *)
CreateReserved(w) ==
  /\ pc[w] = "reserve"
  /\ ~NeedsNumber(w)
  /\ sNumber[w] = expected[w]
  /\ requests' = requests \cup {Request(w)}
  /\ pc' = [pc EXCEPT ![w] = "create"]
  /\ UNCHANGED <<rows, profileValid, last, issued, foreign, session, expected,
                 answer, lock, crashes>>

(* The row had its number, and it is not the next one. *)
CorrelativeConflict(w) ==
  /\ pc[w] = "reserve"
  /\ ~NeedsNumber(w)
  /\ sNumber[w] # expected[w]
  /\ Reject(w, "raised_in_try")
  /\ UNCHANGED <<number, attempts, profileValid, arca, crashes>>

(* Mutation: an answer without CAE is taken for an authorisation. *)
ApprovesAnyAnswer(w) == answer[w] # "none"
Authorised(w) == answer[w] = "cae"

CreateSucceeds(w) ==
  /\ pc[w] = "create"
  /\ Authorised(w)
  /\ Approve(w, Owner(sNumber[w], job[w]), "raised_in_try")
  /\ UNCHANGED <<number, attempts, profileValid, arca, crashes>>

(* ARCA refused: an answer without CAE, or an ArcaClientError, which the  *)
(* except clause handles.                                                  *)
CreateRefused(w) ==
  /\ pc[w] = "create"
  /\ answer[w] # "none" /\ ~Authorised(w)
  /\ \E raised \in Raised : Reject(w, raised)
  /\ UNCHANGED <<number, attempts, profileValid, arca, crashes>>

(* createVoucher times out or its connection breaks; the request may be    *)
(* on its way, handled or lost.  A failure that is not retryable is a      *)
(* refusal of the gateway, which drops the request, or a garbled reply.    *)
CreateFails(w, retryable) ==
  /\ pc[w] = "create"
  /\ \/ retryable
     \/ answer[w] = "none" /\ Request(w) \notin requests
     \/ answer[w] = "cae" /\ "garbled_reply" \in Faults
  /\ HandleError(w, retryable)
  /\ UNCHANGED <<number, attempts, profileValid, arca, crashes>>

(* run_once's except clause: process() raised, before or after any of its  *)
(* commits; the row is overwritten whatever its status is by now.          *)
Quarantine(w, i) ==
  /\ "internal" \in Faults
  /\ \/ pc[w] = "idle" /\ Claimable(i)
     \/ job[w] = i
  /\ status' = [status EXCEPT ![i] = "quarantined"]
  /\ due' = [due EXCEPT ![i] = "null"]
  /\ Return(w)
  /\ UNCHANGED <<number, attempts, cae, profileValid, arca, crashes>>

(* The worker process dies; its database session ends, and the supervisor *)
(* starts it again (docker-compose.yml, restart: unless-stopped).         *)
Crash(w) ==
  /\ pc[w] # "idle"
  /\ crashes < MaxCrashes
  /\ crashes' = crashes + 1
  /\ Return(w)
  /\ UNCHANGED <<rows, profileValid, arca>>

(***************************************************************************)
(* ARCA and the network.                                                   *)
(***************************************************************************)
Waits(w, m) == pc[w] = "create" /\ Request(w) = m

Answered(m, a) == [w \in Workers |-> IF Waits(w, m) THEN a ELSE answer[w]]

(* ARCA authorises the next number of the sequence only. *)
ArcaAuthorises(m) ==
  /\ m \in requests
  /\ m.num = last + 1
  /\ last' = m.num
  /\ issued' = issued \cup {[num |-> m.num, inv |-> m.inv]}
  /\ requests' = requests \ {m}
  /\ answer' = Answered(m, "cae")
  /\ UNCHANGED <<rows, profileValid, foreign, pc, session, expected, lock, crashes>>

(* ARCA refuses: not the next number, or the voucher's contents. *)
ArcaRefuses(m) ==
  /\ m \in requests
  /\ requests' = requests \ {m}
  /\ answer' = Answered(m, "refused")
  /\ UNCHANGED <<rows, profileValid, last, issued, foreign, pc, session, expected,
                 lock, crashes>>

RequestIsLost(m) ==
  /\ m \in requests
  /\ requests' = requests \ {m}
  /\ UNCHANGED <<rows, profileValid, last, issued, foreign, workers, crashes>>

(* Another system issues on the same sequence. *)
ForeignVoucher ==
  /\ foreign < MaxForeign
  /\ foreign' = foreign + 1
  /\ last' = last + 1
  /\ UNCHANGED <<rows, profileValid, issued, requests, workers, crashes>>

(***************************************************************************)
(* The specification.                                                      *)
(***************************************************************************)
Api ==
  \/ \E i \in Invoices, n \in ExplicitNumbers \cup {0}, missing \in BOOLEAN :
       Enqueue(i, n, missing)
  \/ \E i \in Invoices, n \in ExplicitNumbers : ResumeReceiverIdentification(i, n)
  \/ \E ok \in BOOLEAN : ValidateProfile(ok)

Claims(i) == \E w \in Workers : Claim(w, i) \/ ClaimWithInvalidProfile(w, i)

Proceeds(w) ==
  \/ Connect(w)
  \/ \E retryable \in BOOLEAN : ConnectOrLookupFails(w, retryable)
  \/ LookupFinds(w)
  \/ LookupFindsNothing(w)
  \/ LookupFindsNoCae(w)
  \/ GetLastVoucher(w)
  \/ \E retryable \in BOOLEAN : GetLastVoucherFails(w, retryable)
  \/ SequenceBusy(w)
  \/ ReservationCollides(w)
  \/ ReserveAndCreate(w)
  \/ CreateReserved(w)
  \/ CorrelativeConflict(w)
  \/ CreateSucceeds(w)
  \/ CreateRefused(w)
  \/ \E retryable \in BOOLEAN : CreateFails(w, retryable)
  \/ ResponseRaisedInTry(w)

Settles(m) == ArcaAuthorises(m) \/ ArcaRefuses(m) \/ RequestIsLost(m)

Next ==
  \/ Api
  \/ \E i \in Invoices : TimePasses(i) \/ Claims(i)
  \/ \E w \in Workers : Proceeds(w) \/ Crash(w)
  \/ \E w \in Workers, i \in Invoices : Quarantine(w, i)
  \/ \E m \in requests : Settles(m)
  \/ ForeignVoucher

Spec == Init /\ [][Next]_vars

(***************************************************************************)
(* Fairness.  A socket timeout ends every exchange, so a worker that is    *)
(* not dead proceeds; it waits for the advisory lock in PostgreSQL's queue *)
(* (strong fairness).  A request is handled or lost.  Time passes.  The    *)
(* worker loop takes the rows in the order of next_retry_at, so a due row  *)
(* is claimed however often the workers are busy (strong fairness).        *)
(***************************************************************************)
Fairness ==
  /\ \A w \in Workers : SF_vars(Proceeds(w))
  /\ WF_vars(\E m \in requests : Settles(m))
  /\ \A i \in Invoices : WF_vars(TimePasses(i)) /\ SF_vars(Claims(i))

FairSpec == Spec /\ Fairness

-----------------------------------------------------------------------------
(* Every variable has its type. *)
TypeOK ==
  /\ status \in [Invoices -> Statuses]
  /\ number \in [Invoices -> Nat]
  /\ attempts \in [Invoices -> Nat]
  /\ due \in [Invoices -> Dues]
  /\ cae \in [Invoices -> Caes]
  /\ profileValid \in BOOLEAN
  /\ last \in Nat
  /\ issued \subseteq Vouchers
  /\ foreign \in Nat
  /\ requests \subseteq Requests
  /\ pc \in [Workers -> Steps]
  /\ job \in [Workers -> Invoices \cup {None}]
  /\ sNumber \in [Workers -> Nat]
  /\ sAttempts \in [Workers -> Nat]
  /\ expected \in [Workers -> Nat]
  /\ answer \in [Workers -> Answers]
  /\ lock \in Workers \cup {None}
  /\ crashes \in Nat

(* An invoice is authorised at most once, however often its creation is    *)
(* retried after timeouts, worker deaths and collisions: process()'s       *)
(* reservation, query and correlativity test together.                     *)
OneVoucherPerInvoice ==
  \A u, v \in issued : u.inv = v.inv => u = v

(* "La reserva del numero se persiste antes de llamar a ARCA": whatever    *)
(* ARCA was sent or has authorised, the row names the same number.         *)
DurableReservation ==
  /\ \A m \in requests : number[m.inv] = m.num
  /\ \A v \in issued : number[v.inv] = v.num

(* A row is in the hands of one worker at a time (FOR UPDATE SKIP LOCKED   *)
(* only covers the claim; from its commit on it is the lease).             *)
ExclusiveClaim ==
  \A w, x \in Workers : job[w] = job[x] /\ job[w] # None => w = x

(* An approved row stores the CAE of its own voucher, the one ARCA issued  *)
(* under the row's number.                                                 *)
ApprovedWithOwnVoucher ==
  \A i \in Invoices : status[i] = "approved" =>
    cae[i] = "own" /\ [num |-> number[i], inv |-> i] \in issued

(* A row reported as rejected has no voucher: nobody has to look for a     *)
(* fiscal document behind a rejection.                                     *)
RejectedNeverAuthorised ==
  \A v \in issued : status[v.inv] # "rejected"

(* Attempts are limited: only a worker death lets a row have more than     *)
(* MAX_ATTEMPTS of them.                                                   *)
AttemptsBounded ==
  \A i \in Invoices : attempts[i] <= MaxAttempts + crashes

TerminalStatuses == {"approved", "rejected", "failed", "quarantined"}

(* "sequence_busy ... Esperar; otra solicitud tiene la correlativa           *)
(* reservada" (docs/arca_invoicing_service.txt): when the next number of   *)
(* the sequence makes a worker wait, a request that has not ended holds    *)
(* it, so that waiting helps.                                              *)
BusyMeansReserved ==
  \A w \in Workers :
    /\ pc[w] = "reserve" /\ NeedsNumber(w)
    /\ expected[w] = last + 1 /\ Taken(last + 1, job[w])
    => \E j \in Invoices \ {job[w]} :
         number[j] = last + 1 /\ status[j] \notin TerminalStatuses

(* A terminal row is written again only by the worker that ended it and    *)
(* has not returned (to_response failed): no second worker, late answer or *)
(* retry rewrites what was reported, and nobody its number or its CAE.     *)
EndsByItsWorkerOnly ==
  [][\A i \in Invoices : status[i] \in TerminalStatuses =>
       /\ number'[i] = number[i] /\ cae'[i] = cae[i]
       /\ status'[i] # status[i] => \E w \in Workers : job[w] = i /\ pc[w] \in Raised]_vars

(* Once an attempt has started, the number of a row is written at most     *)
(* once: retries use the number of the first reservation.                  *)
NumberIsFinal ==
  [][\A i \in Invoices : attempts[i] > 0 /\ number[i] # 0 =>
       number'[i] = number[i]]_vars

(* createVoucher is never sent for an invoice that ARCA has authorised.    *)
NeverSentAgain ==
  [][\A v \in issued : \A m \in requests' \ requests : m.inv # v.inv]_vars

(* An invoice has ended once its status is terminal and no worker has it   *)
(* in hand: until process() has returned, the status may be written again. *)
Outcome(i) ==
  IF status[i] \in TerminalStatuses \cup {"absent"} /\ ~Held(i) THEN status[i] ELSE "open"

VouchersOf(i) == {v \in issued : v.inv = i}

Promise == INSTANCE VoucherIssuing WITH
  outcome  <- [i \in Invoices |-> Outcome(i)],
  vouchers <- [i \in Invoices |-> Cardinality(VouchersOf(i))]

(* Workers, reservations, queries and retries together do what             *)
(* VoucherIssuing promises, step by step: one voucher per invoice, one     *)
(* outcome, and the outcome agrees with the vouchers for ever after.       *)
KeepsItsPromise == Promise!Spec

(* A queued invoice reaches a terminal status, whatever ARCA answers and   *)
(* although workers die.                                                   *)
EveryInvoiceEnds ==
  \A i \in Invoices :
    status[i] \in {"pending", "processing", "retrying"} ~> status[i] \in TerminalStatuses

=============================================================================
