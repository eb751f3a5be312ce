---------------------------- MODULE ArcaEnqueue ----------------------------
(***************************************************************************)
(* What enqueue (app/arca/service.py, InvoiceService) promises to clients  *)
(* that repeat their requests: the outbox of postas_api sends one again    *)
(* until it is answered, and a user completes it when the receiver has to  *)
(* be identified.  One tenant, whose environments have a valid profile     *)
(* each; FiscalProfile has the other states of a profile, ArcaIssuing the  *)
(* worker in detail.                                                       *)
(*                                                                         *)
(* enqueue locks the profile of the environment it is asked for from its   *)
(* first read to its commit.  external_id and sale_id are unique over both *)
(* environments.                                                           *)
(***************************************************************************)
EXTENDS Naturals, FiniteSets

CONSTANTS
  Handlers,      \* threads of the API that serve requests
  Environments,  \* "development" and "production"
  Externals,     \* external ids
  Sales,         \* sale ids
  Numbers,       \* voucher numbers
  Contents,      \* items and dates
  Large,         \* contents whose total requires an identified receiver
  Requests,      \* what clients may send, a subset of AllRequests
  MaxCalls,      \* how many requests a behaviour serves
  None           \* no sale, no number, no row, no request, nobody

(* number: the explicit voucher_number.  receiver: it is identified. *)
AllRequests ==
  [env : Environments, ext : Externals, sale : Sales \cup {None}, content : Contents,
   receiver : BOOLEAN, number : Numbers \cup {None}]

Statuses ==
  {"receiver_identification_required", "pending", "processing", "approved", "rejected"}

(* request: what request_hash and request_payload were computed from. *)
Rows == [request : AllRequests, number : Numbers \cup {None}, status : Statuses]

ASSUME ConstantsAssumption ==
  /\ Large \subseteq Contents
  /\ Requests \subseteq AllRequests
  /\ MaxCalls \in Nat
  /\ None \notin Handlers \cup Sales \cup Numbers \cup AllRequests \cup Rows

VARIABLES
  rows,      \* [Externals -> Rows or None]: arca_invoices
  sent,      \* <<external id, number>> that the worker sent to ARCA
  lock,      \* [Environments -> Handlers or None]: row lock of the profile
  pc,        \* [Handlers -> {"idle", "insert", "resume"}]
  serving,   \* [Handlers -> request being served or None]
  original,  \* [Handlers -> request of the row as the session read it]
  reply,     \* [Handlers -> last answer]
  accepted,  \* history: requests answered with an invoice
  calls      \* requests so far

session == <<pc, serving, original, lock>>
vars    == <<rows, sent, session, reply, accepted, calls>>

Replies ==
  {"none", "invoice", "idempotency_conflict", "sale_already_invoiced",
   "fiscal_reference_conflict", "explicit_voucher_required", "refused", "failed"}

Init ==
  /\ rows = [x \in Externals |-> None]
  /\ sent = {}
  /\ lock = [e \in Environments |-> None]
  /\ pc = [h \in Handlers |-> "idle"]
  /\ serving = [h \in Handlers |-> None]
  /\ original = [h \in Handlers |-> None]
  /\ reply = [h \in Handlers |-> "none"]
  /\ accepted = {}
  /\ calls = 0

(***************************************************************************)
(* What a request meets in the table.                                      *)
(***************************************************************************)
Known(x) == rows[x] # None

Awaiting(x) == Known(x) /\ rows[x].status = "receiver_identification_required"

(* The sale has an invoice, in whatever environment.  Mutation: only those *)
(* of the environment count.                                               *)
SaleTakenHere(r) ==
  \E x \in Externals : Known(x) /\ rows[x].request.sale = r.sale /\ rows[x].request.env = r.env
SaleTaken(r) == r.sale # None /\ \E x \in Externals : Known(x) /\ rows[x].request.sale = r.sale

(* Another row has the number: uq_arca_invoice_fiscal_reference.           *)
(* Mutation: numbers of rows that are not pending yet are not looked at.   *)
NumberPending(x, env, n) ==
  \E y \in Externals \ {x} :
    /\ Known(y) /\ rows[y].request.env = env /\ rows[y].number = n
    /\ rows[y].status = "pending"
NumberTaken(x, env, n) ==
  /\ n # None
  /\ \E y \in Externals \ {x} : Known(y) /\ rows[y].request.env = env /\ rows[y].number = n

(* FOR UPDATE on the profile of the environment.  Mutation: without it. *)
NeverLocked(env) == TRUE
Free(env) == lock[env] = None

(* The immutable fields of a completion.  Mutation: the sale is not one. *)
SameExternal(r) == rows[r.ext].request.ext = r.ext
SameOperation(r) == rows[r.ext].request.ext = r.ext /\ rows[r.ext].request.sale = r.sale

(* A completion identifies the receiver and gives the number. *)
Completes(r) == r.receiver /\ r.number # None

(***************************************************************************)
(* enqueue: answers that write nothing.                                    *)
(***************************************************************************)
Called(h) ==
  /\ pc[h] = "idle" /\ calls < MaxCalls
  /\ calls' = calls + 1

Receives(h, r) == Called(h) /\ Free(r.env)

Answer(h, r, a) ==
  /\ reply' = [reply EXCEPT ![h] = a]
  /\ accepted' = IF a = "invoice" THEN accepted \cup {r} ELSE accepted

(* The hash of a repeated request must be that of the row. *)
AnswerToKnown(r) == IF rows[r.ext].request = r THEN "invoice" ELSE "idempotency_conflict"

AnswerKnown(h, r) ==
  /\ Receives(h, r)
  /\ Known(r.ext) /\ ~Awaiting(r.ext)
  /\ Answer(h, r, AnswerToKnown(r))
  /\ UNCHANGED <<rows, sent, session>>

(* _resume_receiver_identification, as far as it changes nothing. *)
AnswerToAwaiting(r) ==
  IF ~SameOperation(r) THEN "idempotency_conflict"
  ELSE IF ~r.receiver THEN "invoice" ELSE "explicit_voucher_required"

AnswerAwaiting(h, r) ==
  /\ Receives(h, r)
  /\ Awaiting(r.ext)
  /\ ~(SameOperation(r) /\ Completes(r))
  /\ Answer(h, r, AnswerToAwaiting(r))
  /\ UNCHANGED <<rows, sent, session>>

AnswerSaleTaken(h, r) ==
  /\ Receives(h, r)
  /\ ~Known(r.ext) /\ SaleTaken(r)
  /\ Answer(h, r, "sale_already_invoiced")
  /\ UNCHANGED <<rows, sent, session>>

(* No entitlement (asked before the lock), no valid profile, or a concept  *)
(* that does not allow it.                                                 *)
Refuse(h, r) ==
  /\ Called(h)
  /\ Answer(h, r, "refused")
  /\ UNCHANGED <<rows, sent, session>>

(***************************************************************************)
(* enqueue: a new invoice, or a completed one.                             *)
(***************************************************************************)
Works(h, r, step, read) ==
  /\ pc' = [pc EXCEPT ![h] = step]
  /\ serving' = [serving EXCEPT ![h] = r]
  /\ original' = [original EXCEPT ![h] = read]
  /\ lock' = [lock EXCEPT ![r.env] = h]
  /\ reply' = [reply EXCEPT ![h] = "none"]
  /\ UNCHANGED <<rows, sent, accepted>>

StartInsert(h, r) ==
  /\ Receives(h, r)
  /\ ~Known(r.ext) /\ ~SaleTaken(r)
  /\ Works(h, r, "insert", None)

StartResume(h, r) ==
  /\ Receives(h, r)
  /\ Awaiting(r.ext) /\ SameOperation(r) /\ Completes(r)
  /\ Works(h, r, "resume", rows[r.ext].request)

(* Commit or rollback: the transaction ends, and its lock with it. *)
Ends(h) ==
  /\ pc' = [pc EXCEPT ![h] = "idle"]
  /\ serving' = [serving EXCEPT ![h] = None]
  /\ original' = [original EXCEPT ![h] = None]
  /\ lock' = [e \in Environments |-> IF lock[e] = h THEN None ELSE lock[e]]

(* Mutation: a row is left without a status while the receiver is missing. *)
StatusUnset(r) == IF r.content \in Large /\ ~r.receiver THEN None ELSE "pending"
InitialStatus(r) ==
  IF r.content \in Large /\ ~r.receiver THEN "receiver_identification_required" ELSE "pending"

Collides(r) == Known(r.ext) \/ SaleTaken(r) \/ NumberTaken(r.ext, r.env, r.number)

CommitInsert(h) ==
  LET r == serving[h] IN
  /\ pc[h] = "insert"
  /\ ~Collides(r)
  /\ rows' = [rows EXCEPT ![r.ext] =
                [request |-> r, number |-> r.number, status |-> InitialStatus(r)]]
  /\ Answer(h, r, "invoice")
  /\ Ends(h)
  /\ UNCHANGED <<sent, calls>>

(* IntegrityError: which constraint it was is asked after the rollback.    *)
AfterCollision(r) ==
  IF Known(r.ext) THEN AnswerToKnown(r)
  ELSE IF SaleTaken(r) THEN "sale_already_invoiced" ELSE "fiscal_reference_conflict"

InsertCollides(h) ==
  /\ pc[h] = "insert"
  /\ Collides(serving[h])
  /\ Answer(h, serving[h], AfterCollision(serving[h]))
  /\ Ends(h)
  /\ UNCHANGED <<rows, sent, calls>>

(* The payload stays that of the row, but for the receiver; the hash is    *)
(* computed again, with the number.                                        *)
Completed(h) == [original[h] EXCEPT !.receiver = TRUE, !.number = serving[h].number]

ReferenceTaken(h) == NumberTaken(serving[h].ext, original[h].env, serving[h].number)

CommitResume(h) ==
  LET r == serving[h] IN
  /\ pc[h] = "resume"
  /\ ~ReferenceTaken(h)
  /\ rows' = [rows EXCEPT ![r.ext] =
                [request |-> Completed(h), number |-> r.number, status |-> "pending"]]
  /\ Answer(h, r, "invoice")
  /\ Ends(h)
  /\ UNCHANGED <<sent, calls>>

ResumeCollides(h) ==
  /\ pc[h] = "resume"
  /\ ReferenceTaken(h)
  /\ Answer(h, serving[h], "fiscal_reference_conflict")
  /\ Ends(h)
  /\ UNCHANGED <<rows, sent, calls>>

(* The database or the process fails before the commit. *)
Fail(h) ==
  /\ pc[h] # "idle"
  /\ Answer(h, serving[h], "failed")
  /\ Ends(h)
  /\ UNCHANGED <<rows, sent, calls>>

(***************************************************************************)
(* The worker: it takes pending rows, numbers those without a number,      *)
(* sends them and ends them; the ends are two, as nothing here depends on  *)
(* the others.                                                             *)
(***************************************************************************)
Process(x, n) ==
  /\ Known(x) /\ rows[x].status = "pending"
  /\ \/ rows[x].number = n
     \/ rows[x].number = None /\ ~NumberTaken(x, rows[x].request.env, n)
  /\ rows' = [rows EXCEPT ![x].number = n, ![x].status = "processing"]
  /\ sent' = sent \cup {<<x, n>>}
  /\ UNCHANGED <<session, reply, accepted, calls>>

(* The session of the worker writes the status over whatever the row has. *)
Finish(x, outcome) ==
  /\ Known(x) /\ \E n \in Numbers : <<x, n>> \in sent
  /\ rows[x].status \in {"pending", "processing"}
  /\ rows' = [rows EXCEPT ![x].status = outcome]
  /\ UNCHANGED <<sent, session, reply, accepted, calls>>

Next ==
  \/ \E h \in Handlers, r \in Requests :
       \/ AnswerKnown(h, r)
       \/ AnswerAwaiting(h, r)
       \/ AnswerSaleTaken(h, r)
       \/ Refuse(h, r)
       \/ StartInsert(h, r)
       \/ StartResume(h, r)
  \/ \E h \in Handlers :
       \/ CommitInsert(h)
       \/ InsertCollides(h)
       \/ CommitResume(h)
       \/ ResumeCollides(h)
       \/ Fail(h)
  \/ \E x \in Externals, n \in Numbers : Process(x, n)
  \/ \E x \in Externals, outcome \in {"approved", "rejected"} : Finish(x, outcome)

Spec == Init /\ [][Next]_vars

-----------------------------------------------------------------------------
(* Every variable has its type. *)
TypeOK ==
  /\ rows \in [Externals -> Rows \cup {None}]
  /\ sent \subseteq Externals \X Numbers
  /\ lock \in [Environments -> Handlers \cup {None}]
  /\ pc \in [Handlers -> {"idle", "insert", "resume"}]
  /\ serving \in [Handlers -> Requests \cup {None}]
  /\ original \in [Handlers -> AllRequests \cup {None}]
  /\ reply \in [Handlers -> Replies]
  /\ accepted \subseteq Requests
  /\ calls \in Nat

(* "Unicidad (tenant_id, sale_id) cuando hay venta": a sale is never       *)
(* invoiced twice, in whatever environments it is asked for at once.       *)
OneInvoicePerSale ==
  \A x, y \in Externals :
    Known(x) /\ Known(y) /\ rows[x].request.sale = rows[y].request.sale
      /\ rows[x].request.sale # None => x = y

(* A client that is given an invoice finds it, and it is that of its sale. *)
AcceptedIsStored ==
  \A r \in accepted : Known(r.ext) /\ rows[r.ext].request.sale = r.sale

(* Completions of one invoice go through one environment, as those of      *)
(* postas_api do.                                                          *)
OneEnvironment ==
  \A r, s \in Requests : Completes(r) /\ Completes(s) /\ r.ext = s.ext => r.env = s.env

(* An invoice is sent to ARCA under one number, although it may be         *)
(* completed more than once and at once, ...                               *)
OneNumberPerInvoice ==
  OneEnvironment => \A x \in Externals, m, n \in Numbers :
    <<x, m>> \in sent /\ <<x, n>> \in sent => m = n

(* ... and a number is sent for one invoice of its environment.            *)
OneInvoicePerNumber ==
  OneEnvironment => \A x, y \in Externals, n \in Numbers :
    <<x, n>> \in sent /\ <<y, n>> \in sent /\ rows[x].request.env = rows[y].request.env
      => x = y

=============================================================================
