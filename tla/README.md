# Verification of postas_ai_api

TLA+ models of the parts of `postas_platform_api` (the service in `src/app`) whose
correctness depends on the order in which things happen, or on a long chain of
decisions: the issuing of electronic vouchers through ARCA and each exchange with it,
the amounts of an invoice, the idempotent queueing of invoices, the fiscal profiles
with their encrypted credentials, the subscriptions and monthly consumption of billing,
and the extraction of documents by AI models. TLC checks the
models on small instances and TLAPS proves the safety properties for every value of
the constants. `PROJECT.json` lists the runs, the hazards, the theorems and, for every
definition, the lines of code it stands for.

Checked and proved are the models; each of them assumes PostgreSQL (READ COMMITTED,
`FOR UPDATE`, advisory locks), which is what `docker-compose.yml` and the production
documentation describe. The default `DATABASE_URL` is SQLite, which ignores
`FOR UPDATE` and serialises writers; it is not modelled.

## The system

| part | state | operations | talks to |
| --- | --- | --- | --- |
| invoice enqueue (`app/arca/service.py`, `InvoiceService.enqueue`) | rows of `arca_invoices`: request hash and payload, sale, external id, voucher number, status, `next_retry_at` | enqueue, completion of the receiver, lookups | billing (entitlement), the profile's row lock |
| issuing and worker (`InvoiceService.process`, `app/arca/worker.py`) | status, `attempt_count`, lease, `voucher_number`, CAE; PostgreSQL advisory lock per sequence | claim, query, reserve, create, retry, quarantine | ARCA through `app/arca/client.py` |
| fiscal profiles (`FiscalProfileService`, `router_internal.py`) | one row per tenant and environment: status, three encrypted columns, key id, CUIT, point of sale | upsert, delete, validate, rotate-keyring | cipher, ARCA (live query), invoices that are not terminal |
| cipher and keyring (`app/arca/crypto.py`) | master keys and the active one, from the configuration | encrypt, decrypt, rotate | profiles |
| ARCA client (`app/arca/client.py`, `_classify_error`) | none | one HTTP exchange with a timeout, and what its outcome means | ARCA |
| invoice amounts (`InvoiceService._calculate_amounts`) | none | net, VAT and total of each item and of the invoice | enqueue, the payload for ARCA |
| billing usage (`app/billing/service.py`) | usage events by idempotency key, one counter per tenant, feature and month | consume, check-and-consume | subscriptions and plans |
| entitlements (same file) | subscriptions, plans, features | check, status, the limit of a recording | usage |
| catalogue seed (`app/billing/seed.py`, `scripts/`) | plans, features | idempotent upsert, run by hand | - |
| internal authentication, configuration | none | compare a header, read the environment | - |
| document extraction (`app/services`, `app/providers`, `app/api/routes.py`) | none | admit a request, fetch an image, ask a model, ask a second one, report usage | model providers |

The parts share the database. enqueue, upsert and delete take the row lock of the
profile; the worker locks a row only while it claims it and holds it by a lease
afterwards; validate and rotate-keyring lock nothing; billing locks nothing and relies
on two unique constraints.

### What is hard, and what makes it correct

* **Issuing**: two workers, worker deaths, calls that time out after ARCA has
  handled them, requests and replies that arrive late, numbers that must be
  consecutive. Correct: one voucher per invoice, what is approved has its own voucher,
  what is rejected has none, nobody rewrites what another worker has ended, every
  invoice ends.
* **Enqueue**: outbox retries served at once, in two environments with a lock each but
  uniqueness over both; an invoice completed while it is being completed. Correct: one
  invoice per sale, one number per invoice and one invoice per number, an accepted
  request keeps its invoice.
* **Profiles**: credentials replaced or deleted while a live query or a rotation works
  on what it read. Correct: stored secrets can be decrypted, queued invoices keep the
  identity and credentials they were queued with, valid means tested.
* **Billing**: repeated keys, counters read and written back, a plan that changes and a
  month that ends in the middle. Correct: a key is consumed once, answers are true,
  counters are the sums of their events, requests served at once exceed the quota by a
  bounded amount, and the status endpoint shows what the check allows.
* **Exchange with ARCA**: a voucher may be authorised although an exception is raised, and
  the text of an exception decides what becomes of the invoice. Correct: the outcome
  follows ARCA's verdict, absent means absent, amounts add up.
* **Extraction**: two models, either of which may fail, answer anything and bill anyway.
  Correct: a response reports one answer, no usable answer is dropped, usage is complete.

PROJECT.json lists the hazards at their lines, with the properties that look for them.

## Modules

| module | what it is |
| --- | --- |
| `VoucherIssuing` | what issuing promises, without workers, numbers or messages |
| `ArcaIssuing` | one fiscal sequence: API, workers, ARCA and the network; refines `VoucherIssuing` |
| `ArcaIssuing_inv` | its inductive invariants, in named parts |
| `ArcaIssuing_proofs`, `ArcaIssuing_refines` | its theorems |
| `ArcaEnqueue`, `ArcaEnqueue_proofs` | enqueue and completion, one tenant, two environments |
| `FiscalProfile`, `FiscalProfile_proofs` | one profile, its keyring, its operator |
| `ArcaAmounts` | the loop over the items of an invoice, in integer cents |
| `ArcaGateway`, `ArcaGateway_proofs` | one exchange with ARCA, from the amounts to the service's verdict; composes with `ArcaAmounts`, whose theorems are in the same module |
| `BillingUsage` | one tenant and one monthly feature |
| `Entitlement` | the tables of billing and all that is derived from them; composes with `BillingUsage` |
| `Billing_proofs` | the theorems of both |
| `DocumentExtraction`, `DocumentExtraction_proofs` | one call of the extraction endpoint |
| `Sums_proofs` | lemmas about the community modules' sums, which the keys of billing and the tokens of the extraction need |
| `MC_*` | instances for TLC: requests, amounts, symmetry |

### ArcaIssuing

A sequence is one (environment, CUIT, point of sale, voucher type); sequences share no
state, so one is enough. `status`, `number`, `attempts`, `due`, `cae` are columns of
the row (`due` is `next_retry_at` against the clock). `sNumber`, `sAttempts` are the
same columns as the worker's session sees them (`expire_on_commit=False`), which is
where a stale write would come from. `last` and `issued` are ARCA's, `requests` is the
network. `Claim` is `run_once`'s query with `process()` up to its first commit, one
transaction; from there on there is one action per exchange with ARCA, because a
worker may die, and others may run, exactly between those. `_approve`, `_finish_error`
and `_handle_error` are the operators `Approve`, `Reject`, `RetryLater`, used inside the
action that calls them. A reservation and the start of `createVoucher` are one action:
nothing can be observed between the commit and the call but a worker death, which has
the same effect as a death followed by `RequestIsLost`.

`process()` ends with a commit and then `to_response`, which reads `updated_at` (expired
by `onupdate`) in a transaction of its own and may raise when the new status is stored.
`CommitAndReturn` has both outcomes. A worker whose response failed is at `raised`, from
where `Quarantine` overwrites the row (`worker.py:46`), or, if the end was inside the
`try` of lines 621-676, at `raised_in_try`, from where `ResponseRaisedInTry` hands the
error to `_handle_error` as a retryable one (line 678). `Quarantine` asks for no status:
it overwrites an approved row as it does one in processing.

`VoucherIssuing` has for each invoice an outcome and the number of its vouchers.
`ArcaIssuing` maps the vouchers to how many ARCA has issued (`VouchersOf`), so a second
one is a step the promise does not have. An invoice is open as long as its row is in a
worker's hands (`Outcome`): until `process()` has returned, its status may be written
again; from then on it is final, and agrees with the vouchers.

`Faults` names what the environment may do beyond timeouts, losses and refusals. The
code relies on some of these not happening, and the properties say on which.

### ArcaEnqueue

The handler's transaction is split where others may interleave: reception (with the
profile's lock) and commit. `AnswerKnown`, `AnswerAwaiting`, `AnswerSaleTaken`,
`Refuse` are the answers that write nothing, `StartInsert`/`CommitInsert`/
`InsertCollides` a new invoice with the `IntegrityError` path, `StartResume`/
`CommitResume`/`ResumeCollides` `_resume_receiver_identification`, which writes what
the session read (`original`). A request stands for its hash: both are equal exactly
when environment, number and payload are. The worker is here only as far as it uses
numbers.

### FiscalProfile

A credential set is the number of the upsert that brought it, so that "the old secrets
under the new identity" can be said. `secrets`, `identity`, `keyId` and `cipherKey`
(the key the columns are really under) are separate because different code writes
them. upsert, delete and enqueue hold the row lock from read to commit and are one step
each; validate and rotate-keyring are two, and `overtaken` records that one of them
wrote over a row that had been replaced in between. A key rotation follows section
13.1 of the ARCA document.

### BillingUsage

Receive, check, read and write are steps of their own, as no lock keeps others out. The
counter is written as the value the session computed, which is how an increment gets
lost. `Conflict` is the `IntegrityError` path, for a repeated key and for the counter
of a month that two requests insert at once. `consumed` is the sum of the events.

`access` says what the subscription allows, in the four ways that the check and the
recording can see it: the check compares the status in lower case, the recording as it
is stored ("miscased": allowed, and recorded without a limit). `limit` is that of the
plan's row. `RecordedWhereChecked` looks at the two readings of the clock.

### Entitlement

Subscriptions of a tenant in the order of `created_at`, and the row each plan has for
one feature. `BillingUsage` knows only `access` and `limit`; here each change of the
tables (`Seed`, `Subscribe`, `StatusChanges`, `PeriodEndsOrRenews`, `EditPlan`) sets both
to what the tables then say, and the actions of `BillingUsage` run between the changes.
`_check_entitlement`, `get_tenant_status` and `_current_monthly_limit` are translated
separately, as the code has them, so that their agreement is something to check. A
status is any text (the column is a `String(30)`), and `Lower` says what `.lower()` makes
of it: `subscription_denial_reason` applies it, `EnabledNow`, `_current_monthly_limit` and
the unique index (`Open`) do not. `Seed` writes the rows the catalogue names and leaves
the others.

`StatusAgreesWithCheck`: nothing is shown as available that the check then denies, and
what the check allows is shown, unless the stored status is not in lower case.
`QuotaRespected`: check and recording are two steps without a lock, so requests served
at once may all fit into the same remainder; they exceed the highest limit of the plans
by one request for each other handler at most, also when a month ends or a plan changes
in between. The bound is for months whose counter has lost no increment: an undercounted
month lets more in (with a limit of 2, three handlers and requests of one unit, seven
requests take a month to 5).

### ArcaAmounts and ArcaGateway

Amounts are cents, quantities units of 10^-4, rates hundredths of a percent; `_quantize`
is ROUND_HALF_UP. `ArcaGateway` EXTENDS `ArcaAmounts`: `AddItem` is one turn of the loop,
`Store` the commit of the row, and then the exchange goes through `Connect` (credentials,
the switch of production), `Authenticate` (the ticket), and the call, which is not
handled (`CallNotHandled`), handled and its reply lost (`ReplyLost`), or handled and
answered (`ReplyArrives`). ARCA's decision is the history variable `verdict`. `Conclude`
is what process, validate or discover make of the reply or the exception. `ArcaIssuing`
takes the outcomes of an exchange as choices; here they are derived.

### DocumentExtraction

One call: `Receive` (admission), `FetchImage`/`FetchFails`, then `ProviderAnswers` or
`ProviderFails` until `MustAsk` says no, then `Respond`. A model's answer is any
confidence it may write, through `parse_confidence`. Confidences are in units of 10^-5,
so that the rounding of the reported one (to four decimals) can be told from the
confidence itself. `replies` and `spent` are history.

## Runs

| run | question | result |
| --- | --- | --- |
| `issuing_safety` | 2 invoices, 2 workers, two deaths, timeouts, refusals, internal errors and failed responses, validations: nothing lost, doubled or misattributed, and `VoucherIssuing` is implemented (159,490 states) | holds |
| `issuing_live` | fair workers, a death, foreign vouchers and every fault but outliving a lease: at most one voucher, and every invoice ends (148,996 states) | holds |
| `enqueue_concurrent` | 3 handlers, 2 environments, conflicting requests | holds |
| `profile_concurrent` | 3 handlers, every operation, key rotation | holds |
| `billing_concurrent` | 3 handlers, repeated keys, dated and undated requests, month end, plan changes (434,448 states) | holds |
| `billing_tables` | the tables change and a month ends under two handlers: check and status agree, the excess over the quota is bounded (387,416 states) | holds |
| `gateway_exchange` | every caller, operation and failure of one exchange, up to three items | holds |
| `extraction_calls` | six configurations, every request, image and answer | holds |
| `issuing_slow_worker` | a worker outlives its lease | two vouchers for one invoice |
| `issuing_blocked_sequence` | ARCA refuses a voucher, another invoice follows | it waits for a number nobody will use |
| `billing_lost_update` | two requests, one counter | an increment is lost |
| `profile_resurrected` | delete during a live query | the profile is valid again |

The last four contradict a sentence of the documentation, quoted under "findings".

### Bounds

* `issuing_safety`: two invoices contend for a number, and one of them blocks it for the
  other; a third would repeat that at many times the states, now that a response may fail
  after each commit. Three attempts (five in the code) are a first, a retry with a query
  and the last; two deaths, so that one may hit the retry of the other; one explicit
  number, the second of the sequence, so that both kinds of reservation meet.
  `issuing_live` has two invoices, as its faults multiply the states, one foreign
  voucher, and two attempts: termination depends on the last one, not on how many come
  before. `ClaimBound` caps claims where leases expire under live workers, and
  `AttemptsBounded` shows that nothing else reaches it.
* `enqueue_concurrent`: nine requests that share external ids, sales and numbers in
  every combination the code distinguishes, and four calls: a reception, a completion,
  a rival completion and a repetition.
* `profile_concurrent`: two credential sets (a first and a replacement), two keys, one
  invoice; three handlers, since two unlocked ones may meet a third that locks.
* `billing_*`: two months; three calls. `billing_concurrent` has keys with amounts of one
  and two, so that limits are met exactly and passed. In `billing_tables` each of three
  keys takes two units, the whole of the plan's limit: two handlers reach 4, the bound,
  and a third request or a test without the amount would pass it. Its requests are
  undated, so that the month's end may fall between check and recording; the operator
  lowers the plan's limit to 1 or takes the feature away; the tenant has up to two
  subscriptions, whose status is "active", "Active" or "cancelled"; callers have none of
  a resource, as many as the limit, or one more.
* `gateway_exchange`: four items that round up, down and at the half, four rates
  including none and the largest, up to three items of one invoice, and a column too
  small for some of them; exceptions stand for the groups of statuses and messages
  `_classify_error` tells apart.
* `extraction_calls`: the defaults, a fallback, no key, one model under two names, an
  unknown model and thresholds in the wrong order; confidences on both sides of each
  threshold and of each branch of `parse_confidence`.

Handlers, workers and invoices are symmetric, except in the liveness run, which uses no
symmetry. Deadlock is not checked where the bounded system may run out of requests, or
where the behaviour is one call that ends.

### Fairness

`FairSpec` is what the worker's loop and its deployment justify. A socket timeout ends
every exchange and `docker-compose` restarts dead workers, so a worker proceeds; it may
have to queue for the advisory lock, which PostgreSQL grants in order, hence strong
fairness. Time passes, and requests are handled or lost. A due row is claimed in
spite of busy workers because the query takes rows by `next_retry_at`: strong fairness.
The API, worker deaths and what ARCA answers have no fairness. `model.invoke` of the
extraction has no timeout, so nothing justifies that a call ends, and no property says so.

Liveness rests on the code's limit of attempts: no fairness makes ARCA answer well.

## Theorems

All in the `*_proofs` modules and `ArcaIssuing_refines`, without bounds on invoices,
workers, handlers, keys, calls or deaths; the constants' assumptions are named in each
module (`ConstantsAssumption` and others) and evaluated by the runs. What a theorem
assumes beyond those stands in its `ASSUME`, and below.

**ArcaIssuing.** Although nothing is locked after the claim, a worker's session agrees
with its row: `ClaimInv` says that a held row is `processing` with a lease that has not
ended, or one whose end is stored while its worker has yet to return
(`SessionsFresh`), that one worker holds it, and that whatever ARCA was sent has
the row's number. It is inductive as long as no worker outlives its lease, and gives
`ExclusiveClaim`, `DurableReservation` and `OneVoucherPerInvoice` under all the other
faults, and the action properties `NumberIsFinal` (proved, not run) and
`EndsByItsWorkerOnly`. A worker whose response failed still holds its row, which is then
`approved`, `rejected`, `retrying` or `failed` and, unless it waits for a retry, not to be
claimed: that part of `SessionsFresh` is what keeps everybody else off the row. Adding that rows due again have no request in flight and that a
worker holding an authorised row is on the way to its query (`SendingInv`) gives
`NeverSentAgain`: what is sent is sent from `reserve`, where no holder of an authorised
row can be. It needs only that leases outlast workers and requests; unreadable replies
and refused queries do not matter. Without them too, a rejected row has no request in
flight either (`RejectionInv`), which gives `RejectedNeverAuthorised`: every way
`process()` ends is one of `Ends`, and those that reject do it with nothing authorised
or in flight (`Endings`). Adding that a sequence which started empty consists of the
vouchers issued here (`IssuedUpToLast`) gives `ApprovedWithOwnVoucher`. `NothingIsStuck`
(proved, not run) is what `EveryInvoiceEnds` asks of every single state: a row that has
not ended is with a worker, waits for a time that is set, or can be claimed with
attempts left (so the bound on claims never bites), and the lock of the sequence is with
a worker that uses it; it needs that status and `next_retry_at` are always written
together (`RowsScheduled`). The invariants together prove that `ArcaIssuing` implements
`VoucherIssuing` (`Refinement`): every step changes at most one status
(`StatusWriters`), a first authorisation is `Authorise`, there is no second one (the
vouchers are counted), a worker's return is `End`, and the rest are `Accept` or stutter.

**ArcaEnqueue.** `Sessions` ties a handler to the lock it holds and to the row it read.
`OneInvoicePerSale` follows from the constraint alone, although two environments have a
lock each. `OneNumberPerInvoice` needs `ResumeAwaits`: while a handler completes an
invoice the row still waits, since a rival needs the same lock. That is where
`OneEnvironment` comes in. `OneInvoicePerNumber` adds `NumbersUnique`.

**FiscalProfile.** `Decryptable` and `QueuedKeepTheirIdentity` hold always;
`ValidMeansTested` and `QueuedKeepTheirSecrets` until a row is overtaken.

**BillingUsage.** `AnswersAreTrue`, `NeverOvercounted` and `ConsumedOncePerKey` hold
always. `RecordedWhereChecked` follows from `CheckedMonth`: a handler about to record has
checked its request's own month, or one that was current when it asked.
`ConsumedOncePerKey` is about a sum over the keys: a recording adds one key to those of
a month, and `SumWithOneMore` says what that does to the sum.

**Entitlement.** `TablesDriveUsage` is a refinement: with `TablesInv` (`access` and
`limit` are what the tables say) every step of the tables is a `PlanChanges` or a
stutter of `BillingUsage` and every other step is one of its own, so `BillingSpec =>
Spec`, and the theorems of `BillingUsage` hold with the tables (`UsageWithTables`).
`StatusAgreesWithCheck` follows by cases over the tables: `DeniedOrActive` (what a subscription's status and end make of it) and
`CheckAllows` (what the check's chain of refusals amounts to) say what both endpoints
come down to, `RemainingIsRoom` that "amount within remaining" and "used plus amount
within limit" are one condition. It holds for all plans, limits, amounts, resource
counts and texts of a status. `ToldIsChecked` says that what `BillingUsage` is told is
what the check and `_current_monthly_limit` find.

`QuotaWithTables` is about any finite number of handlers of check-and-consume, limits
that differ from plan to plan and are edited, and months that end at any step. Its
invariant is `Fits`: of the handlers that have been let in and may still record in a
month (`Recording`), at least one fits when each handler that is not among them has used
one largest amount above the limit. A handler that is let in fits by itself
(`FitsWhenLetIn`, whatever the others do); one that records, or gives up, leaves room
for the others, as it has joined those outside (`FitsWhenOneLeaves`); and with nobody
about to record it is the bound. An undated request may be recorded in a later month
than the one it was checked for: `MonthsToCome` says that nothing is recorded yet in a
month that has not come, so that it fits there. `WholeIsStored` says that an increment
once lost is lost for good, which makes the proviso of the property inductive. The
theorem assumes that all requests are checked (`Kinds = {"check"}`: usage/consume records
without a check, and has no bound to keep) and that all requests of a behaviour are
undated or all are dated: a dated request may fill a month before an undated one, checked
in the month before, is recorded in it.

**Sums.** The library's induction takes an operator as a parameter, which no backend
here instantiates. `Sums_proofs` argues by a minimal counterexample instead, from the
library's `WFMin` (`SmallestSubset`). The fold behind `SumFunctionOnSet` is a CHOOSE of
a function that satisfies a recursive equation: `TotalExists` shows that there is one on
every finite set, `SumIsTotal` that it does not matter which one is chosen.

**ArcaAmounts.** For every list of items and every rate, net and VAT add up to the
total, no VAT is negative, each subtotal is within half a cent, and the net total is off
the exact one by half a cent an item at most. The step rests on `QuantizeHalf` (a
rounded quotient is within half a unit) and on `NetAtMostFinal`.

**ArcaGateway.** `GatewayInv` adds to the amounts' invariant what each party knows
before the outcome is formed: nothing has come back of a request still being sent
(`Quiet`), only the exchange's own environment is contacted and only if allowed
(`ContactInv`), and the reply or exception of a creation or a lookup tells what ARCA
decided (`CreateInv`, `LookupInv`). `ClassifyFacts` says what `_classify_error` makes of
those. `OutcomeFollowsVerdict` and `SentOnlyIfAllowed` hold under both faults,
`AbsentMeansAbsent` without a misleading 404. `NeverUnbalanced` (ARCA is never given
amounts that do not add up) follows from the invariant of `ArcaAmounts`; it and the
`TypeOK` of this module are proved and not run.

**DocumentExtraction.** For every configuration, request, image and answer, what
`extraction_calls` checks; also `ErrorIffFailed` (an error exactly when failed) and
`FallbackOnlyWhenNeeded`, which no run checks. `UsageIsComplete` is a sum again, over
the events of the calls: `RecordGrows` says that one more event adds what it cost.

Only model-checked: `EveryInvoiceEnds` itself, as liveness under fairness is out of the
prover's reach, and the four violations. The models have no recursive operators; the
loops of the code are steps, so nothing else needs induction over data.

## Known disagreements without a run of their own

Each is a behaviour of the models, shown by the constants in parentheses where a property
would see it.

Issuing and exchange:

* A terminal status is not final while its worker has yet to return: when `to_response`
  raises after the commit, an approved row becomes quarantined (`worker.py:49`) or,
  inside the `try`, retrying, then looked up and approved again, or failed after the last
  attempt (`service.py:678`). `docs/arca_invoicing_service.txt:1101` says of `approved`
  "Sí" under "Terminal". (`EndsByItsWorkerOnly` without its exception for `Raised`.)
  The voucher is neither lost nor issued again.
* A request that reaches ARCA after the query of its retry ends its authorised invoice
  as `correlative_conflict` (`Faults = {"late_delivery"}`, `RejectedNeverAuthorised`).
* An unreadable reply to `createVoucher` is classified as a rejection
  (`"garbled_reply"`, same property; `OutcomeFollowsVerdict` makes the exception).
* A query that ARCA or the gateway refuses ends the invoice as rejected although it may be
  authorised (`"refused_query"`, same property). `docs/arca_invoicing_service.txt:1216`
  says "Si la consulta falla, reintenta la consulta y no emite.", which the code does for
  retryable errors only.
* From the second attempt on, an explicit number that somebody else has used is adopted
  with its CAE (`InitialLast = 1`, `ApprovedWithOwnVoucher`).
* A 404 of the gateway that says "no encontrado" is taken for ARCA's answer that a voucher
  does not exist (`Faults = {"misleading_404"}` of `ArcaGateway`, `AbsentMeansAbsent`).
* A missing master key raises an error whose text mentions credentials: it becomes
  `arca_auth_error`, and the invoice is rejected for a fault of the configuration.
* A transient failure of a validation makes the profile invalid, and every invoice claimed
  until the next validation ends as failed.

Enqueue and profiles:

* A completion computes the hash of a request again (`service.py:494`), so the original
  request, sent again after it, gets 409 `idempotency_conflict`.
  `docs/arca_invoicing_service.txt:367` says "Repetir el mismo `external_id` y contenido
  devuelve la misma factura."
* Completions of one invoice in two environments lock two profiles, and the invoice is
  sent under two numbers (`OneNumberPerInvoice` without `OneEnvironment`).
* A profile replaced during a live query becomes valid untested, and a rotation that
  read before a replacement or a deletion writes the old secrets back (the properties
  of `FiscalProfile` without `~overtaken`): a deleted profile then has secrets again
  instead of tombstones.

Billing:

* The seed and the default of the column call every limit a hard one (`seed.py:213`,
  `models.py:83`, `hard_limit`; nothing reads it). Requests served at once take the same
  remainder, one for each other handler, and more in a month that has lost increments
  (`QuotaRespected` without its summand, or without `Used(p) = consumed[p]`). An undated
  request at a month's end is checked against one quota and charged to the next
  (`Stamps = {0}`), and one checked under a plan is recorded under its successor.
* Statuses are compared in lower case by the check and as stored elsewhere: with "Active"
  in the column, a free `String(30)`, the check allows, the status endpoint says disabled,
  the recording writes a counter without a limit, and the unique index lets a second
  open subscription in (`StatusAgreesWithCheck` without its last disjunct).

Extraction:

* The fallback's answer replaces the first one even if it is worse; `NoUsableAnswerDropped`
  is what remains true. What an unreadable answer cost is recorded as zero.
* A document that is no invoice is `needs_review` whatever its confidence, where
  `docs/document-extraction-flow.md:313` has `needs_review` for a confidence under the
  threshold only.
* A confidence that is not a number becomes 1.0 (`min` keeps the 1 it compares with).
* "gemini" and "google_genai" are one model: a fallback under the other name asks it again.
* A caller that counts its own attempts gets its count back as the response's, while the
  events of this call are numbered after it.

## Not modelled

* Read endpoints (lists, lookups, the entitlements list): they change nothing.
* Alembic migrations and `seed_plan_tenants.py`: run once by hand, or test data.
* The guard of the internal routers, which compares one header; reading the environment.
* Contents of vouchers, observations, prompts, the repair of a model's JSON, Fernet and the
  checks of certificates: data no property tells apart. SOAP is the gateway's.
* The resource counts of entitlements come from the caller; nothing of them is stored.

## Plan

1. `ProfileAndIssuing`: `FiscalProfile` and `ArcaIssuing` together: the credentials
   `client_for` uses after the claim, deletion against rows in flight, and a transient
   failure of a validation told apart from a refusal.
2. `ArcaGateway` as the environment of `ArcaIssuing`, so that `retryable` is the code's
   verdict and not a choice; attempts spent on `sequence_busy` counted.
3. Theorems: the quota without an excess under a lock, as what a fix would establish;
   one voucher per invoice with workers that outlive their leases, under a lease that is
   checked again before the reservation, likewise.
