-------------------------- MODULE ArcaIssuing_inv --------------------------
(***************************************************************************)
(* The inductive invariants behind the properties of ArcaIssuing, in       *)
(* parts.  The first four need only that no worker outlives its lease; the *)
(* others name the further assumptions under which they hold.              *)
(* ArcaIssuing_proofs proves them.                                         *)
(***************************************************************************)
EXTENDS ArcaIssuing

(* A worker has a record in hand exactly while it is in process(), and    *)
(* reserves one more than what ARCA answered.                             *)
SessionsOpen ==
  \A w \in Workers :
    /\ pc[w] = "idle" <=> job[w] = None
    /\ pc[w] = "reserve" => expected[w] > 0

(* The session of a worker agrees with the row it holds, which is leased,  *)
(* or ended or waiting for its retry when to_response raised: although     *)
(* nothing is locked, nobody else writes the row.                          *)
SessionsFresh ==
  \A w \in Workers : job[w] # None =>
    /\ sNumber[w] = number[job[w]]
    /\ sAttempts[w] = attempts[job[w]]
    /\ due[job[w]] # "due"
    /\ pc[w] \notin Raised => status[job[w]] = "processing" /\ due[job[w]] = "scheduled"
    /\ pc[w] \in Raised => status[job[w]] \in {"approved", "rejected", "retrying", "failed"}
    /\ pc[w] # "raised" => attempts[job[w]] > 0

(* Rows the worker never claimed have no attempts, ... *)
UntouchedRows ==
  \A i \in Invoices : status[i] \in {"absent", "receiver_identification_required"} =>
    attempts[i] = 0

(* ... and only a row with attempts was ever sent to ARCA. *)
SentRows ==
  /\ \A m \in requests : attempts[m.inv] > 0
  /\ \A v \in issued : attempts[v.inv] > 0

(* The inductive invariant of the claims and the reservation. *)
ClaimInv ==
  /\ TypeOK
  /\ SessionsOpen
  /\ ExclusiveClaim
  /\ SessionsFresh
  /\ UntouchedRows
  /\ SentRows
  /\ DurableReservation

(* A row that may be claimed again has attempts left, or a worker died. *)
AttemptsLeft ==
  \A i \in Invoices :
    \/ status[i] \in {"pending", "retrying"}
    \/ status[i] = "processing" /\ ~Held(i)
    => attempts[i] < MaxAttempts + crashes

(* The vouchers ARCA issued are those of the numbers it has reached. *)
IssuedUpToLast ==
  /\ \A v \in issued : v.num <= last
  /\ \A n \in 1 .. last : \E v \in issued : v.num = n

(* The unique constraint on the fiscal reference. *)
UniqueNumbers ==
  \A i, j \in Invoices : number[i] = number[j] /\ number[i] # 0 => i = j

(* A worker that reads an authorisation reads that of its own request. *)
AnswersOwn ==
  \A w \in Workers : answer[w] = "cae" =>
    pc[w] = "create" /\ [num |-> sNumber[w], inv |-> job[w]] \in issued

(* Only a number the row has is queried. *)
QueriesItsNumber == \A w \in Workers : pc[w] = "lookup" => sNumber[w] > 0

(* If the sequence started empty and nobody else issues on it. *)
OwnVoucherInv ==
  /\ ClaimInv
  /\ QueriesItsNumber
  /\ IssuedUpToLast
  /\ UniqueNumbers
  /\ AnswersOwn
  /\ ApprovedWithOwnVoucher

(* If requests are handled or lost before their sender's row is due again. *)
NothingInFlight ==
  /\ \A i \in Invoices : due[i] = "due" => ~InFlight(i)
  /\ \A w \in Workers, m \in requests :
       m.inv = job[w] =>
         \/ pc[w] = "create" /\ m = Request(w) /\ answer[w] = "none"
         \/ pc[w] \in Raised

(* Where a worker can be that holds a row ARCA has authorised. *)
AuthorisedIsFound ==
  \A w \in Workers, v \in issued : v.inv = job[w] =>
    \/ pc[w] = "connect" /\ sAttempts[w] > 1
    \/ pc[w] = "lookup"
    \/ pc[w] = "create" /\ answer[w] = "cae"
    \/ pc[w] \in Raised

(* A reply that has arrived was the answer to the request of the worker. *)
AnswersWhenCreating ==
  \A w \in Workers : answer[w] # "none" => pc[w] = "create" /\ Request(w) \notin requests

IssuedReached == \A v \in issued : v.num <= last

(* A request that is still on its way is that of the worker waiting for it, *)
(* and what ARCA has authorised is found before anything is sent again.    *)
FlightInv ==
  /\ IssuedReached
  /\ NothingInFlight
  /\ AnswersWhenCreating
  /\ AuthorisedIsFound

SendingInv == ClaimInv /\ FlightInv

(* If besides no failure is taken for ARCA's refusal. *)
RejectedNotInFlight ==
  \A m \in requests : status[m.inv] # "rejected"

RejectionInv ==
  /\ SendingInv
  /\ RejectedNotInFlight
  /\ RejectedNeverAuthorised

-----------------------------------------------------------------------------
(* A row has a next_retry_at exactly while it has not ended: the worker's  *)
(* query reaches every row that somebody waits for, and no other.          *)
RowsScheduled ==
  \A i \in Invoices : status[i] \in ActiveStatuses <=> due[i] # "null"

(* The advisory lock is with a worker that is between getLastVoucher and   *)
(* its return, who waits for ARCA and not for another worker.              *)
LockAtWork == lock # None => pc[lock] \in {"reserve", "create"}

CrashesCounted == crashes <= MaxCrashes

(* What EveryInvoiceEnds asks of every state, whatever is fair: a row that *)
(* has not ended is with a worker, or waits for a time that is set, or can *)
(* be claimed, and nobody keeps the lock who does not use it.              *)
NothingIsStuck ==
  /\ \A i \in Invoices : status[i] \in ActiveStatuses =>
       \/ Held(i)
       \/ due[i] = "scheduled"
       \/ Claimable(i) /\ attempts[i] < ClaimBound
  /\ LockAtWork

=============================================================================
