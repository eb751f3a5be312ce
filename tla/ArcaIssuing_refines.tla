------------------------- MODULE ArcaIssuing_refines -------------------------
(***************************************************************************)
(* ArcaIssuing implements VoucherIssuing, for any number of invoices,      *)
(* workers, attempts and worker deaths, on a sequence of its own and while *)
(* the environment is as the assumption below says.                        *)
(***************************************************************************)
EXTENDS ArcaIssuing_proofs, FiniteSetTheorems

(* The environment the promise needs: nobody else issues on the sequence,  *)
(* leases outlast their workers, requests their senders do not wait for    *)
(* are lost, and refusals are refusals.                                    *)
Sheltered ==
  /\ InitialLast = 0 /\ MaxForeign = 0
  /\ Faults \cap {"slow_worker", "late_delivery", "garbled_reply", "refused_query"} = {}

RefinementInv == OwnVoucherInv /\ RejectionInv

(* The invariants of the other theorems hold together. *)
LEMMA RefinementInvariant == ASSUME Sheltered PROVE Spec => []RefinementInv
<1>1. Init => RefinementInv
  BY OwnVoucherInit, RejectionInit DEF Sheltered, RefinementInv
<1>2. RefinementInv /\ [Next]_vars => RefinementInv'
  BY OwnVoucherNext, RejectionNext DEF Sheltered, RefinementInv
<1> QED
  BY <1>1, <1>2, PTL DEF Spec

-----------------------------------------------------------------------------
(* A step writes the status of one row and takes or leaves that row only;  *)
(* a row that has ended is written by the worker that still has it.        *)
Touches(i, s) ==
  /\ status' = [status EXCEPT ![i] = s]
  /\ \A w \in Workers : job'[w] = job[w] \/ {job[w], job'[w]} \subseteq {i, None}
  /\ status[i] \in TerminalStatuses => Held(i)
  /\ status[i] = "absent" => s \in {"receiver_identification_required", "pending"}

TouchesOne == \E i \in Invoices, s \in Statuses \ {"absent"} : Touches(i, s)

(* The end of process() touches the row in hand. *)
LEMMA EndTouches == ASSUME SendingInv, NEW w \in Workers, Ends(w) PROVE TouchesOne
<1>1. PICK s \in Statuses, d \in {"null", "scheduled"} : EndsWith(w, s, d)
  BY Endings
<1>2. job[w] # None /\ job[w] \in Invoices /\ status[job[w]] # "absent" /\ Held(job[w])
  BY Endings DEF SendingInv, ClaimInv, TypeOK, SessionsFresh, Raised, Held
<1>3. /\ \A x \in Workers \ {w} : job'[x] = job[x]
      /\ job'[w] \in {job[w], None}
  BY <1>1 DEF EndsWith, CommitAndReturn, Return, SendingInv, ClaimInv, TypeOK
<1>4. Touches(job[w], s) /\ s # "absent"
  BY <1>1, <1>2, <1>3 DEF EndsWith, Touches
<1> QED
  BY <1>2, <1>4 DEF TouchesOne

(* So every step touches one row, or none. *)
LEMMA StatusWriters ==
  ASSUME SendingInv, [Next]_vars
  PROVE  TouchesOne \/ (status' = status /\ job' = job)
<1>1. ASSUME NEW i \in Invoices, NEW n \in Nat, NEW missing \in BOOLEAN,
             Enqueue(i, n, missing) \/ ResumeReceiverIdentification(i, n)
      PROVE  TouchesOne
  <2>1. /\ job' = job /\ status[i] \notin TerminalStatuses
        /\ \E s \in {"receiver_identification_required", "pending"} :
             status' = [status EXCEPT ![i] = s]
    BY <1>1 DEF Enqueue, ResumeReceiverIdentification, workers, session, TerminalStatuses
  <2>2. PICK s \in {"receiver_identification_required", "pending"} : Touches(i, s)
    BY <2>1 DEF Touches
  <2> QED
    BY <2>2 DEF TouchesOne, Statuses
<1>2. ASSUME NEW w \in Workers, NEW i \in Invoices,
             \/ Claim(w, i) \/ ClaimWithInvalidProfile(w, i)
             \/ Quarantine(w, i) /\ job[w] # i
      PROVE  TouchesOne
  <2>1. pc[w] = "idle" /\ Claimable(i)
    BY <1>2 DEF Claim, ClaimWithInvalidProfile, Quarantine
  <2>2. job[w] = None /\ status[i] \in ActiveStatuses /\ job \in [Workers -> Invoices \cup {None}]
    BY <2>1 DEF Claimable, SendingInv, ClaimInv, SessionsOpen, TypeOK
  <2>3. /\ \A x \in Workers \ {w} : job'[x] = job[x]
        /\ job'[w] \in {i, None}
    BY <1>2, <2>2 DEF Claim, ClaimWithInvalidProfile, Quarantine, Return, session
  <2>4. PICK s \in {"processing", "failed", "quarantined"} : status' = [status EXCEPT ![i] = s]
    BY <1>2 DEF Claim, ClaimWithInvalidProfile, Quarantine
  <2>5. Touches(i, s)
    BY <2>2, <2>3, <2>4 DEF Touches, ActiveStatuses, TerminalStatuses
  <2> QED
    BY <2>5 DEF TouchesOne, Statuses
<1>3. ASSUME NEW w \in Workers, \/ Connect(w) \/ LookupFindsNothing(w) \/ GetLastVoucher(w)
                                \/ ReserveAndCreate(w) \/ CreateReserved(w)
      PROVE  status' = status /\ job' = job
  BY <1>3 DEF Connect, LookupFindsNothing, GetLastVoucher, ReserveAndCreate, CreateReserved,
              rows, session
<1>4. ASSUME \/ \E ok \in BOOLEAN : ValidateProfile(ok)
             \/ \E i \in Invoices : TimePasses(i)
             \/ \E m \in requests : Settles(m)
             \/ ForeignVoucher
             \/ UNCHANGED vars
      PROVE  status' = status /\ job' = job
  BY <1>4 DEF ValidateProfile, TimePasses, Settles, ArcaAuthorises, ArcaRefuses,
              RequestIsLost, ForeignVoucher, vars, rows, workers, session
<1>5. ASSUME NEW w \in Workers, Proceeds(w) \/ Crash(w)
      PROVE  TouchesOne \/ (status' = status /\ job' = job)
  BY <1>3, <1>5, EndTouches DEF Proceeds, Ends
<1>6. ASSUME NEW w \in Workers, NEW i \in Invoices, Quarantine(w, i) PROVE TouchesOne
  BY <1>2, <1>6, EndTouches DEF Ends
<1>7. ExplicitNumbers \cup {0} \subseteq Nat
  BY ConstantsAssumption
<1> QED
  BY <1>1, <1>2, <1>4, <1>5, <1>6, <1>7 DEF Next, Api, Claims

-----------------------------------------------------------------------------
(* How many vouchers ARCA issued for an invoice. *)
HowMany(i) == Cardinality(VouchersOf(i))

(* ARCA's authorisation is the first of its invoice, which has not ended   *)
(* in a way that excludes it.                                              *)
LEMMA AuthorisesOnce ==
  ASSUME RefinementInv, NEW m \in requests, ArcaAuthorises(m)
  PROVE  /\ m.inv \in Invoices
         /\ Outcome(m.inv) \in {"open", "failed", "quarantined"}
         /\ HowMany(m.inv) = 0 /\ HowMany(m.inv)' = 1
         /\ \A j \in Invoices \ {m.inv} : HowMany(j)' = HowMany(j)
         /\ \A j \in Invoices : Outcome(j)' = Outcome(j)
<1> USE DEF RefinementInv, OwnVoucherInv, RejectionInv
<1> DEFINE new == [num |-> m.num, inv |-> m.inv]
<1>1. m.inv \in Invoices /\ m.num \in Nat /\ last \in Nat
  BY DEF ClaimInv, TypeOK, Requests
<1>2. ASSUME NEW v \in issued, v.inv = m.inv PROVE FALSE
  <2>1. v.num = number[m.inv] /\ m.num = number[m.inv] /\ v.num <= last
    BY <1>2 DEF ClaimInv, DurableReservation, IssuedUpToLast
  <2> QED
    BY <1>1, <2>1 DEF ArcaAuthorises
<1>3. status[m.inv] \notin {"rejected", "absent", "approved"}
  <2>1. status[m.inv] # "rejected"
    BY DEF RejectedNotInFlight
  <2>2. status[m.inv] # "absent"
    BY <1>1 DEF ClaimInv, SentRows, UntouchedRows, TypeOK
  <2>3. status[m.inv] # "approved"
    BY <1>1, <1>2 DEF ApprovedWithOwnVoucher
  <2> QED
    BY <2>1, <2>2, <2>3
<1>4. Outcome(m.inv) \in {"open", "failed", "quarantined"}
  BY <1>3 DEF Outcome, TerminalStatuses
<1>5. status' = status /\ job' = job /\ issued' = issued \cup {new} /\ new.inv = m.inv
  BY DEF ArcaAuthorises, rows, session
<1>6. \A j \in Invoices : Outcome(j)' = Outcome(j)
  BY <1>5 DEF Outcome, Held
<1> HIDE DEF new
<1>7. VouchersOf(m.inv) = {} /\ VouchersOf(m.inv)' = {new}
  BY <1>2, <1>5 DEF VouchersOf
<1>8. \A j \in Invoices \ {m.inv} : VouchersOf(j)' = VouchersOf(j)
  BY <1>5 DEF VouchersOf
<1>9. Cardinality({}) = 0 /\ Cardinality({new}) = 1
  BY FS_EmptySet, FS_Singleton
<1> QED
  BY <1>1, <1>4, <1>6, <1>7, <1>8, <1>9 DEF HowMany

(* An invoice whose row is touched is accepted, ends, or stays open. *)
LEMMA TouchRefines ==
  ASSUME RefinementInv, RefinementInv', issued' = issued,
         NEW i \in Invoices, NEW s \in Statuses \ {"absent"}, Touches(i, s)
  PROVE  /\ \A j \in Invoices \ {i} : Outcome(j)' = Outcome(j)
         /\ \/ Outcome(i) = "absent" /\ Outcome(i)' = "open"
            \/ Outcome(i) = "open" /\ Outcome(i)' = "open"
            \/ /\ Outcome(i) = "open" /\ Outcome(i)' \in TerminalStatuses
               /\ Outcome(i)' = "approved" => HowMany(i) = 1
               /\ Outcome(i)' = "rejected" => HowMany(i) = 0
<1> USE DEF RefinementInv, OwnVoucherInv, RejectionInv
<1>1. /\ status \in [Invoices -> Statuses] /\ status'[i] = s
      /\ \A j \in Invoices \ {i} : status'[j] = status[j]
  BY DEF Touches, ClaimInv, TypeOK
<1>2. \A j \in Invoices \ {i} : Held(j)' <=> Held(j)
  BY ConstantsAssumption DEF Touches, Held
<1>3. \A j \in Invoices \ {i} : Outcome(j)' = Outcome(j)
  BY <1>1, <1>2 DEF Outcome
<1>4. status[i] = "absent" => ~Held(i) /\ s \notin TerminalStatuses
  BY ConstantsAssumption
  DEF Touches, TerminalStatuses, Held, ClaimInv, SessionsFresh, Raised, TypeOK
<1>5. CASE status[i] = "absent"
  BY <1>1, <1>3, <1>4, <1>5 DEF Outcome
<1>6. CASE status[i] # "absent"
  <2>1. Outcome(i) = "open"
    BY <1>6 DEF Outcome, Touches
  <2>2. Outcome(i)' = "open" \/ (Outcome(i)' = s /\ s \in TerminalStatuses)
    BY <1>1 DEF Outcome
  <2>3. ASSUME s = "approved" PROVE HowMany(i) = 1
    <3> DEFINE own == [num |-> number'[i], inv |-> i]
    <3>1. own \in issued /\ own.inv = i
      BY <1>1, <2>3 DEF ApprovedWithOwnVoucher
    <3>2. \A u, v \in issued : u.inv = v.inv => u = v
      BY OneVoucher DEF OneVoucherPerInvoice
    <3> HIDE DEF own
    <3>3. VouchersOf(i) = {own}
      BY <3>1, <3>2 DEF VouchersOf
    <3> QED
      BY <3>3, FS_Singleton DEF HowMany
  <2>4. ASSUME s = "rejected" PROVE HowMany(i) = 0
    <3>1. VouchersOf(i) = {}
      BY <1>1, <2>4 DEF VouchersOf, RejectedNeverAuthorised
    <3> QED
      BY <3>1, FS_EmptySet DEF HowMany
  <2>5. "approved" # "open" /\ "rejected" # "open"
    OBVIOUS
  <2> QED
    BY <1>3, <2>1, <2>2, <2>3, <2>4, <2>5
<1> QED
  BY <1>5, <1>6

(* Every step is one of the promise's, or changes nothing it speaks of. *)
LEMMA StepRefines ==
  ASSUME RefinementInv, RefinementInv', [Next]_vars
  PROVE  [Promise!Next]_(Promise!vars)
<1> DEFINE o == [i \in Invoices |-> Outcome(i)]
           n == [i \in Invoices |-> Cardinality(VouchersOf(i))]
<1>0. SendingInv
  BY DEF RefinementInv, RejectionInv
<1>1. ASSUME NEW m \in requests, ArcaAuthorises(m)
      PROVE  Promise!Next
  <2>1. o' = o /\ n[m.inv] = 0 /\ n' = [n EXCEPT ![m.inv] = 1]
    BY <1>1, AuthorisesOnce DEF HowMany
  <2>2. Promise!Authorise(m.inv)
    BY <1>1, <2>1, AuthorisesOnce DEF Promise!Authorise
  <2> QED
    BY <1>1, <2>2, AuthorisesOnce DEF Promise!Next
<1>2. ASSUME ~ \E m \in requests : ArcaAuthorises(m)
      PROVE  issued' = issued /\ n' = n
  BY <1>2, SequenceWriters DEF ForeignVoucher, VouchersOf
<1>3. ASSUME status' = status, job' = job
      PROVE  o' = o
  BY <1>3 DEF Outcome, Held
<1>4. ASSUME NEW i \in Invoices, NEW s \in Statuses \ {"absent"}, Touches(i, s),
             issued' = issued, n' = n
      PROVE  Promise!Next \/ UNCHANGED <<o, n>>
  <2>1. \A j \in Invoices \ {i} : Outcome(j)' = Outcome(j)
    BY <1>4, TouchRefines
  <2>2. o' = [o EXCEPT ![i] = Outcome(i)']
    BY <2>1
  <2>3. CASE Outcome(i) = "absent" /\ Outcome(i)' = "open"
    <3>1. Promise!Accept(i)
      BY <1>4, <2>2, <2>3 DEF Promise!Accept
    <3> QED
      BY <3>1 DEF Promise!Next
  <2>4. CASE Outcome(i)' = Outcome(i)
    BY <1>4, <2>1, <2>4
  <2>5. CASE /\ Outcome(i) = "open" /\ Outcome(i)' \in TerminalStatuses
             /\ Outcome(i)' = "approved" => HowMany(i) = 1
             /\ Outcome(i)' = "rejected" => HowMany(i) = 0
    <3> DEFINE end == Outcome(i)'
    <3>1. o' = [o EXCEPT ![i] = end] /\ o[i] = "open" /\ end \in Promise!Ends
      BY <2>2, <2>5 DEF TerminalStatuses, Promise!Ends
    <3>2. (end = "approved" => n[i] = 1) /\ (end = "rejected" => n[i] = 0)
      BY <2>5 DEF HowMany
    <3> HIDE DEF end
    <3>3. Promise!End(i, end)
      BY <1>4, <3>1, <3>2 DEF Promise!End
    <3> QED
      BY <3>1, <3>3 DEF Promise!Next
  <2> QED
    BY <1>4, <2>3, <2>4, <2>5, TouchRefines
<1> QED
  BY <1>0, <1>1, <1>2, <1>3, <1>4, StatusWriters DEF TouchesOne, Promise!vars

(* Workers, reservations, queries and retries implement the promise. *)
THEOREM Refinement == ASSUME Sheltered PROVE Spec => KeepsItsPromise
<1>1. Init => Promise!Init
  <2> SUFFICES ASSUME Init PROVE Promise!Init
    OBVIOUS
  <2>1. \A i \in Invoices : Outcome(i) = "absent"
    BY ConstantsAssumption DEF Init, Outcome, Held
  <2>2. \A i \in Invoices : Cardinality(VouchersOf(i)) = 0
    BY FS_EmptySet DEF Init, VouchersOf
  <2> QED
    BY <2>1, <2>2 DEF Promise!Init
<1>2. RefinementInv /\ RefinementInv' /\ [Next]_vars => [Promise!Next]_(Promise!vars)
  BY StepRefines
<1> QED
  BY RefinementInvariant, <1>1, <1>2, PTL DEF Spec, KeepsItsPromise, Promise!Spec

=============================================================================
