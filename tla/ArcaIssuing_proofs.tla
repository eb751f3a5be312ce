------------------------- MODULE ArcaIssuing_proofs -------------------------
(***************************************************************************)
(* Proofs about ArcaIssuing for all sets of invoices and workers, attempts *)
(* and worker deaths.                                                      *)
(***************************************************************************)
EXTENDS ArcaIssuing_inv, TLAPS

(* Every variable has its type, and sessions are open while in process(). *)
LEMMA TypeInit == ASSUME Init PROVE TypeOK /\ SessionsOpen
BY ConstantsAssumption
DEF Init, TypeOK, SessionsOpen, Statuses, Dues, Caes, Steps, Answers, Vouchers, Requests

(* Every step keeps the types and the sessions. *)
LEMMA TypeNext ==
  ASSUME TypeOK, SessionsOpen, [Next]_vars
  PROVE  TypeOK' /\ SessionsOpen'
<1> USE ConstantsAssumption DEF TypeOK, SessionsOpen, Statuses, Dues, Caes, Steps, Answers
<1>1. ASSUME NEW i \in Invoices, NEW n \in ExplicitNumbers \cup {0}, NEW missing \in BOOLEAN, Enqueue(i, n, missing)
       PROVE  TypeOK' /\ SessionsOpen'
  BY <1>1 DEF Enqueue, workers, session, arca
<1>2. ASSUME NEW i \in Invoices, NEW n \in ExplicitNumbers, ResumeReceiverIdentification(i, n)
       PROVE  TypeOK' /\ SessionsOpen'
  BY <1>2 DEF ResumeReceiverIdentification, workers, session, arca
<1>3. ASSUME NEW ok \in BOOLEAN, ValidateProfile(ok)
       PROVE  TypeOK' /\ SessionsOpen'
  BY <1>3 DEF ValidateProfile, rows, workers, session, arca
<1>4. ASSUME NEW i \in Invoices, TimePasses(i)
       PROVE  TypeOK' /\ SessionsOpen'
  BY <1>4 DEF TimePasses, Held, workers, session, arca
<1>5. ASSUME NEW w \in Workers, NEW i \in Invoices, Claim(w, i)
       PROVE  TypeOK' /\ SessionsOpen'
  BY <1>5 DEF Claim, Claimable, Lease, arca
<1>6. ASSUME NEW w \in Workers, NEW i \in Invoices, ClaimWithInvalidProfile(w, i)
       PROVE  TypeOK' /\ SessionsOpen'
  BY <1>6 DEF ClaimWithInvalidProfile, Claimable, Raised, workers, session, arca
<1>7. ASSUME NEW w \in Workers, Connect(w)
       PROVE  TypeOK' /\ SessionsOpen'
  BY <1>7 DEF Connect, rows, arca, session
<1>8. ASSUME NEW w \in Workers, NEW retryable \in BOOLEAN, ConnectOrLookupFails(w, retryable)
       PROVE  TypeOK' /\ SessionsOpen'
  <2>1. CASE retryable
    BY <1>8, <2>1, SMTT(30) DEF ConnectOrLookupFails, HandleError, RetryLater, CommitAndReturn, Raised, Return, Unlocked, arca
  <2>2. CASE ~retryable
    BY <1>8, <2>2, SMTT(30) DEF ConnectOrLookupFails, HandleError, Reject, CommitAndReturn, Raised, Return, Unlocked, arca
  <2> QED
    BY <2>1, <2>2
<1>9. ASSUME NEW w \in Workers, LookupFinds(w)
       PROVE  TypeOK' /\ SessionsOpen'
  BY <1>9, SMTT(30) DEF LookupFinds, Approve, Owner, CommitAndReturn, Raised, Return, Unlocked, arca
<1>10. ASSUME NEW w \in Workers, LookupFindsNothing(w)
       PROVE  TypeOK' /\ SessionsOpen'
  BY <1>10 DEF LookupFindsNothing, rows, arca, session
<1>11. ASSUME NEW w \in Workers, LookupFindsNoCae(w)
       PROVE  TypeOK' /\ SessionsOpen'
  BY <1>11, SMTT(30) DEF LookupFindsNoCae, Reject, CommitAndReturn, Raised, Return, Unlocked, arca
<1>12. ASSUME NEW w \in Workers, GetLastVoucher(w)
       PROVE  TypeOK' /\ SessionsOpen'
  BY <1>12 DEF GetLastVoucher, rows, arca, session
<1>13. ASSUME NEW w \in Workers, NEW retryable \in BOOLEAN, GetLastVoucherFails(w, retryable)
       PROVE  TypeOK' /\ SessionsOpen'
  <2>1. CASE retryable
    BY <1>13, <2>1, SMTT(30) DEF GetLastVoucherFails, HandleError, RetryLater, CommitAndReturn, Raised, Return, Unlocked, arca
  <2>2. CASE ~retryable
    BY <1>13, <2>2, SMTT(30) DEF GetLastVoucherFails, HandleError, Reject, CommitAndReturn, Raised, Return, Unlocked, arca
  <2> QED
    BY <2>1, <2>2
<1>14. ASSUME NEW w \in Workers, SequenceBusy(w)
       PROVE  TypeOK' /\ SessionsOpen'
  BY <1>14, SMTT(30) DEF SequenceBusy, RetryLater, CommitAndReturn, Raised, Return, Unlocked, arca
<1>15. ASSUME NEW w \in Workers, ReservationCollides(w)
       PROVE  TypeOK' /\ SessionsOpen'
  BY <1>15, SMTT(30) DEF ReservationCollides, RetryLater, CommitAndReturn, Raised, Return, Unlocked, arca
<1>16. ASSUME NEW w \in Workers, ReserveAndCreate(w)
       PROVE  TypeOK' /\ SessionsOpen'
  BY <1>16 DEF ReserveAndCreate, FirstRequest, Request, Reserved, Unlocked, NeedsNumber, Requests, Vouchers
<1>17. ASSUME NEW w \in Workers, CreateReserved(w)
       PROVE  TypeOK' /\ SessionsOpen'
  BY <1>17 DEF CreateReserved, NeedsNumber, Request, Requests, Vouchers, rows, session
<1>18. ASSUME NEW w \in Workers, CorrelativeConflict(w)
       PROVE  TypeOK' /\ SessionsOpen'
  BY <1>18, SMTT(30) DEF CorrelativeConflict, Reject, CommitAndReturn, Raised, Return, Unlocked, arca
<1>19. ASSUME NEW w \in Workers, CreateSucceeds(w)
       PROVE  TypeOK' /\ SessionsOpen'
  BY <1>19, SMTT(30) DEF CreateSucceeds, Authorised, Approve, Owner, CommitAndReturn, Raised, Return, Unlocked, arca
<1>20. ASSUME NEW w \in Workers, CreateRefused(w)
       PROVE  TypeOK' /\ SessionsOpen'
  BY <1>20, SMTT(30) DEF CreateRefused, Authorised, Reject, CommitAndReturn, Raised, Return, Unlocked, arca
<1>21. ASSUME NEW w \in Workers, NEW retryable \in BOOLEAN, CreateFails(w, retryable)
       PROVE  TypeOK' /\ SessionsOpen'
  <2>1. CASE retryable
    BY <1>21, <2>1, SMTT(30) DEF CreateFails, HandleError, RetryLater, CommitAndReturn, Raised, Return, Unlocked, arca
  <2>2. CASE ~retryable
    BY <1>21, <2>2, SMTT(30) DEF CreateFails, HandleError, Reject, CommitAndReturn, Raised, Return, Unlocked, arca
  <2> QED
    BY <2>1, <2>2
<1>22. ASSUME NEW w \in Workers, ResponseRaisedInTry(w)
       PROVE  TypeOK' /\ SessionsOpen'
  BY <1>22, SMTT(30) DEF ResponseRaisedInTry, HandleError, RetryLater, CommitAndReturn, Raised, Return, Unlocked, arca
<1>23. ASSUME NEW w \in Workers, Crash(w)
       PROVE  TypeOK' /\ SessionsOpen'
  BY <1>23 DEF Crash, Return, Unlocked, rows, arca
<1>24. ASSUME NEW w \in Workers, NEW i \in Invoices, Quarantine(w, i)
       PROVE  TypeOK' /\ SessionsOpen'
  BY <1>24 DEF Quarantine, Claimable, Return, Unlocked, arca
<1>25. ASSUME NEW m \in requests, ArcaAuthorises(m)
       PROVE  TypeOK' /\ SessionsOpen'
  BY <1>25 DEF ArcaAuthorises, Answered, Waits, Requests, Vouchers, rows, session
<1>26. ASSUME NEW m \in requests, ArcaRefuses(m)
       PROVE  TypeOK' /\ SessionsOpen'
  BY <1>26 DEF ArcaRefuses, Answered, Waits, Requests, Vouchers, rows, session
<1>27. ASSUME NEW m \in requests, RequestIsLost(m)
       PROVE  TypeOK' /\ SessionsOpen'
  BY <1>27 DEF RequestIsLost, Requests, rows, workers, session, arca
<1>28. ASSUME ForeignVoucher
       PROVE  TypeOK' /\ SessionsOpen'
  BY <1>28 DEF ForeignVoucher, rows, workers, session, arca
<1>29. CASE UNCHANGED vars
  BY <1>29 DEF vars, rows, arca, session, workers
<1> HIDE DEF TypeOK, SessionsOpen, Statuses, Dues, Caes, Steps, Answers
<1> QED
  BY <1>1, <1>2, <1>3, <1>4, <1>5, <1>6, <1>7, <1>8, <1>9, <1>10, <1>11,
     <1>12, <1>13, <1>14, <1>15, <1>16, <1>17, <1>18, <1>19, <1>20, <1>21,
     <1>22, <1>23, <1>24, <1>25, <1>26, <1>27, <1>28, <1>29
  DEF Next, Api, Claims, Proceeds, Settles

(* Every step keeps the invariant of the claims: the worker that holds a
   row is the only one that writes it until its lease ends. *)
LEMMA ClaimNext ==
  ASSUME "slow_worker" \notin Faults, ClaimInv, [Next]_vars
  PROVE  ClaimInv'
<1> DEFINE Rest == /\ ExclusiveClaim
                   /\ SessionsFresh
                   /\ UntouchedRows
                   /\ SentRows
                   /\ DurableReservation
<1>0. TypeOK' /\ SessionsOpen'
  BY TypeNext DEF ClaimInv
<1> USE DEF ClaimInv, TypeOK, SessionsOpen
<1> USE DEF ExclusiveClaim, SessionsFresh, UntouchedRows, SentRows, DurableReservation
<1> USE ConstantsAssumption
<1>1. ASSUME NEW i \in Invoices, NEW n \in ExplicitNumbers \cup {0}, NEW missing \in BOOLEAN, Enqueue(i, n, missing)
       PROVE  Rest'
  BY <1>1 DEF Enqueue, workers, session, arca
<1>2. ASSUME NEW i \in Invoices, NEW n \in ExplicitNumbers, ResumeReceiverIdentification(i, n)
       PROVE  Rest'
  BY <1>2 DEF ResumeReceiverIdentification, workers, session, arca
<1>3. ASSUME NEW ok \in BOOLEAN, ValidateProfile(ok)
       PROVE  Rest'
  BY <1>3 DEF ValidateProfile, rows, workers, session, arca
<1>4. ASSUME NEW i \in Invoices, TimePasses(i)
       PROVE  Rest'
  BY <1>4 DEF TimePasses, Held, workers, session, arca
<1>5. ASSUME NEW w \in Workers, NEW i \in Invoices, Claim(w, i)
       PROVE  Rest'
  BY <1>5 DEF Claim, Claimable, Lease, arca, Raised
<1>6. ASSUME NEW w \in Workers, NEW i \in Invoices, ClaimWithInvalidProfile(w, i)
       PROVE  Rest'
  BY <1>6 DEF ClaimWithInvalidProfile, Claimable, Raised, workers, session, arca
<1>7. ASSUME NEW w \in Workers, Connect(w)
       PROVE  Rest'
  BY <1>7 DEF Connect, rows, arca, session, Raised
<1>8. ASSUME NEW w \in Workers, NEW retryable \in BOOLEAN, ConnectOrLookupFails(w, retryable)
       PROVE  Rest'
  <2>1. CASE retryable
    BY <1>8, <2>1, SMTT(30) DEF ConnectOrLookupFails, HandleError, RetryLater, CommitAndReturn, Raised, Return, Unlocked, arca
  <2>2. CASE ~retryable
    BY <1>8, <2>2, SMTT(30) DEF ConnectOrLookupFails, HandleError, Reject, CommitAndReturn, Raised, Return, Unlocked, arca
  <2> QED
    BY <2>1, <2>2
<1>9. ASSUME NEW w \in Workers, LookupFinds(w)
       PROVE  Rest'
  BY <1>9, SMTT(30) DEF LookupFinds, Approve, Owner, CommitAndReturn, Raised, Return, Unlocked, arca
<1>10. ASSUME NEW w \in Workers, LookupFindsNothing(w)
       PROVE  Rest'
  BY <1>10 DEF LookupFindsNothing, rows, arca, session, Raised
<1>11. ASSUME NEW w \in Workers, LookupFindsNoCae(w)
       PROVE  Rest'
  BY <1>11, SMTT(30) DEF LookupFindsNoCae, Reject, CommitAndReturn, Raised, Return, Unlocked, arca
<1>12. ASSUME NEW w \in Workers, GetLastVoucher(w)
       PROVE  Rest'
  BY <1>12 DEF GetLastVoucher, rows, arca, session, Raised
<1>13. ASSUME NEW w \in Workers, NEW retryable \in BOOLEAN, GetLastVoucherFails(w, retryable)
       PROVE  Rest'
  <2>1. CASE retryable
    BY <1>13, <2>1, SMTT(30) DEF GetLastVoucherFails, HandleError, RetryLater, CommitAndReturn, Raised, Return, Unlocked, arca
  <2>2. CASE ~retryable
    BY <1>13, <2>2, SMTT(30) DEF GetLastVoucherFails, HandleError, Reject, CommitAndReturn, Raised, Return, Unlocked, arca
  <2> QED
    BY <2>1, <2>2
<1>14. ASSUME NEW w \in Workers, SequenceBusy(w)
       PROVE  Rest'
  BY <1>14, SMTT(30) DEF SequenceBusy, RetryLater, CommitAndReturn, Raised, Return, Unlocked, arca
<1>15. ASSUME NEW w \in Workers, ReservationCollides(w)
       PROVE  Rest'
  BY <1>15, SMTT(30) DEF ReservationCollides, RetryLater, CommitAndReturn, Raised, Return, Unlocked, arca
<1>16. ASSUME NEW w \in Workers, ReserveAndCreate(w)
       PROVE  Rest'
  BY <1>16 DEF ReserveAndCreate, FirstRequest, Request, Reserved, Unlocked, NeedsNumber, Requests, Vouchers, Raised
<1>17. ASSUME NEW w \in Workers, CreateReserved(w)
       PROVE  Rest'
  BY <1>17 DEF CreateReserved, NeedsNumber, Request, Requests, Vouchers, rows, session, Raised
<1>18. ASSUME NEW w \in Workers, CorrelativeConflict(w)
       PROVE  Rest'
  BY <1>18, SMTT(30) DEF CorrelativeConflict, Reject, CommitAndReturn, Raised, Return, Unlocked, arca
<1>19. ASSUME NEW w \in Workers, CreateSucceeds(w)
       PROVE  Rest'
  BY <1>19, SMTT(30) DEF CreateSucceeds, Authorised, Approve, Owner, CommitAndReturn, Raised, Return, Unlocked, arca
<1>20. ASSUME NEW w \in Workers, CreateRefused(w)
       PROVE  Rest'
  BY <1>20, SMTT(30) DEF CreateRefused, Authorised, Reject, CommitAndReturn, Raised, Return, Unlocked, arca
<1>21. ASSUME NEW w \in Workers, NEW retryable \in BOOLEAN, CreateFails(w, retryable)
       PROVE  Rest'
  <2>1. CASE retryable
    BY <1>21, <2>1, SMTT(30) DEF CreateFails, HandleError, RetryLater, CommitAndReturn, Raised, Return, Unlocked, arca
  <2>2. CASE ~retryable
    BY <1>21, <2>2, SMTT(30) DEF CreateFails, HandleError, Reject, CommitAndReturn, Raised, Return, Unlocked, arca
  <2> QED
    BY <2>1, <2>2
<1>22. ASSUME NEW w \in Workers, ResponseRaisedInTry(w)
       PROVE  Rest'
  BY <1>22, SMTT(30) DEF ResponseRaisedInTry, HandleError, RetryLater, CommitAndReturn, Raised, Return, Unlocked, arca
<1>23. ASSUME NEW w \in Workers, Crash(w)
       PROVE  Rest'
  BY <1>23 DEF Crash, Return, Unlocked, rows, arca
<1>24. ASSUME NEW w \in Workers, NEW i \in Invoices, Quarantine(w, i)
       PROVE  Rest'
  BY <1>24 DEF Quarantine, Claimable, Return, Unlocked, arca
<1>25. ASSUME NEW m \in requests, ArcaAuthorises(m)
       PROVE  Rest'
  BY <1>25 DEF ArcaAuthorises, Answered, Waits, Requests, Vouchers, rows, session
<1>26. ASSUME NEW m \in requests, ArcaRefuses(m)
       PROVE  Rest'
  BY <1>26 DEF ArcaRefuses, Answered, Waits, Requests, Vouchers, rows, session
<1>27. ASSUME NEW m \in requests, RequestIsLost(m)
       PROVE  Rest'
  BY <1>27 DEF RequestIsLost, Requests, rows, workers, session, arca
<1>28. ASSUME ForeignVoucher
       PROVE  Rest'
  BY <1>28 DEF ForeignVoucher, rows, workers, session, arca
<1>29. ASSUME UNCHANGED vars
       PROVE  Rest'
  BY <1>29 DEF vars, rows, arca, session, workers
<1> HIDE DEF Rest
<1>30. Rest'
  BY <1>1, <1>2, <1>3, <1>4, <1>5, <1>6, <1>7, <1>8, <1>9, <1>10, <1>11,
     <1>12, <1>13, <1>14, <1>15, <1>16, <1>17, <1>18, <1>19, <1>20, <1>21,
     <1>22, <1>23, <1>24, <1>25, <1>26, <1>27, <1>28, <1>29
  DEF Next, Api, Claims, Proceeds, Settles
<1> QED
  BY <1>0, <1>30 DEF Rest

(* The type invariant holds in every reachable state. *)
THEOREM Typing == Spec => []TypeOK
<1>1. TypeOK /\ SessionsOpen /\ [Next]_vars => (TypeOK /\ SessionsOpen)'
  BY TypeNext
<1> QED
  BY TypeInit, <1>1, PTL DEF Spec

(* The invariant of the claims holds before the first request. *)
LEMMA ClaimInit == ASSUME Init PROVE ClaimInv
BY TypeInit, ConstantsAssumption
DEF Init, ClaimInv, ExclusiveClaim, SessionsFresh, UntouchedRows, SentRows, DurableReservation

(* While no worker outlives its lease, the invariant of the claims holds. *)
THEOREM ClaimInvariant == ASSUME "slow_worker" \notin Faults PROVE Spec => []ClaimInv
<1>1. ClaimInv /\ [Next]_vars => ClaimInv'
  BY ClaimNext
<1> QED
  BY ClaimInit, <1>1, PTL DEF Spec

(* The lease keeps a row in the hands of one worker. *)
THEOREM Exclusion == ASSUME "slow_worker" \notin Faults PROVE Spec => []ExclusiveClaim
<1>1. ClaimInv => ExclusiveClaim
  BY DEF ClaimInv
<1> QED
  BY ClaimInvariant, <1>1, PTL

(* What ARCA was sent or authorised is the number the row stores. *)
THEOREM Durability == ASSUME "slow_worker" \notin Faults PROVE Spec => []DurableReservation
<1>1. ClaimInv => DurableReservation
  BY DEF ClaimInv
<1> QED
  BY ClaimInvariant, <1>1, PTL

(* Two vouchers of one invoice would both have the number its row stores. *)
LEMMA OneVoucher == ASSUME ClaimInv PROVE OneVoucherPerInvoice
<1> SUFFICES ASSUME NEW u \in issued, NEW v \in issued, u.inv = v.inv
             PROVE  u = v
  BY DEF OneVoucherPerInvoice
<1>1. u.num = v.num
  BY DEF ClaimInv, DurableReservation
<1>2. u \in Vouchers /\ v \in Vouchers
  BY DEF ClaimInv, TypeOK
<1> QED
  BY <1>1, <1>2 DEF Vouchers

(* ARCA authorises an invoice at most once, whatever the other faults. *)
THEOREM AtMostOnce == ASSUME "slow_worker" \notin Faults PROVE Spec => []OneVoucherPerInvoice
<1>1. ClaimInv => OneVoucherPerInvoice
  BY OneVoucher
<1> QED
  BY ClaimInvariant, <1>1, PTL

(* No step replaces the number of a row an attempt has started on. *)
LEMMA FinalNumbers ==
  ASSUME ClaimInv, [Next]_vars
  PROVE  \A i \in Invoices : attempts[i] > 0 /\ number[i] # 0 => number'[i] = number[i]
<1> DEFINE Kept == \A i \in Invoices : attempts[i] > 0 /\ number[i] # 0 => number'[i] = number[i]
<1>0. ClaimInv
  OBVIOUS
<1> USE ConstantsAssumption DEF ClaimInv, TypeOK, SessionsOpen, SessionsFresh, UntouchedRows
<1>1. ASSUME NEW i \in Invoices, NEW n \in ExplicitNumbers \cup {0}, NEW missing \in BOOLEAN, Enqueue(i, n, missing)
       PROVE  Kept
  BY <1>1 DEF Enqueue, workers, session, arca
<1>2. ASSUME NEW i \in Invoices, NEW n \in ExplicitNumbers, ResumeReceiverIdentification(i, n)
       PROVE  Kept
  BY <1>2 DEF ResumeReceiverIdentification, workers, session, arca
<1>3. ASSUME NEW ok \in BOOLEAN, ValidateProfile(ok)
       PROVE  Kept
  BY <1>3 DEF ValidateProfile, rows, workers, session, arca
<1>4. ASSUME NEW i \in Invoices, TimePasses(i)
       PROVE  Kept
  BY <1>4 DEF TimePasses, Held, workers, session, arca
<1>5. ASSUME NEW w \in Workers, NEW i \in Invoices, Claim(w, i)
       PROVE  Kept
  BY <1>5 DEF Claim, Claimable, Lease, arca
<1>6. ASSUME NEW w \in Workers, NEW i \in Invoices, ClaimWithInvalidProfile(w, i)
       PROVE  Kept
  BY <1>6 DEF ClaimWithInvalidProfile, Claimable, Raised, workers, session, arca
<1>7. ASSUME NEW w \in Workers, Connect(w)
       PROVE  Kept
  BY <1>7 DEF Connect, rows, arca, session
<1>8. ASSUME NEW w \in Workers, NEW retryable \in BOOLEAN, ConnectOrLookupFails(w, retryable)
       PROVE  Kept
  BY <1>8 DEF ConnectOrLookupFails, HandleError, RetryLater, Reject, CommitAndReturn, Raised, Return, Unlocked, arca
<1>9. ASSUME NEW w \in Workers, LookupFinds(w)
       PROVE  Kept
  BY <1>9 DEF LookupFinds, Approve, Owner, CommitAndReturn, Raised, Return, Unlocked, arca
<1>10. ASSUME NEW w \in Workers, LookupFindsNothing(w)
       PROVE  Kept
  BY <1>10 DEF LookupFindsNothing, rows, arca, session
<1>11. ASSUME NEW w \in Workers, LookupFindsNoCae(w)
       PROVE  Kept
  BY <1>11 DEF LookupFindsNoCae, Reject, CommitAndReturn, Raised, Return, Unlocked, arca
<1>12. ASSUME NEW w \in Workers, GetLastVoucher(w)
       PROVE  Kept
  BY <1>12 DEF GetLastVoucher, rows, arca, session
<1>13. ASSUME NEW w \in Workers, NEW retryable \in BOOLEAN, GetLastVoucherFails(w, retryable)
       PROVE  Kept
  BY <1>13 DEF GetLastVoucherFails, HandleError, RetryLater, Reject, CommitAndReturn, Raised, Return, Unlocked, arca
<1>14. ASSUME NEW w \in Workers, SequenceBusy(w)
       PROVE  Kept
  BY <1>14 DEF SequenceBusy, RetryLater, CommitAndReturn, Raised, Return, Unlocked, arca
<1>15. ASSUME NEW w \in Workers, ReservationCollides(w)
       PROVE  Kept
  BY <1>15 DEF ReservationCollides, RetryLater, CommitAndReturn, Raised, Return, Unlocked, arca
<1>16. ASSUME NEW w \in Workers, ReserveAndCreate(w)
       PROVE  Kept
  BY <1>16 DEF ReserveAndCreate, FirstRequest, Request, Reserved, Unlocked, NeedsNumber, Requests, Vouchers
<1>17. ASSUME NEW w \in Workers, CreateReserved(w)
       PROVE  Kept
  BY <1>17 DEF CreateReserved, NeedsNumber, Request, Requests, Vouchers, rows, session
<1>18. ASSUME NEW w \in Workers, CorrelativeConflict(w)
       PROVE  Kept
  BY <1>18 DEF CorrelativeConflict, Reject, CommitAndReturn, Raised, Return, Unlocked, arca
<1>19. ASSUME NEW w \in Workers, CreateSucceeds(w)
       PROVE  Kept
  BY <1>19 DEF CreateSucceeds, Authorised, Approve, Owner, CommitAndReturn, Raised, Return, Unlocked, arca
<1>20. ASSUME NEW w \in Workers, CreateRefused(w)
       PROVE  Kept
  BY <1>20 DEF CreateRefused, Authorised, Reject, CommitAndReturn, Raised, Return, Unlocked, arca
<1>21. ASSUME NEW w \in Workers, NEW retryable \in BOOLEAN, CreateFails(w, retryable)
       PROVE  Kept
  BY <1>21 DEF CreateFails, HandleError, RetryLater, Reject, CommitAndReturn, Raised, Return, Unlocked, arca
<1>22. ASSUME NEW w \in Workers, ResponseRaisedInTry(w)
       PROVE  Kept
  BY <1>22 DEF ResponseRaisedInTry, HandleError, RetryLater, CommitAndReturn, Raised, Return, Unlocked, arca
<1>23. ASSUME NEW w \in Workers, Crash(w)
       PROVE  Kept
  BY <1>23 DEF Crash, Return, Unlocked, rows, arca
<1>24. ASSUME NEW w \in Workers, NEW i \in Invoices, Quarantine(w, i)
       PROVE  Kept
  BY <1>24 DEF Quarantine, Claimable, Return, Unlocked, arca
<1>25. ASSUME NEW m \in requests, ArcaAuthorises(m)
       PROVE  Kept
  BY <1>25 DEF ArcaAuthorises, Answered, Waits, Requests, Vouchers, rows, session
<1>26. ASSUME NEW m \in requests, ArcaRefuses(m)
       PROVE  Kept
  BY <1>26 DEF ArcaRefuses, Answered, Waits, Requests, Vouchers, rows, session
<1>27. ASSUME NEW m \in requests, RequestIsLost(m)
       PROVE  Kept
  BY <1>27 DEF RequestIsLost, Requests, rows, workers, session, arca
<1>28. ASSUME ForeignVoucher
       PROVE  Kept
  BY <1>28 DEF ForeignVoucher, rows, workers, session, arca
<1>29. ASSUME UNCHANGED vars
       PROVE  Kept
  BY <1>29 DEF vars, rows, arca, session, workers
<1> HIDE DEF Kept
<1>30. Kept
  BY <1>1, <1>2, <1>3, <1>4, <1>5, <1>6, <1>7, <1>8, <1>9, <1>10, <1>11,
     <1>12, <1>13, <1>14, <1>15, <1>16, <1>17, <1>18, <1>19, <1>20, <1>21,
     <1>22, <1>23, <1>24, <1>25, <1>26, <1>27, <1>28, <1>29
  DEF Next, Api, Claims, Proceeds, Settles
<1> QED
  BY <1>0, <1>30 DEF Kept

(* A started row keeps its number through every retry. *)
THEOREM NumbersFinal == ASSUME "slow_worker" \notin Faults PROVE Spec => NumberIsFinal
<1>1. ClaimInv /\ [Next]_vars =>
        [\A i \in Invoices : attempts[i] > 0 /\ number[i] # 0 => number'[i] = number[i]]_vars
  BY FinalNumbers
<1> QED
  BY ClaimInvariant, <1>1, PTL DEF Spec, NumberIsFinal

(* No step writes the number or the CAE of a terminal row, and its status  *)
(* only for the worker whose response failed after the row ended.          *)
LEMMA FinalRows ==
  ASSUME ClaimInv, [Next]_vars
  PROVE  \A i \in Invoices : status[i] \in TerminalStatuses =>
           /\ number'[i] = number[i] /\ cae'[i] = cae[i]
           /\ status'[i] # status[i] => \E w \in Workers : job[w] = i /\ pc[w] \in Raised
<1> DEFINE Kept == \A i \in Invoices : status[i] \in TerminalStatuses =>
             /\ number'[i] = number[i] /\ cae'[i] = cae[i]
             /\ status'[i] # status[i] => \E w \in Workers : job[w] = i /\ pc[w] \in Raised
<1>0. ClaimInv
  OBVIOUS
<1> USE ConstantsAssumption DEF TerminalStatuses, ActiveStatuses
<1> USE DEF ClaimInv, TypeOK, SessionsOpen, SessionsFresh
<1>1. ASSUME NEW i \in Invoices, NEW n \in ExplicitNumbers \cup {0}, NEW missing \in BOOLEAN, Enqueue(i, n, missing)
       PROVE  Kept
  BY <1>1 DEF Enqueue, workers, session, arca
<1>2. ASSUME NEW i \in Invoices, NEW n \in ExplicitNumbers, ResumeReceiverIdentification(i, n)
       PROVE  Kept
  BY <1>2 DEF ResumeReceiverIdentification, workers, session, arca
<1>3. ASSUME NEW ok \in BOOLEAN, ValidateProfile(ok)
       PROVE  Kept
  BY <1>3 DEF ValidateProfile, rows, workers, session, arca
<1>4. ASSUME NEW i \in Invoices, TimePasses(i)
       PROVE  Kept
  BY <1>4 DEF TimePasses, Held, workers, session, arca
<1>5. ASSUME NEW w \in Workers, NEW i \in Invoices, Claim(w, i)
       PROVE  Kept
  BY <1>5 DEF Claim, Claimable, Lease, arca
<1>6. ASSUME NEW w \in Workers, NEW i \in Invoices, ClaimWithInvalidProfile(w, i)
       PROVE  Kept
  BY <1>6 DEF ClaimWithInvalidProfile, Claimable, Raised, workers, session, arca
<1>7. ASSUME NEW w \in Workers, Connect(w)
       PROVE  Kept
  BY <1>7 DEF Connect, rows, arca, session
<1>8. ASSUME NEW w \in Workers, NEW retryable \in BOOLEAN, ConnectOrLookupFails(w, retryable)
       PROVE  Kept
  BY <1>8 DEF ConnectOrLookupFails, HandleError, RetryLater, Reject, CommitAndReturn, Raised, Return, Unlocked, arca
<1>9. ASSUME NEW w \in Workers, LookupFinds(w)
       PROVE  Kept
  BY <1>9 DEF LookupFinds, Approve, Owner, CommitAndReturn, Raised, Return, Unlocked, arca
<1>10. ASSUME NEW w \in Workers, LookupFindsNothing(w)
       PROVE  Kept
  BY <1>10 DEF LookupFindsNothing, rows, arca, session
<1>11. ASSUME NEW w \in Workers, LookupFindsNoCae(w)
       PROVE  Kept
  BY <1>11 DEF LookupFindsNoCae, Reject, CommitAndReturn, Raised, Return, Unlocked, arca
<1>12. ASSUME NEW w \in Workers, GetLastVoucher(w)
       PROVE  Kept
  BY <1>12 DEF GetLastVoucher, rows, arca, session
<1>13. ASSUME NEW w \in Workers, NEW retryable \in BOOLEAN, GetLastVoucherFails(w, retryable)
       PROVE  Kept
  BY <1>13 DEF GetLastVoucherFails, HandleError, RetryLater, Reject, CommitAndReturn, Raised, Return, Unlocked, arca
<1>14. ASSUME NEW w \in Workers, SequenceBusy(w)
       PROVE  Kept
  BY <1>14 DEF SequenceBusy, RetryLater, CommitAndReturn, Raised, Return, Unlocked, arca
<1>15. ASSUME NEW w \in Workers, ReservationCollides(w)
       PROVE  Kept
  BY <1>15 DEF ReservationCollides, RetryLater, CommitAndReturn, Raised, Return, Unlocked, arca
<1>16. ASSUME NEW w \in Workers, ReserveAndCreate(w)
       PROVE  Kept
  BY <1>16 DEF ReserveAndCreate, FirstRequest, Request, Reserved, Unlocked, NeedsNumber, Requests, Vouchers, Raised
<1>17. ASSUME NEW w \in Workers, CreateReserved(w)
       PROVE  Kept
  BY <1>17 DEF CreateReserved, NeedsNumber, Request, Requests, Vouchers, rows, session
<1>18. ASSUME NEW w \in Workers, CorrelativeConflict(w)
       PROVE  Kept
  BY <1>18 DEF CorrelativeConflict, Reject, CommitAndReturn, Raised, Return, Unlocked, arca
<1>19. ASSUME NEW w \in Workers, CreateSucceeds(w)
       PROVE  Kept
  BY <1>19 DEF CreateSucceeds, Authorised, Approve, Owner, CommitAndReturn, Raised, Return, Unlocked, arca
<1>20. ASSUME NEW w \in Workers, CreateRefused(w)
       PROVE  Kept
  BY <1>20 DEF CreateRefused, Authorised, Reject, CommitAndReturn, Raised, Return, Unlocked, arca
<1>21. ASSUME NEW w \in Workers, NEW retryable \in BOOLEAN, CreateFails(w, retryable)
       PROVE  Kept
  BY <1>21 DEF CreateFails, HandleError, RetryLater, Reject, CommitAndReturn, Raised, Return, Unlocked, arca
<1>22. ASSUME NEW w \in Workers, ResponseRaisedInTry(w)
       PROVE  Kept
  BY <1>22 DEF ResponseRaisedInTry, HandleError, RetryLater, CommitAndReturn, Raised, Return, Unlocked, arca
<1>23. ASSUME NEW w \in Workers, Crash(w)
       PROVE  Kept
  BY <1>23 DEF Crash, Return, Unlocked, rows, arca
<1>24. ASSUME NEW w \in Workers, NEW i \in Invoices, Quarantine(w, i)
       PROVE  Kept
  BY <1>24 DEF Quarantine, Claimable, Return, Unlocked, arca
<1>25. ASSUME NEW m \in requests, ArcaAuthorises(m)
       PROVE  Kept
  BY <1>25 DEF ArcaAuthorises, Answered, Waits, Requests, Vouchers, rows, session
<1>26. ASSUME NEW m \in requests, ArcaRefuses(m)
       PROVE  Kept
  BY <1>26 DEF ArcaRefuses, Answered, Waits, Requests, Vouchers, rows, session
<1>27. ASSUME NEW m \in requests, RequestIsLost(m)
       PROVE  Kept
  BY <1>27 DEF RequestIsLost, Requests, rows, workers, session, arca
<1>28. ASSUME ForeignVoucher
       PROVE  Kept
  BY <1>28 DEF ForeignVoucher, rows, workers, session, arca
<1>29. ASSUME UNCHANGED vars
       PROVE  Kept
  BY <1>29 DEF vars, rows, arca, session, workers
<1> HIDE DEF Kept
<1>30. Kept
  BY <1>1, <1>2, <1>3, <1>4, <1>5, <1>6, <1>7, <1>8, <1>9, <1>10, <1>11,
     <1>12, <1>13, <1>14, <1>15, <1>16, <1>17, <1>18, <1>19, <1>20, <1>21,
     <1>22, <1>23, <1>24, <1>25, <1>26, <1>27, <1>28, <1>29
  DEF Next, Api, Claims, Proceeds, Settles
<1> QED
  BY <1>0, <1>30 DEF Kept

(* What was reported as final is rewritten by nobody but the worker that   *)
(* reported it, and only when its response failed: no second worker, no    *)
(* late answer and no retry reaches a row that has ended.                  *)
THEOREM TerminalsFinal == ASSUME "slow_worker" \notin Faults PROVE Spec => EndsByItsWorkerOnly
<1>1. ClaimInv /\ [Next]_vars =>
        [\A i \in Invoices : status[i] \in TerminalStatuses =>
           /\ number'[i] = number[i] /\ cae'[i] = cae[i]
           /\ status'[i] # status[i] => \E w \in Workers : job[w] = i /\ pc[w] \in Raised]_vars
  BY FinalRows
<1> QED
  BY ClaimInvariant, <1>1, PTL DEF Spec, EndsByItsWorkerOnly

(* No step lets a row have more attempts than the limit and the deaths. *)
LEMMA AttemptsNext ==
  ASSUME "slow_worker" \notin Faults, ClaimInv, AttemptsBounded, AttemptsLeft, [Next]_vars
  PROVE  AttemptsBounded' /\ AttemptsLeft'
<1>0. ClaimInv
  OBVIOUS
<1> USE ConstantsAssumption DEF ActiveStatuses, AttemptsBounded, AttemptsLeft, Held, MayRetry
<1> USE DEF ClaimInv, TypeOK, SessionsOpen, SessionsFresh, ExclusiveClaim, UntouchedRows
<1>1. ASSUME NEW i \in Invoices, NEW n \in ExplicitNumbers \cup {0}, NEW missing \in BOOLEAN, Enqueue(i, n, missing)
       PROVE  AttemptsBounded' /\ AttemptsLeft'
  BY <1>1 DEF Enqueue, workers, session, arca
<1>2. ASSUME NEW i \in Invoices, NEW n \in ExplicitNumbers, ResumeReceiverIdentification(i, n)
       PROVE  AttemptsBounded' /\ AttemptsLeft'
  BY <1>2 DEF ResumeReceiverIdentification, workers, session, arca
<1>3. ASSUME NEW ok \in BOOLEAN, ValidateProfile(ok)
       PROVE  AttemptsBounded' /\ AttemptsLeft'
  BY <1>3 DEF ValidateProfile, rows, workers, session, arca
<1>4. ASSUME NEW i \in Invoices, TimePasses(i)
       PROVE  AttemptsBounded' /\ AttemptsLeft'
  BY <1>4 DEF TimePasses, Held, workers, session, arca
<1>5. ASSUME NEW w \in Workers, NEW i \in Invoices, Claim(w, i)
       PROVE  AttemptsBounded' /\ AttemptsLeft'
  BY <1>5 DEF Claim, Claimable, Lease, arca
<1>6. ASSUME NEW w \in Workers, NEW i \in Invoices, ClaimWithInvalidProfile(w, i)
       PROVE  AttemptsBounded' /\ AttemptsLeft'
  BY <1>6 DEF ClaimWithInvalidProfile, Claimable, Raised, workers, session, arca
<1>7. ASSUME NEW w \in Workers, Connect(w)
       PROVE  AttemptsBounded' /\ AttemptsLeft'
  BY <1>7 DEF Connect, rows, arca, session
<1>8. ASSUME NEW w \in Workers, NEW retryable \in BOOLEAN, ConnectOrLookupFails(w, retryable)
       PROVE  AttemptsBounded' /\ AttemptsLeft'
  BY <1>8 DEF ConnectOrLookupFails, HandleError, RetryLater, Reject, CommitAndReturn, Raised, Return, Unlocked, arca
<1>9. ASSUME NEW w \in Workers, LookupFinds(w)
       PROVE  AttemptsBounded' /\ AttemptsLeft'
  BY <1>9 DEF LookupFinds, Approve, Owner, CommitAndReturn, Raised, Return, Unlocked, arca
<1>10. ASSUME NEW w \in Workers, LookupFindsNothing(w)
       PROVE  AttemptsBounded' /\ AttemptsLeft'
  BY <1>10 DEF LookupFindsNothing, rows, arca, session
<1>11. ASSUME NEW w \in Workers, LookupFindsNoCae(w)
       PROVE  AttemptsBounded' /\ AttemptsLeft'
  BY <1>11 DEF LookupFindsNoCae, Reject, CommitAndReturn, Raised, Return, Unlocked, arca
<1>12. ASSUME NEW w \in Workers, GetLastVoucher(w)
       PROVE  AttemptsBounded' /\ AttemptsLeft'
  BY <1>12 DEF GetLastVoucher, rows, arca, session
<1>13. ASSUME NEW w \in Workers, NEW retryable \in BOOLEAN, GetLastVoucherFails(w, retryable)
       PROVE  AttemptsBounded' /\ AttemptsLeft'
  BY <1>13 DEF GetLastVoucherFails, HandleError, RetryLater, Reject, CommitAndReturn, Raised, Return, Unlocked, arca
<1>14. ASSUME NEW w \in Workers, SequenceBusy(w)
       PROVE  AttemptsBounded' /\ AttemptsLeft'
  BY <1>14 DEF SequenceBusy, RetryLater, CommitAndReturn, Raised, Return, Unlocked, arca
<1>15. ASSUME NEW w \in Workers, ReservationCollides(w)
       PROVE  AttemptsBounded' /\ AttemptsLeft'
  BY <1>15 DEF ReservationCollides, RetryLater, CommitAndReturn, Raised, Return, Unlocked, arca
<1>16. ASSUME NEW w \in Workers, ReserveAndCreate(w)
       PROVE  AttemptsBounded' /\ AttemptsLeft'
  BY <1>16 DEF ReserveAndCreate, FirstRequest, Request, Reserved, Unlocked, NeedsNumber, Requests, Vouchers
<1>17. ASSUME NEW w \in Workers, CreateReserved(w)
       PROVE  AttemptsBounded' /\ AttemptsLeft'
  BY <1>17 DEF CreateReserved, NeedsNumber, Request, Requests, Vouchers, rows, session
<1>18. ASSUME NEW w \in Workers, CorrelativeConflict(w)
       PROVE  AttemptsBounded' /\ AttemptsLeft'
  BY <1>18 DEF CorrelativeConflict, Reject, CommitAndReturn, Raised, Return, Unlocked, arca
<1>19. ASSUME NEW w \in Workers, CreateSucceeds(w)
       PROVE  AttemptsBounded' /\ AttemptsLeft'
  BY <1>19 DEF CreateSucceeds, Authorised, Approve, Owner, CommitAndReturn, Raised, Return, Unlocked, arca
<1>20. ASSUME NEW w \in Workers, CreateRefused(w)
       PROVE  AttemptsBounded' /\ AttemptsLeft'
  BY <1>20 DEF CreateRefused, Authorised, Reject, CommitAndReturn, Raised, Return, Unlocked, arca
<1>21. ASSUME NEW w \in Workers, NEW retryable \in BOOLEAN, CreateFails(w, retryable)
       PROVE  AttemptsBounded' /\ AttemptsLeft'
  BY <1>21 DEF CreateFails, HandleError, RetryLater, Reject, CommitAndReturn, Raised, Return, Unlocked, arca
<1>22. ASSUME NEW w \in Workers, ResponseRaisedInTry(w)
       PROVE  AttemptsBounded' /\ AttemptsLeft'
  BY <1>22 DEF ResponseRaisedInTry, HandleError, RetryLater, CommitAndReturn, Raised, Return, Unlocked, arca
<1>23. ASSUME NEW w \in Workers, Crash(w)
       PROVE  AttemptsBounded' /\ AttemptsLeft'
  BY <1>23 DEF Crash, Return, Unlocked, rows, arca
<1>24. ASSUME NEW w \in Workers, NEW i \in Invoices, Quarantine(w, i)
       PROVE  AttemptsBounded' /\ AttemptsLeft'
  BY <1>24 DEF Quarantine, Claimable, Return, Unlocked, arca
<1>25. ASSUME NEW m \in requests, ArcaAuthorises(m)
       PROVE  AttemptsBounded' /\ AttemptsLeft'
  BY <1>25 DEF ArcaAuthorises, Answered, Waits, Requests, Vouchers, rows, session
<1>26. ASSUME NEW m \in requests, ArcaRefuses(m)
       PROVE  AttemptsBounded' /\ AttemptsLeft'
  BY <1>26 DEF ArcaRefuses, Answered, Waits, Requests, Vouchers, rows, session
<1>27. ASSUME NEW m \in requests, RequestIsLost(m)
       PROVE  AttemptsBounded' /\ AttemptsLeft'
  BY <1>27 DEF RequestIsLost, Requests, rows, workers, session, arca
<1>28. ASSUME ForeignVoucher
       PROVE  AttemptsBounded' /\ AttemptsLeft'
  BY <1>28 DEF ForeignVoucher, rows, workers, session, arca
<1>29. ASSUME UNCHANGED vars
       PROVE  AttemptsBounded' /\ AttemptsLeft'
  BY <1>29 DEF vars, rows, arca, session, workers
<1> HIDE DEF ActiveStatuses, AttemptsBounded, AttemptsLeft, Held, MayRetry
<1> HIDE DEF ClaimInv, TypeOK, SessionsOpen, SessionsFresh, ExclusiveClaim, UntouchedRows
<1>30. AttemptsBounded' /\ AttemptsLeft'
  BY <1>1, <1>2, <1>3, <1>4, <1>5, <1>6, <1>7, <1>8, <1>9, <1>10, <1>11,
     <1>12, <1>13, <1>14, <1>15, <1>16, <1>17, <1>18, <1>19, <1>20, <1>21,
     <1>22, <1>23, <1>24, <1>25, <1>26, <1>27, <1>28, <1>29
  DEF Next, Api, Claims, Proceeds, Settles
<1> QED
  BY <1>0, <1>30

(* Only worker deaths take a row past MAX_ATTEMPTS attempts. *)
THEOREM AttemptLimit == ASSUME "slow_worker" \notin Faults PROVE Spec => []AttemptsBounded
<1>1. Init => AttemptsBounded /\ AttemptsLeft
  BY ConstantsAssumption DEF Init, AttemptsBounded, AttemptsLeft
<1>2. ClaimInv /\ AttemptsBounded /\ AttemptsLeft /\ [Next]_vars
        => (AttemptsBounded /\ AttemptsLeft)'
  BY AttemptsNext
<1> QED
  BY ClaimInvariant, <1>1, <1>2, PTL DEF Spec

-----------------------------------------------------------------------------
(* Status and next_retry_at are written together, and every end of         *)
(* process() gives the lock back.                                          *)
LEMMA ScheduleNext ==
  ASSUME ClaimInv, RowsScheduled, LockAtWork, CrashesCounted, [Next]_vars
  PROVE  RowsScheduled' /\ LockAtWork' /\ CrashesCounted'
<1> DEFINE Done == RowsScheduled' /\ LockAtWork' /\ CrashesCounted'
<1> USE ConstantsAssumption DEF RowsScheduled, LockAtWork, CrashesCounted, ActiveStatuses
<1>0. TypeOK /\ SessionsOpen
  BY DEF ClaimInv
<1> USE DEF TypeOK, SessionsOpen
<1>1. ASSUME NEW i \in Invoices, NEW n \in Nat, NEW missing \in BOOLEAN,
             Enqueue(i, n, missing) \/ ResumeReceiverIdentification(i, n)
      PROVE  Done
  BY <1>0, <1>1 DEF Enqueue, ResumeReceiverIdentification, workers
<1>2. ASSUME NEW ok \in BOOLEAN, ValidateProfile(ok) PROVE Done
  BY <1>2 DEF ValidateProfile, rows, workers
<1>3. ASSUME NEW i \in Invoices, TimePasses(i) PROVE Done
  BY <1>0, <1>3 DEF TimePasses, workers
<1>4. ASSUME NEW w \in Workers, NEW i \in Invoices, Claim(w, i) PROVE Done
  BY <1>0, <1>4 DEF Claim, Lease
<1>5. ASSUME NEW w \in Workers, NEW i \in Invoices, ClaimWithInvalidProfile(w, i) PROVE Done
  BY <1>0, <1>5 DEF ClaimWithInvalidProfile, workers, session
<1>6. ASSUME NEW w \in Workers, job[w] # None, UNCHANGED crashes,
             NEW a \in Nat, NEW raised \in Raised, CommitAndReturn(w, a, raised),
             NEW s \in Statuses, NEW d \in Dues, s \in ActiveStatuses <=> d # "null",
             status' = [status EXCEPT ![job[w]] = s], due' = [due EXCEPT ![job[w]] = d]
      PROVE  Done
  <2>1. RowsScheduled'
    BY <1>0, <1>6
  <2>2. LockAtWork'
    BY <1>0, <1>6 DEF CommitAndReturn, Return, Unlocked
  <2> QED
    BY <1>6, <2>1, <2>2
<1>7. ASSUME NEW w \in Workers, pc[w] # "idle", NEW a \in Nat, NEW raised \in Raised,
             RetryLater(w, a, raised), UNCHANGED crashes
      PROVE  Done
  <2>1. CASE MayRetry(a)
    BY <1>0, <1>6, <1>7, <2>1 DEF RetryLater, Statuses, Dues
  <2>2. CASE ~MayRetry(a)
    BY <1>0, <1>6, <1>7, <2>2 DEF RetryLater, Statuses, Dues
  <2> QED
    BY <2>1, <2>2
<1>8. ASSUME NEW w \in Workers, pc[w] # "idle", NEW raised \in Raised,
             Reject(w, raised), UNCHANGED crashes
      PROVE  Done
  BY <1>0, <1>6, <1>8 DEF Reject, Statuses, Dues
<1>9. ASSUME NEW w \in Workers, NEW retryable \in BOOLEAN,
             \/ ConnectOrLookupFails(w, retryable)
             \/ GetLastVoucherFails(w, retryable)
             \/ CreateFails(w, retryable)
             \/ ResponseRaisedInTry(w) /\ retryable
      PROVE  Done
  <2>1. pc[w] # "idle" /\ HandleError(w, retryable) /\ UNCHANGED crashes /\ sAttempts[w] \in Nat
    BY <1>0, <1>9 DEF ConnectOrLookupFails, GetLastVoucherFails, CreateFails, ResponseRaisedInTry
  <2> QED
    BY <1>7, <1>8, <2>1 DEF HandleError, Raised
<1>10. ASSUME NEW w \in Workers, LookupFinds(w) \/ CreateSucceeds(w) PROVE Done
  <2>1. PICK c \in Caes, raised \in Raised :
          pc[w] # "idle" /\ Approve(w, c, raised) /\ UNCHANGED crashes
    BY <1>10 DEF LookupFinds, CreateSucceeds, Owner, Caes, Raised
  <2> QED
    BY <1>0, <1>6, <2>1 DEF Approve, Statuses, Dues
<1>11. ASSUME NEW w \in Workers,
              LookupFindsNoCae(w) \/ CorrelativeConflict(w) \/ CreateRefused(w)
       PROVE  Done
  <2>1. PICK raised \in Raised : pc[w] # "idle" /\ Reject(w, raised) /\ UNCHANGED crashes
    BY <1>11 DEF LookupFindsNoCae, CorrelativeConflict, CreateRefused, Raised
  <2> QED
    BY <1>8, <2>1
<1>12. ASSUME NEW w \in Workers, SequenceBusy(w) \/ ReservationCollides(w) PROVE Done
  <2>1. PICK a \in Nat :
          pc[w] # "idle" /\ RetryLater(w, a, "raised_in_try") /\ UNCHANGED crashes
    BY <1>0, <1>12 DEF SequenceBusy, ReservationCollides
  <2> QED
    BY <1>7, <2>1 DEF Raised
<1>13. ASSUME NEW w \in Workers,
              \/ Connect(w) \/ LookupFindsNothing(w) \/ GetLastVoucher(w)
              \/ ReserveAndCreate(w) \/ CreateReserved(w)
       PROVE  Done
  BY <1>0, <1>13 DEF Connect, LookupFindsNothing, GetLastVoucher, ReserveAndCreate,
                     CreateReserved, Unlocked, rows
<1>14. ASSUME NEW w \in Workers, Crash(w) PROVE Done
  BY <1>0, <1>14 DEF Crash, Return, Unlocked, rows
<1>15. ASSUME NEW w \in Workers, NEW i \in Invoices, Quarantine(w, i) PROVE Done
  BY <1>0, <1>15 DEF Quarantine, Return, Unlocked
<1>16. ASSUME \/ ForeignVoucher \/ \E m \in requests : Settles(m) PROVE Done
  BY <1>16 DEF ForeignVoucher, Settles, ArcaAuthorises, ArcaRefuses, RequestIsLost, rows, workers
<1>17. ASSUME UNCHANGED vars PROVE Done
  BY <1>17 DEF vars, rows, workers
<1> HIDE DEF Done
<1>18. ASSUME Api PROVE Done
  BY <1>1, <1>2, <1>18 DEF Api
<1>19. ASSUME NEW w \in Workers, Proceeds(w) \/ Crash(w) PROVE Done
  BY <1>9, <1>10, <1>11, <1>12, <1>13, <1>14, <1>19 DEF Proceeds
<1>20. ASSUME NEW i \in Invoices, TimePasses(i) \/ Claims(i) PROVE Done
  BY <1>3, <1>4, <1>5, <1>20 DEF Claims
<1>21. Done
  BY <1>15, <1>16, <1>17, <1>18, <1>19, <1>20 DEF Next
<1> QED
  BY <1>21 DEF Done

(* No row that somebody waits for is forgotten, in spite of deaths, lost    *)
(* answers and failures: the worker's query will see it again, its attempts *)
(* are not used up, and a worker that has to wait for the sequence waits    *)
(* for one that is at work.                                                 *)
THEOREM NobodyIsForgotten == ASSUME "slow_worker" \notin Faults PROVE Spec => []NothingIsStuck
<1> DEFINE Inv == /\ ClaimInv /\ AttemptsBounded /\ AttemptsLeft
                  /\ RowsScheduled /\ LockAtWork /\ CrashesCounted
<1>1. Init => Inv
  BY ClaimInit, ConstantsAssumption
  DEF Init, AttemptsBounded, AttemptsLeft, RowsScheduled, LockAtWork, CrashesCounted, ActiveStatuses
<1>2. Inv /\ [Next]_vars => Inv'
  BY ClaimNext, AttemptsNext, ScheduleNext
<1>3. Inv => NothingIsStuck
  <2> SUFFICES ASSUME Inv, NEW i \in Invoices, status[i] \in ActiveStatuses,
                      ~Held(i), due[i] # "scheduled"
               PROVE  Claimable(i) /\ attempts[i] < ClaimBound
    BY DEF NothingIsStuck
  <2>1. due[i] = "due"
    BY DEF ClaimInv, TypeOK, Dues, RowsScheduled
  <2>2. attempts[i] < MaxAttempts + crashes
    BY DEF AttemptsLeft, ActiveStatuses
  <2>3. attempts[i] \in Nat /\ crashes \in Nat /\ crashes <= MaxCrashes
    BY DEF ClaimInv, TypeOK, CrashesCounted
  <2> QED
    BY <2>1, <2>2, <2>3, ConstantsAssumption DEF Claimable, ClaimBound
<1> QED
  BY <1>1, <1>2, <1>3, PTL DEF Spec

-----------------------------------------------------------------------------
(* What changes the numbers of the rows, *)
LEMMA NumberWriters ==
  ASSUME [Next]_vars
  PROVE  \/ number' = number
         \/ \E i \in Invoices, n \in ExplicitNumbers \cup {0}, missing \in BOOLEAN :
              Enqueue(i, n, missing)
         \/ \E i \in Invoices, n \in ExplicitNumbers : ResumeReceiverIdentification(i, n)
         \/ \E w \in Workers : ReserveAndCreate(w)
<1>1. ASSUME NEW ok \in BOOLEAN, ValidateProfile(ok) PROVE number' = number
  BY <1>1 DEF ValidateProfile, rows
<1>2. ASSUME NEW i \in Invoices, TimePasses(i) \/ Claims(i) PROVE number' = number
  BY <1>2 DEF TimePasses, Claims, Claim, ClaimWithInvalidProfile
<1>3. ASSUME NEW w \in Workers, Proceeds(w), ~ReserveAndCreate(w) PROVE number' = number
  <2>1. ASSUME NEW retryable \in BOOLEAN,
               \/ ConnectOrLookupFails(w, retryable)
               \/ GetLastVoucherFails(w, retryable)
               \/ CreateFails(w, retryable)
               \/ ResponseRaisedInTry(w)
        PROVE  number' = number
    BY <2>1 DEF ConnectOrLookupFails, GetLastVoucherFails, CreateFails, ResponseRaisedInTry
  <2>2. ASSUME \/ LookupFinds(w) \/ LookupFindsNoCae(w) \/ SequenceBusy(w)
               \/ ReservationCollides(w) \/ CorrelativeConflict(w)
               \/ CreateSucceeds(w) \/ CreateRefused(w)
        PROVE  number' = number
    BY <2>2 DEF LookupFinds, LookupFindsNoCae, SequenceBusy, ReservationCollides,
                CorrelativeConflict, CreateSucceeds, CreateRefused
  <2>3. ASSUME \/ Connect(w) \/ LookupFindsNothing(w) \/ GetLastVoucher(w)
               \/ CreateReserved(w)
        PROVE  number' = number
    BY <2>3 DEF Connect, LookupFindsNothing, GetLastVoucher, CreateReserved, rows
  <2> QED
    BY <1>3, <2>1, <2>2, <2>3 DEF Proceeds
<1>4. ASSUME NEW w \in Workers, \/ Crash(w) \/ \E i \in Invoices : Quarantine(w, i)
      PROVE  number' = number
  BY <1>4 DEF Crash, Quarantine, rows
<1>5. ASSUME \/ ForeignVoucher \/ \E m \in requests : Settles(m) PROVE number' = number
  BY <1>5 DEF ForeignVoucher, Settles, ArcaAuthorises, ArcaRefuses, RequestIsLost, rows
<1>6. CASE UNCHANGED vars
  BY <1>6 DEF vars, rows
<1> QED
  BY <1>1, <1>2, <1>3, <1>4, <1>5, <1>6 DEF Next, Api

(* and what changes the sequence at ARCA. *)
LEMMA SequenceWriters ==
  ASSUME [Next]_vars
  PROVE  \/ last' = last /\ issued' = issued
         \/ \E m \in requests : ArcaAuthorises(m)
         \/ ForeignVoucher
<1> DEFINE Kept == last' = last /\ issued' = issued
<1>1. ASSUME Api PROVE Kept
  BY <1>1 DEF Api, Enqueue, ResumeReceiverIdentification, ValidateProfile, arca
<1>2. ASSUME NEW i \in Invoices, TimePasses(i) \/ Claims(i) PROVE Kept
  BY <1>2 DEF TimePasses, Claims, Claim, ClaimWithInvalidProfile, arca
<1>3. ASSUME NEW w \in Workers, Proceeds(w) PROVE Kept
  <2>1. ASSUME NEW retryable \in BOOLEAN,
               \/ ConnectOrLookupFails(w, retryable)
               \/ GetLastVoucherFails(w, retryable)
               \/ CreateFails(w, retryable)
               \/ ResponseRaisedInTry(w)
        PROVE  Kept
    BY <2>1 DEF ConnectOrLookupFails, GetLastVoucherFails, CreateFails, ResponseRaisedInTry, arca
  <2>2. ASSUME \/ Connect(w) \/ LookupFinds(w) \/ LookupFindsNothing(w)
               \/ LookupFindsNoCae(w) \/ GetLastVoucher(w) \/ SequenceBusy(w)
               \/ ReservationCollides(w) \/ CorrelativeConflict(w)
               \/ CreateSucceeds(w) \/ CreateRefused(w)
        PROVE  Kept
    BY <2>2 DEF Connect, LookupFinds, LookupFindsNothing, LookupFindsNoCae, GetLastVoucher,
                SequenceBusy, ReservationCollides, CorrelativeConflict, CreateSucceeds,
                CreateRefused, arca
  <2>3. ASSUME ReserveAndCreate(w) \/ CreateReserved(w) PROVE Kept
    BY <2>3 DEF ReserveAndCreate, CreateReserved
  <2> QED
    BY <1>3, <2>1, <2>2, <2>3 DEF Proceeds
<1>4. ASSUME NEW w \in Workers, \/ Crash(w) \/ \E i \in Invoices : Quarantine(w, i)
      PROVE  Kept
  BY <1>4 DEF Crash, Quarantine, arca
<1>5. ASSUME NEW m \in requests, ArcaRefuses(m) \/ RequestIsLost(m) PROVE Kept
  BY <1>5 DEF ArcaRefuses, RequestIsLost
<1>6. CASE UNCHANGED vars
  BY <1>6 DEF vars, arca
<1> QED
  BY <1>1, <1>2, <1>3, <1>4, <1>5, <1>6 DEF Next, Settles

(* The unique constraint is kept by the API and by the reservation. *)
LEMMA UniqueNumbersNext ==
  ASSUME ClaimInv, UniqueNumbers, [Next]_vars
  PROVE  UniqueNumbers'
<1> USE DEF UniqueNumbers, Taken, FreeFor
<1>1. CASE number' = number
  BY <1>1
<1>2. ASSUME NEW i \in Invoices, NEW n \in ExplicitNumbers \cup {0},
             NEW missing \in BOOLEAN, Enqueue(i, n, missing)
      PROVE  UniqueNumbers'
  BY <1>2 DEF Enqueue, ClaimInv, TypeOK
<1>3. ASSUME NEW i \in Invoices, NEW n \in ExplicitNumbers,
             ResumeReceiverIdentification(i, n)
      PROVE  UniqueNumbers'
  BY <1>3 DEF ResumeReceiverIdentification, ClaimInv, TypeOK
<1>4. ASSUME NEW w \in Workers, ReserveAndCreate(w)
      PROVE  UniqueNumbers'
  BY <1>4 DEF ReserveAndCreate, FirstRequest, Request, Reserved, ClaimInv, TypeOK
<1> QED
  BY NumberWriters, <1>1, <1>2, <1>3, <1>4

(* ARCA authorises consecutive numbers, each for one of the invoices. *)
LEMMA IssuedUpToLastNext ==
  ASSUME MaxForeign = 0, TypeOK, IssuedUpToLast, [Next]_vars
  PROVE  IssuedUpToLast'
<1>1. CASE last' = last /\ issued' = issued
  BY <1>1 DEF IssuedUpToLast
<1>2. ASSUME NEW m \in requests, ArcaAuthorises(m)
      PROVE  IssuedUpToLast'
  <2> DEFINE v == [num |-> m.num, inv |-> m.inv]
  <2>1. m.num = last + 1 /\ last' = last + 1 /\ issued' = issued \cup {v} /\ v.num = last + 1
    BY <1>2 DEF ArcaAuthorises
  <2>2. last \in Nat /\ issued \subseteq Vouchers
    BY DEF TypeOK
  <2>3. \A u \in issued' : u.num <= last'
    <3>1. \A u \in issued : u.num \in Nat /\ u.num <= last
      BY <2>2 DEF IssuedUpToLast, Vouchers
    <3> HIDE DEF v
    <3> QED
      BY <2>1, <2>2, <3>1
  <2>4. ASSUME NEW n \in 1 .. last' PROVE \E u \in issued' : u.num = n
    <3> HIDE DEF v
    <3>1. CASE n \in 1 .. last
      BY <3>1, <2>1 DEF IssuedUpToLast
    <3>2. CASE n = last + 1
      BY <3>2, <2>1
    <3> QED
      BY <3>1, <3>2, <2>1, <2>2
  <2> QED
    BY <2>3, <2>4 DEF IssuedUpToLast
<1>3. ~ForeignVoucher
  BY DEF ForeignVoucher, TypeOK
<1> QED
  BY SequenceWriters, <1>1, <1>2, <1>3

(* On an empty sequence every voucher is of one of the invoices. *)
LEMMA OwnVoucherInit == ASSUME InitialLast = 0, Init PROVE OwnVoucherInv
BY ClaimInit, ConstantsAssumption
DEF Init, OwnVoucherInv, QueriesItsNumber, IssuedUpToLast, UniqueNumbers, AnswersOwn,
    ApprovedWithOwnVoucher

(* The number a query finds authorised was issued to the row that has it. *)
LEMMA OwnerIsOwn ==
  ASSUME OwnVoucherInv, NEW w \in Workers, pc[w] = "lookup", sNumber[w] <= last
  PROVE  [num |-> sNumber[w], inv |-> job[w]] \in issued
<1>1. PICK v \in issued : v.num = sNumber[w]
  BY DEF OwnVoucherInv, IssuedUpToLast, QueriesItsNumber, ClaimInv, TypeOK
<1>2. v \in Vouchers /\ job[w] \in Invoices
  BY DEF OwnVoucherInv, ClaimInv, TypeOK, SessionsOpen
<1>3. number[v.inv] = number[job[w]]
  BY <1>1, <1>2, ConstantsAssumption
  DEF OwnVoucherInv, ClaimInv, DurableReservation, SessionsFresh
<1>4. v.inv = job[w]
  BY <1>1, <1>2, <1>3
  DEF OwnVoucherInv, ClaimInv, DurableReservation, UniqueNumbers, Vouchers
<1> QED
  BY <1>1, <1>2, <1>4 DEF Vouchers

(* Every step keeps that: what a worker approves was issued to its row. *)
LEMMA OwnVoucherNext ==
  ASSUME "slow_worker" \notin Faults, MaxForeign = 0, OwnVoucherInv, [Next]_vars
  PROVE  OwnVoucherInv'
<1> DEFINE Rest == /\ QueriesItsNumber
                   /\ AnswersOwn
                   /\ ApprovedWithOwnVoucher
<1>0. ClaimInv' /\ UniqueNumbers' /\ IssuedUpToLast'
  BY ClaimNext, UniqueNumbersNext, IssuedUpToLastNext DEF OwnVoucherInv, ClaimInv
<1>a. ClaimInv /\ QueriesItsNumber /\ AnswersOwn /\ ApprovedWithOwnVoucher
  BY DEF OwnVoucherInv
<1> USE <1>a, ConstantsAssumption DEF ClaimInv, TypeOK, SessionsOpen
<1> USE DEF SessionsFresh, UntouchedRows
<1> USE DEF QueriesItsNumber, AnswersOwn, ApprovedWithOwnVoucher
<1>1. ASSUME NEW i \in Invoices, NEW n \in ExplicitNumbers \cup {0}, NEW missing \in BOOLEAN, Enqueue(i, n, missing)
       PROVE  Rest'
  BY <1>1 DEF Enqueue, workers, session, arca
<1>2. ASSUME NEW i \in Invoices, NEW n \in ExplicitNumbers, ResumeReceiverIdentification(i, n)
       PROVE  Rest'
  BY <1>2 DEF ResumeReceiverIdentification, workers, session, arca
<1>3. ASSUME NEW ok \in BOOLEAN, ValidateProfile(ok)
       PROVE  Rest'
  BY <1>3 DEF ValidateProfile, rows, workers, session, arca
<1>4. ASSUME NEW i \in Invoices, TimePasses(i)
       PROVE  Rest'
  BY <1>4 DEF TimePasses, Held, workers, session, arca
<1>5. ASSUME NEW w \in Workers, NEW i \in Invoices, Claim(w, i)
       PROVE  Rest'
  <2>1. QueriesItsNumber'
    BY <1>5 DEF Claim
  <2>2. AnswersOwn'
    BY <1>5 DEF Claim, arca
  <2>3. ApprovedWithOwnVoucher'
    BY <1>5 DEF Claim, Claimable, arca
  <2> QED
    BY <2>1, <2>2, <2>3
<1>6. ASSUME NEW w \in Workers, NEW i \in Invoices, ClaimWithInvalidProfile(w, i)
       PROVE  Rest'
  <2>1. QueriesItsNumber'
    BY <1>6 DEF ClaimWithInvalidProfile, session
  <2>2. AnswersOwn'
    <3>1. answer[w] # "cae"
      BY <1>6 DEF ClaimWithInvalidProfile
    <3>2. answer' = answer /\ issued' = issued
      BY <1>6 DEF ClaimWithInvalidProfile, arca
    <3>3. \A x \in Workers \ {w} :
            pc'[x] = pc[x] /\ job'[x] = job[x] /\ sNumber'[x] = sNumber[x]
      BY <1>6 DEF ClaimWithInvalidProfile, session
    <3> QED
      BY <3>1, <3>2, <3>3
  <2>3. ApprovedWithOwnVoucher'
    BY <1>6 DEF ClaimWithInvalidProfile, arca
  <2> QED
    BY <2>1, <2>2, <2>3
<1>7. ASSUME NEW w \in Workers, Connect(w)
       PROVE  Rest'
  BY <1>7 DEF Connect, rows, arca, session, NeedsLookup
<1>8. ASSUME NEW w \in Workers, NEW retryable \in BOOLEAN, ConnectOrLookupFails(w, retryable)
       PROVE  Rest'
  <2>1. CASE retryable
    BY <1>8, <2>1 DEF ConnectOrLookupFails, HandleError, RetryLater, CommitAndReturn, Raised, Return, Unlocked, arca
  <2>2. CASE ~retryable
    BY <1>8, <2>2 DEF ConnectOrLookupFails, HandleError, Reject, CommitAndReturn, Raised, Return, Unlocked, arca
  <2> QED
    BY <2>1, <2>2
<1>9. ASSUME NEW w \in Workers, LookupFinds(w)
       PROVE  Rest'
  <2>1. [num |-> sNumber[w], inv |-> job[w]] \in issued /\ job[w] \in Invoices
    BY <1>9, OwnerIsOwn DEF LookupFinds
  <2>2. QueriesItsNumber'
    BY <1>9 DEF LookupFinds, Approve, CommitAndReturn, Raised, Return
  <2>3. AnswersOwn'
    BY <1>9 DEF LookupFinds, Approve, CommitAndReturn, Raised, Return, arca
  <2>4. ApprovedWithOwnVoucher'
    BY <1>9, <2>1 DEF LookupFinds, Approve, Owner, arca
  <2> QED
    BY <2>2, <2>3, <2>4
<1>10. ASSUME NEW w \in Workers, LookupFindsNothing(w)
       PROVE  Rest'
  BY <1>10 DEF LookupFindsNothing, rows, arca, session
<1>11. ASSUME NEW w \in Workers, LookupFindsNoCae(w)
       PROVE  Rest'
  BY <1>11 DEF LookupFindsNoCae, Reject, CommitAndReturn, Raised, Return, Unlocked, arca
<1>12. ASSUME NEW w \in Workers, GetLastVoucher(w)
       PROVE  Rest'
  BY <1>12 DEF GetLastVoucher, rows, arca, session
<1>13. ASSUME NEW w \in Workers, NEW retryable \in BOOLEAN, GetLastVoucherFails(w, retryable)
       PROVE  Rest'
  <2>1. CASE retryable
    BY <1>13, <2>1 DEF GetLastVoucherFails, HandleError, RetryLater, CommitAndReturn, Raised, Return, Unlocked, arca
  <2>2. CASE ~retryable
    BY <1>13, <2>2 DEF GetLastVoucherFails, HandleError, Reject, CommitAndReturn, Raised, Return, Unlocked, arca
  <2> QED
    BY <2>1, <2>2
<1>14. ASSUME NEW w \in Workers, SequenceBusy(w)
       PROVE  Rest'
  BY <1>14 DEF SequenceBusy, RetryLater, CommitAndReturn, Raised, Return, Unlocked, arca
<1>15. ASSUME NEW w \in Workers, ReservationCollides(w)
       PROVE  Rest'
  BY <1>15 DEF ReservationCollides, RetryLater, CommitAndReturn, Raised, Return, Unlocked, arca
<1>16. ASSUME NEW w \in Workers, ReserveAndCreate(w)
       PROVE  Rest'
  <2>1. QueriesItsNumber'
    BY <1>16 DEF ReserveAndCreate, FirstRequest, Request, Reserved, Unlocked, NeedsNumber, Requests, Vouchers
  <2>2. AnswersOwn'
    BY <1>16, ZenonT(60) DEF ReserveAndCreate
  <2>3. ApprovedWithOwnVoucher'
    BY <1>16 DEF ReserveAndCreate, FirstRequest, Request, Reserved, Unlocked, NeedsNumber, Requests, Vouchers, Raised
  <2> QED
    BY <2>1, <2>2, <2>3
<1>17. ASSUME NEW w \in Workers, CreateReserved(w)
       PROVE  Rest'
  BY <1>17 DEF CreateReserved, NeedsNumber, Request, Requests, Vouchers, rows, session
<1>18. ASSUME NEW w \in Workers, CorrelativeConflict(w)
       PROVE  Rest'
  BY <1>18 DEF CorrelativeConflict, Reject, CommitAndReturn, Raised, Return, Unlocked, arca
<1>19. ASSUME NEW w \in Workers, CreateSucceeds(w)
       PROVE  Rest'
  <2>1. [num |-> sNumber[w], inv |-> job[w]] \in issued /\ job[w] \in Invoices
    BY <1>19 DEF CreateSucceeds, Authorised
  <2>2. QueriesItsNumber'
    BY <1>19 DEF CreateSucceeds, Approve, CommitAndReturn, Raised, Return
  <2>3. AnswersOwn'
    BY <1>19 DEF CreateSucceeds, Approve, CommitAndReturn, Raised, Return, arca
  <2>4. ApprovedWithOwnVoucher'
    BY <1>19, <2>1 DEF CreateSucceeds, Approve, Owner, arca
  <2> QED
    BY <2>2, <2>3, <2>4
<1>20. ASSUME NEW w \in Workers, CreateRefused(w)
       PROVE  Rest'
  BY <1>20 DEF CreateRefused, Authorised, Reject, CommitAndReturn, Raised, Return, Unlocked, arca
<1>21. ASSUME NEW w \in Workers, NEW retryable \in BOOLEAN, CreateFails(w, retryable)
       PROVE  Rest'
  <2>1. CASE retryable
    BY <1>21, <2>1 DEF CreateFails, HandleError, RetryLater, CommitAndReturn, Raised, Return, Unlocked, arca
  <2>2. CASE ~retryable
    BY <1>21, <2>2 DEF CreateFails, HandleError, Reject, CommitAndReturn, Raised, Return, Unlocked, arca
  <2> QED
    BY <2>1, <2>2
<1>22. ASSUME NEW w \in Workers, ResponseRaisedInTry(w)
       PROVE  Rest'
  BY <1>22 DEF ResponseRaisedInTry, HandleError, RetryLater, CommitAndReturn, Raised, Return, Unlocked, arca
<1>23. ASSUME NEW w \in Workers, Crash(w)
       PROVE  Rest'
  BY <1>23 DEF Crash, Return, Unlocked, rows, arca
<1>24. ASSUME NEW w \in Workers, NEW i \in Invoices, Quarantine(w, i)
       PROVE  Rest'
  BY <1>24 DEF Quarantine, Claimable, Return, Unlocked, arca
<1>25. ASSUME NEW m \in requests, ArcaAuthorises(m)
       PROVE  Rest'
  BY <1>25 DEF ArcaAuthorises, Answered, Waits, Requests, Vouchers, rows, session, Request
<1>26. ASSUME NEW m \in requests, ArcaRefuses(m)
       PROVE  Rest'
  BY <1>26 DEF ArcaRefuses, Answered, Waits, Requests, Vouchers, rows, session, Request
<1>27. ASSUME NEW m \in requests, RequestIsLost(m)
       PROVE  Rest'
  BY <1>27 DEF RequestIsLost, Requests, rows, workers, session, arca
<1>28. ASSUME ForeignVoucher
       PROVE  Rest'
  BY <1>28 DEF ForeignVoucher, rows, workers, session, arca
<1>29. ASSUME UNCHANGED vars
       PROVE  Rest'
  BY <1>29 DEF vars, rows, arca, session, workers
<1> HIDE DEF Rest
<1>30. Rest'
  BY <1>1, <1>2, <1>3, <1>4, <1>5, <1>6, <1>7, <1>8, <1>9, <1>10, <1>11,
     <1>12, <1>13, <1>14, <1>15, <1>16, <1>17, <1>18, <1>19, <1>20, <1>21,
     <1>22, <1>23, <1>24, <1>25, <1>26, <1>27, <1>28, <1>29
  DEF Next, Api, Claims, Proceeds, Settles
<1> QED
  BY <1>0, <1>30 DEF OwnVoucherInv, Rest

(* On a sequence of its own the service approves an invoice with its own   *)
(* voucher only.                                                           *)
THEOREM OwnVoucher ==
  ASSUME "slow_worker" \notin Faults, InitialLast = 0, MaxForeign = 0
  PROVE  Spec => []ApprovedWithOwnVoucher
<1>1. Init => OwnVoucherInv
  BY OwnVoucherInit
<1>2. OwnVoucherInv /\ [Next]_vars => OwnVoucherInv'
  BY OwnVoucherNext
<1>3. OwnVoucherInv => ApprovedWithOwnVoucher
  BY DEF OwnVoucherInv
<1> QED
  BY <1>1, <1>2, <1>3, PTL DEF Spec

(* Nothing is in flight before the first request. *)
LEMMA SendingInit == ASSUME Init PROVE SendingInv
BY ClaimInit, ConstantsAssumption
DEF Init, SendingInv, FlightInv, IssuedReached, NothingInFlight, InFlight, AnswersWhenCreating,
    AuthorisedIsFound

(* How process() ends, whatever it found: status s, next_retry_at d, and   *)
(* the worker has returned or its response failed.                         *)
EndsWith(w, s, d) ==
  /\ s # "absent"
  /\ status' = [status EXCEPT ![job[w]] = s]
  /\ due' = [due EXCEPT ![job[w]] = d]
  /\ \E a \in Nat, raised \in Raised : CommitAndReturn(w, a, raised)
  /\ UNCHANGED <<number, attempts, arca>>

(* The steps that end it. *)
Ends(w) ==
  \/ \E retryable \in BOOLEAN : \/ ConnectOrLookupFails(w, retryable)
                                \/ GetLastVoucherFails(w, retryable)
                                \/ CreateFails(w, retryable)
  \/ ResponseRaisedInTry(w)
  \/ LookupFinds(w) \/ LookupFindsNoCae(w) \/ SequenceBusy(w) \/ ReservationCollides(w)
  \/ CorrelativeConflict(w) \/ CreateSucceeds(w) \/ CreateRefused(w) \/ Crash(w)
  \/ \E i \in Invoices : Quarantine(w, i) /\ job[w] = i

(* ARCA has not authorised the invoice and will not be asked to. *)
NoVoucher(i) == ~InFlight(i) /\ \A v \in issued : v.inv # i

(* A retryable failure never rejects the row. *)
LEMMA RetryIsNoRejection ==
  ASSUME NEW w \in Workers, NEW a \in Nat, NEW raised \in Raised, RetryLater(w, a, raised),
         UNCHANGED <<number, attempts, arca>>
  PROVE  \E s \in Statuses \ {"rejected"}, d \in {"null", "scheduled"} : EndsWith(w, s, d)
<1>1. CASE MayRetry(a)
  <2>1. EndsWith(w, "retrying", "scheduled")
    BY <1>1 DEF RetryLater, EndsWith
  <2> QED
    BY <2>1 DEF Statuses
<1>2. CASE ~MayRetry(a)
  <2>1. EndsWith(w, "failed", "null")
    BY <1>2 DEF RetryLater, EndsWith
  <2> QED
    BY <2>1 DEF Statuses
<1> QED
  BY <1>1, <1>2

(* A row that ends as rejected has no voucher, if only ARCA refuses. *)
LEMMA Endings ==
  ASSUME SendingInv, NEW w \in Workers, Ends(w)
  PROVE  /\ job[w] # None
         /\ \E s \in Statuses, d \in {"null", "scheduled"} :
              /\ EndsWith(w, s, d)
              /\ s = "rejected" /\ status[job[w]] # "rejected"
                 /\ Faults \cap {"garbled_reply", "refused_query"} = {}
                   => NoVoucher(job[w])
<1> DEFINE Ending == \E s \in Statuses, d \in {"null", "scheduled"} :
                       /\ EndsWith(w, s, d)
                       /\ s = "rejected" /\ status[job[w]] # "rejected"
                          /\ Faults \cap {"garbled_reply", "refused_query"} = {}
                            => NoVoucher(job[w])
<1>1. pc[w] # "idle" => job[w] # None
  BY DEF SendingInv, ClaimInv, SessionsOpen
<1>2. sAttempts[w] \in Nat /\ (job[w] # None => job[w] \in Invoices /\ attempts[job[w]] \in Nat)
  BY DEF SendingInv, ClaimInv, TypeOK
<1>3. (\E s \in Statuses \ {"rejected"}, d \in {"null", "scheduled"} : EndsWith(w, s, d)) => Ending
  OBVIOUS
<1>4. EndsWith(w, "rejected", "null")
      /\ (Faults \cap {"garbled_reply", "refused_query"} = {} => NoVoucher(job[w])) => Ending
  BY DEF Statuses
<1> HIDE DEF Ending
<1> DEFINE Done == job[w] # None /\ Ending
<1>5. ASSUME NEW retryable \in BOOLEAN,
             \/ ConnectOrLookupFails(w, retryable)
             \/ GetLastVoucherFails(w, retryable)
             \/ CreateFails(w, retryable)
             \/ ResponseRaisedInTry(w) /\ retryable
      PROVE  Done
  <2>1. /\ pc[w] # "idle" /\ HandleError(w, retryable)
        /\ UNCHANGED <<number, attempts, arca>>
    BY <1>5 DEF ConnectOrLookupFails, GetLastVoucherFails, CreateFails, ResponseRaisedInTry
  <2>2. CASE retryable
    <3>1. RetryLater(w, sAttempts[w], "raised") /\ "raised" \in Raised
      BY <2>1, <2>2 DEF HandleError, Raised
    <3> QED
      BY <1>1, <1>2, <1>3, <2>1, <3>1, RetryIsNoRejection
  <2>3. CASE ~retryable
    <3>1. EndsWith(w, "rejected", "null")
      BY <1>2, <2>1, <2>3 DEF HandleError, Reject, EndsWith, Raised
    <3>2. ASSUME Faults \cap {"garbled_reply", "refused_query"} = {} PROVE NoVoucher(job[w])
      <4>1. \/ pc[w] = "sequence"
            \/ pc[w] = "create" /\ answer[w] = "none" /\ Request(w) \notin requests
        BY <1>5, <2>3, <3>2 DEF ConnectOrLookupFails, GetLastVoucherFails, CreateFails
      <4> QED
        BY <4>1 DEF NoVoucher, InFlight, SendingInv, FlightInv, NothingInFlight, AuthorisedIsFound, Raised
    <3> QED
      BY <1>1, <1>4, <2>1, <3>1, <3>2
  <2> QED
    BY <2>2, <2>3
<1>6. ASSUME LookupFinds(w) \/ CreateSucceeds(w) PROVE Done
  <2>1. pc[w] # "idle" /\ EndsWith(w, "approved", "null")
    BY <1>2, <1>6 DEF LookupFinds, CreateSucceeds, Approve, EndsWith, Raised
  <2> QED
    BY <1>1, <1>3, <2>1 DEF Statuses
<1>7. ASSUME SequenceBusy(w) \/ ReservationCollides(w) PROVE Done
  <2>1. /\ pc[w] # "idle"
        /\ \/ RetryLater(w, sAttempts[w], "raised_in_try")
           \/ RetryLater(w, attempts[job[w]], "raised_in_try")
        /\ UNCHANGED <<number, attempts, arca>> /\ "raised_in_try" \in Raised
    BY <1>7 DEF SequenceBusy, ReservationCollides, Raised
  <2>2. job[w] # None /\ attempts[job[w]] \in Nat
    BY <1>1, <1>2, <2>1
  <2> QED
    BY <1>2, <1>3, <2>1, <2>2, RetryIsNoRejection
<1>8. ASSUME LookupFindsNoCae(w) \/ CorrelativeConflict(w) \/ CreateRefused(w) PROVE Done
  <2>1. pc[w] # "idle" /\ EndsWith(w, "rejected", "null")
    BY <1>2, <1>8 DEF LookupFindsNoCae, CorrelativeConflict, CreateRefused, Reject, EndsWith, Raised
  <2>2. CASE LookupFindsNoCae(w)
    <3>1. /\ pc[w] = "lookup" /\ sNumber[w] > last /\ job[w] \in Invoices
          /\ sNumber[w] = number[job[w]]
      BY <1>1, <1>2, <2>1, <2>2 DEF LookupFindsNoCae, SendingInv, ClaimInv, SessionsFresh
    <3>2. \A v \in issued : v.inv = job[w] => v.num = sNumber[w] /\ v.num <= last
      BY <3>1 DEF SendingInv, ClaimInv, DurableReservation, FlightInv, IssuedReached
    <3>3. sNumber[w] \in Nat /\ last \in Nat
      BY DEF SendingInv, ClaimInv, TypeOK
    <3>4. \A v \in issued : v.inv # job[w]
      BY <3>1, <3>2, <3>3
    <3>5. ~InFlight(job[w])
      BY <3>1 DEF InFlight, SendingInv, FlightInv, NothingInFlight, Raised
    <3> QED
      BY <1>1, <1>4, <2>1, <3>4, <3>5 DEF NoVoucher
  <2>3. CASE CorrelativeConflict(w)
    <3>1. NoVoucher(job[w])
      BY <2>3 DEF CorrelativeConflict, NoVoucher, InFlight, SendingInv, FlightInv,
                  NothingInFlight, AuthorisedIsFound, Raised
    <3> QED
      BY <1>1, <1>4, <2>1, <3>1
  <2>4. CASE CreateRefused(w)
    <3>1. NoVoucher(job[w])
      BY <2>4 DEF CreateRefused, Authorised, NoVoucher, InFlight, SendingInv, FlightInv,
                  NothingInFlight, AuthorisedIsFound, Raised
    <3> QED
      BY <1>1, <1>4, <2>1, <3>1
  <2> QED
    BY <1>8, <2>2, <2>3, <2>4
<1>9. ASSUME Crash(w) PROVE Done
  <2> DEFINE i == job[w]
  <2>1. pc[w] # "idle" /\ i \in Invoices
    BY <1>1, <1>2, <1>9 DEF Crash
  <2>2. /\ status \in [Invoices -> Statuses] /\ due \in [Invoices -> Dues]
        /\ due[i] \in {"null", "scheduled"} /\ status[i] # "absent"
    BY <1>1, <2>1 DEF SendingInv, ClaimInv, SessionsFresh, TypeOK, Dues, Steps, Raised
  <2>3. EndsWith(w, status[i], due[i])
    <3>1. status' = [status EXCEPT ![i] = status[i]] /\ due' = [due EXCEPT ![i] = due[i]]
      BY <1>9, <2>1, <2>2 DEF Crash, rows
    <3> QED
      BY <1>2, <1>9, <2>2, <3>1 DEF Crash, EndsWith, CommitAndReturn, Raised, rows, arca
  <2> QED
    BY <1>1, <2>1, <2>2, <2>3 DEF Ending
<1>10. ASSUME NEW i \in Invoices, Quarantine(w, i), job[w] = i PROVE Done
  <2>1. EndsWith(w, "quarantined", "null")
    BY <1>2, <1>10 DEF Quarantine, EndsWith, CommitAndReturn, Raised
  <2> QED
    BY <1>3, <1>10, <2>1, ConstantsAssumption DEF Statuses
<1>11. Done
  BY <1>5, <1>6, <1>7, <1>8, <1>9, <1>10 DEF Ends
<1> QED
  BY <1>11 DEF Ending

(* After the end nothing of the worker is in flight. *)
LEMMA EndKeepsFlight ==
  ASSUME SendingInv, NEW w \in Workers, job[w] # None,
         NEW s \in Statuses, NEW d \in {"null", "scheduled"}, EndsWith(w, s, d)
  PROVE  FlightInv'
<1> DEFINE i == job[w]
<1>1. i \in Invoices
  BY DEF SendingInv, ClaimInv, TypeOK
<1>2. /\ requests' = requests /\ issued' = issued /\ last' = last
      /\ status'[i] = s /\ due'[i] = d
      /\ \A j \in Invoices \ {i} : status'[j] = status[j] /\ due'[j] = due[j]
  BY <1>1 DEF EndsWith, arca, SendingInv, ClaimInv, TypeOK
<1>3. /\ \/ pc'[w] = "idle" /\ job'[w] = None
         \/ pc'[w] \in Raised /\ job'[w] = i
      /\ answer'[w] = "none"
      /\ \A x \in Workers \ {w} :
           /\ pc'[x] = pc[x] /\ job'[x] = job[x] /\ answer'[x] = answer[x]
           /\ sNumber'[x] = sNumber[x] /\ sAttempts'[x] = sAttempts[x]
  BY DEF EndsWith, CommitAndReturn, Return, SendingInv, ClaimInv, TypeOK
<1>4. \A m \in requests : m.inv \in Invoices
  BY DEF SendingInv, ClaimInv, TypeOK, Requests
<1>5. \A v \in issued : v.inv \in Invoices
  BY DEF SendingInv, ClaimInv, TypeOK, Vouchers
<1> USE DEF SendingInv, FlightInv
<1> HIDE DEF i
<1>6. IssuedReached'
  BY <1>2 DEF IssuedReached
<1>7. NothingInFlight'
  BY <1>2, <1>3, <1>4, ConstantsAssumption DEF NothingInFlight, InFlight, Request
<1>8. AnswersWhenCreating'
  BY <1>2, <1>3 DEF AnswersWhenCreating, Request
<1>9. AuthorisedIsFound'
  BY <1>2, <1>3, <1>5, ConstantsAssumption DEF AuthorisedIsFound
<1> QED
  BY <1>6, <1>7, <1>8, <1>9

(* No step loses sight of a request or of an authorisation. *)
LEMMA FlightNext ==
  ASSUME Faults \cap {"slow_worker", "late_delivery"} = {}, SendingInv, [Next]_vars
  PROVE  FlightInv'
<1>0. SendingInv
  OBVIOUS
<1> USE ConstantsAssumption
<1>1. ASSUME NEW i \in Invoices, NEW n \in ExplicitNumbers \cup {0},
             NEW missing \in BOOLEAN, Enqueue(i, n, missing)
      PROVE  FlightInv'
  BY <1>1 DEF Enqueue, workers, session, arca, SendingInv, ClaimInv, TypeOK,
     SessionsOpen, ExclusiveClaim, SessionsFresh, FlightInv, IssuedReached, NothingInFlight,
     InFlight, AnswersWhenCreating, AuthorisedIsFound,
     Request, UntouchedRows, SentRows
<1>2. ASSUME NEW i \in Invoices, NEW n \in ExplicitNumbers, ResumeReceiverIdentification(i, n)
      PROVE  FlightInv'
  BY <1>2 DEF ResumeReceiverIdentification, workers, session, arca, SendingInv,
     ClaimInv, TypeOK, SessionsOpen, ExclusiveClaim, SessionsFresh, FlightInv,
     IssuedReached, NothingInFlight, InFlight, AnswersWhenCreating, AuthorisedIsFound,
     Request, UntouchedRows, SentRows
<1>3. ASSUME NEW ok \in BOOLEAN, ValidateProfile(ok)
      PROVE  FlightInv'
  BY <1>3 DEF ValidateProfile, rows, workers, session, arca, SendingInv, ClaimInv,
     TypeOK, SessionsOpen, ExclusiveClaim, SessionsFresh, FlightInv, IssuedReached,
     NothingInFlight, InFlight, AnswersWhenCreating, AuthorisedIsFound, Request
<1>4. ASSUME NEW i \in Invoices, TimePasses(i)
      PROVE  FlightInv'
  BY <1>4 DEF TimePasses, Held, workers, session, arca, SendingInv, ClaimInv, TypeOK,
     SessionsOpen, ExclusiveClaim, SessionsFresh, FlightInv, IssuedReached, NothingInFlight,
     InFlight, AnswersWhenCreating, AuthorisedIsFound, Request
<1>5. ASSUME NEW w \in Workers, NEW i \in Invoices, Claim(w, i)
      PROVE  FlightInv'
  <2>1. /\ i \in Invoices /\ job[w] = None /\ due[i] = "due" /\ ~InFlight(i)
        /\ \A x \in Workers : job[x] # i
    BY <1>5 DEF Claim, Claimable, SendingInv, ClaimInv, SessionsOpen, SessionsFresh,
       FlightInv, NothingInFlight
  <2>2. /\ requests' = requests /\ issued' = issued /\ last' = last
        /\ answer' = answer /\ number' = number
        /\ status' = [status EXCEPT ![i] = "processing"]
        /\ due' = [due EXCEPT ![i] = "scheduled"]
        /\ pc'[w] = "connect" /\ job'[w] = i /\ sAttempts'[w] = attempts[i] + 1
        /\ \A x \in Workers \ {w} :
             /\ pc'[x] = pc[x] /\ job'[x] = job[x]
             /\ sNumber'[x] = sNumber[x] /\ sAttempts'[x] = sAttempts[x]
    BY <1>5 DEF Claim, Lease, arca, SendingInv, ClaimInv, TypeOK
  <2>3. answer[w] = "none" /\ status \in [Invoices -> Statuses] /\ due \in [Invoices -> Dues]
    BY <1>5 DEF Claim, SendingInv, ClaimInv, TypeOK, FlightInv, AnswersWhenCreating
  <2>4. \A v \in issued : v.inv = i => attempts[i] > 0 /\ attempts[i] \in Nat
    BY DEF SendingInv, ClaimInv, SentRows, TypeOK
  <2>5. \A m \in requests : m.inv # i
    BY <2>1 DEF InFlight
  <2> USE DEF SendingInv, FlightInv
  <2>6. IssuedReached'
    BY <2>2, <2>3 DEF IssuedReached
  <2>7. NothingInFlight'
    BY <2>1, <2>2, <2>3, <2>5 DEF NothingInFlight, InFlight, Request
  <2>8. AnswersWhenCreating'
    BY <2>2, <2>3 DEF AnswersWhenCreating, Request
  <2>9. AuthorisedIsFound'
    BY <2>2, <2>3, <2>4 DEF AuthorisedIsFound
  <2> QED
    BY <2>6, <2>7, <2>8, <2>9
<1>6. ASSUME NEW w \in Workers, NEW i \in Invoices, ClaimWithInvalidProfile(w, i)
      PROVE  FlightInv'
  <2>1. /\ job[w] = None /\ answer[w] = "none" /\ ~InFlight(i)
        /\ \A x \in Workers : job[x] # i
        /\ status \in [Invoices -> Statuses] /\ due \in [Invoices -> Dues]
    BY <1>6 DEF ClaimWithInvalidProfile, Claimable, SendingInv, ClaimInv, TypeOK, SessionsOpen,
       SessionsFresh, FlightInv, NothingInFlight, AnswersWhenCreating
  <2>2. /\ requests' = requests /\ issued' = issued /\ last' = last /\ answer' = answer
        /\ status' = [status EXCEPT ![i] = "failed"]
        /\ due' = [due EXCEPT ![i] = "null"]
        /\ \/ pc'[w] = pc[w] /\ job'[w] = None
           \/ pc'[w] \in Raised /\ job'[w] = i
        /\ \A x \in Workers \ {w} :
             /\ pc'[x] = pc[x] /\ job'[x] = job[x]
             /\ sNumber'[x] = sNumber[x] /\ sAttempts'[x] = sAttempts[x]
    BY <1>6, <2>1 DEF ClaimWithInvalidProfile, session, arca, Raised, SendingInv, ClaimInv, TypeOK
  <2>3. /\ \A m \in requests : m.inv \in Invoices /\ m.inv # i
        /\ \A v \in issued : v.inv \in Invoices
    BY <2>1 DEF SendingInv, ClaimInv, TypeOK, Requests, Vouchers, InFlight
  <2> USE DEF SendingInv, FlightInv
  <2>4. IssuedReached'
    BY <2>2 DEF IssuedReached
  <2>5. NothingInFlight'
    BY <2>1, <2>2, <2>3 DEF NothingInFlight, InFlight, Request
  <2>6. AnswersWhenCreating'
    BY <2>1, <2>2 DEF AnswersWhenCreating, Request
  <2>7. AuthorisedIsFound'
    BY <2>2, <2>3 DEF AuthorisedIsFound
  <2> QED
    BY <2>4, <2>5, <2>6, <2>7
<1>7. ASSUME NEW w \in Workers, Connect(w)
      PROVE  FlightInv'
  <2>1. /\ rows' = rows /\ arca' = arca /\ session' = session /\ answer' = answer
        /\ \A x \in Workers \ {w} : pc'[x] = pc[x]
        /\ pc'[w] = IF NeedsLookup(w) THEN "lookup" ELSE "sequence"
    BY <1>7 DEF Connect, SendingInv, ClaimInv, TypeOK
  <2>2. ASSUME NEW v \in issued, v.inv = job[w]
        PROVE  NeedsLookup(w)
    <3>1. pc[w] = "connect" /\ sAttempts[w] > 1
      BY <1>7, <2>2 DEF Connect, SendingInv, FlightInv, AuthorisedIsFound, Raised
    <3>2. number[job[w]] = v.num /\ v.num # 0 /\ job[w] \in Invoices
      BY <2>2 DEF SendingInv, ClaimInv, DurableReservation, TypeOK, Vouchers
    <3>3. sNumber[w] = number[job[w]]
      BY <3>2, ConstantsAssumption DEF SendingInv, ClaimInv, SessionsFresh
    <3> QED
      BY <3>1, <3>2, <3>3 DEF NeedsLookup
  <2>3. pc[w] = "connect" /\ job[w] # None
    BY <1>7 DEF Connect, SendingInv, ClaimInv, SessionsOpen
  <2> USE DEF SendingInv, FlightInv, rows, arca, session
  <2>4. IssuedReached'
    BY <2>1 DEF IssuedReached
  <2>5. NothingInFlight'
    BY <2>1, <2>3 DEF NothingInFlight, InFlight, Request, Raised
  <2>6. AnswersWhenCreating'
    BY <2>1, <2>3 DEF AnswersWhenCreating, Request
  <2>7. AuthorisedIsFound'
    BY <2>1, <2>2 DEF AuthorisedIsFound
  <2> QED
    BY <2>4, <2>5, <2>6, <2>7
<1>8. ASSUME NEW w \in Workers, Ends(w)
      PROVE  FlightInv'
  BY <1>8, Endings, EndKeepsFlight
<1>9. ASSUME NEW w \in Workers, LookupFindsNothing(w)
      PROVE  FlightInv'
  BY <1>9 DEF LookupFindsNothing, rows, arca, session, SendingInv, ClaimInv, TypeOK,
     SessionsOpen, ExclusiveClaim, SessionsFresh, FlightInv, IssuedReached, NothingInFlight,
     InFlight, AnswersWhenCreating, AuthorisedIsFound,
     Request, DurableReservation, Vouchers, Raised
<1>10. ASSUME NEW w \in Workers, GetLastVoucher(w)
      PROVE  FlightInv'
  BY <1>10 DEF GetLastVoucher, rows, arca, session, SendingInv, ClaimInv, TypeOK,
     SessionsOpen, ExclusiveClaim, SessionsFresh, FlightInv, IssuedReached, NothingInFlight,
     InFlight, AnswersWhenCreating, AuthorisedIsFound, Request, Raised
<1>11. ASSUME NEW w \in Workers, ReserveAndCreate(w)
      PROVE  FlightInv'
  <2> DEFINE r == [num |-> expected[w], inv |-> job[w], att |-> sAttempts[w]]
  <2>1. /\ pc[w] = "reserve" /\ job[w] \in Invoices /\ job[w] # None
        /\ due[job[w]] = "scheduled" /\ status[job[w]] = "processing"
    BY <1>11 DEF ReserveAndCreate, FirstRequest, SendingInv, ClaimInv, TypeOK, SessionsOpen, SessionsFresh, Raised
  <2>2. /\ \A m \in requests : m.inv # job[w]
        /\ \A v \in issued : v.inv # job[w]
        /\ answer[w] = "none"
    BY <2>1 DEF SendingInv, FlightInv, NothingInFlight, AuthorisedIsFound,
                AnswersWhenCreating, ClaimInv, TypeOK, Answers, Raised
  <2>3. \A x \in Workers \ {w} : job[x] # job[w]
    BY <2>1 DEF SendingInv, ClaimInv, ExclusiveClaim
  <2>4. /\ requests' = requests \cup {r} /\ r.inv = job[w]
        /\ issued' = issued /\ last' = last /\ status' = status /\ due' = due
        /\ job' = job /\ sAttempts' = sAttempts /\ answer' = answer
        /\ pc'[w] = "create" /\ Request(w)' = r
        /\ \A x \in Workers \ {w} :
             pc'[x] = pc[x] /\ sNumber'[x] = sNumber[x] /\ Request(x)' = Request(x)
    BY <1>11 DEF ReserveAndCreate, FirstRequest, Request, SendingInv, ClaimInv, TypeOK
  <2> HIDE DEF r
  <2> USE DEF SendingInv, FlightInv
  <2>5. IssuedReached'
    BY <2>1, <2>4 DEF IssuedReached
  <2>6. NothingInFlight'
    BY <2>1, <2>2, <2>3, <2>4 DEF NothingInFlight, InFlight
  <2>7. AnswersWhenCreating'
    <3>1. \A x \in Workers \ {w} : Request(x) # r
      BY <2>3, <2>4 DEF Request
    <3> QED
      BY <2>2, <2>4, <3>1 DEF AnswersWhenCreating
  <2>8. AuthorisedIsFound'
    BY <2>2, <2>4 DEF AuthorisedIsFound
  <2> QED
    BY <2>5, <2>6, <2>7, <2>8
<1>12. ASSUME NEW w \in Workers, CreateReserved(w)
      PROVE  FlightInv'
  BY <1>12 DEF CreateReserved, NeedsNumber, Request, Requests, Vouchers, rows, session,
     SendingInv, ClaimInv, TypeOK, SessionsOpen, ExclusiveClaim, SessionsFresh, FlightInv,
     IssuedReached, NothingInFlight, InFlight, AnswersWhenCreating, AuthorisedIsFound, Request, Raised
<1>13. ASSUME NEW w \in Workers, NEW i \in Invoices, Quarantine(w, i), job[w] # i
      PROVE  FlightInv'
  <2>1. pc[w] = "idle" /\ Claimable(i) /\ job[w] = None
    BY <1>13 DEF Quarantine, SendingInv, ClaimInv, SessionsOpen
  <2>2. answer[w] = "none"
    BY <2>1 DEF SendingInv, FlightInv, AnswersWhenCreating
  <2>3. /\ requests' = requests /\ issued' = issued /\ last' = last
        /\ answer' = answer /\ pc' = pc /\ job' = job
        /\ status' = [status EXCEPT ![i] = "quarantined"]
        /\ due' = [due EXCEPT ![i] = "null"]
        /\ \A x \in Workers \ {w} : sNumber'[x] = sNumber[x] /\ sAttempts'[x] = sAttempts[x]
    BY <1>13, <2>1, <2>2 DEF Quarantine, Return, arca, SendingInv, ClaimInv, TypeOK
  <2>4. status \in [Invoices -> Statuses] /\ due \in [Invoices -> Dues]
    BY DEF SendingInv, ClaimInv, TypeOK
  <2>5. \A m \in requests : m.inv \in Invoices
    BY DEF SendingInv, ClaimInv, TypeOK, Requests
  <2>6. \A v \in issued : v.inv \in Invoices
    BY DEF SendingInv, ClaimInv, TypeOK, Vouchers
  <2> USE DEF SendingInv, FlightInv
  <2>7. IssuedReached'
    BY <2>3, <2>4 DEF IssuedReached
  <2>8. NothingInFlight'
    BY <2>1, <2>3, <2>4, <2>5, ConstantsAssumption DEF NothingInFlight, InFlight, Request
  <2>9. AnswersWhenCreating'
    BY <2>2, <2>3 DEF AnswersWhenCreating, Request
  <2>10. AuthorisedIsFound'
    BY <2>1, <2>3, <2>6, ConstantsAssumption DEF AuthorisedIsFound
  <2> QED
    BY <2>7, <2>8, <2>9, <2>10
<1>14. ASSUME NEW m \in requests, ArcaAuthorises(m)
      PROVE  FlightInv'
  BY <1>14 DEF ArcaAuthorises, Answered, Waits, Requests, Vouchers, rows, session,
     SendingInv, ClaimInv, TypeOK, SessionsOpen, ExclusiveClaim, SessionsFresh, FlightInv,
     IssuedReached, NothingInFlight, InFlight, AnswersWhenCreating, AuthorisedIsFound,
     Request, DurableReservation, Vouchers
<1>15. ASSUME NEW m \in requests, ArcaRefuses(m)
      PROVE  FlightInv'
  BY <1>15 DEF ArcaRefuses, Answered, Waits, Requests, Vouchers, rows, session,
     SendingInv, ClaimInv, TypeOK, SessionsOpen, ExclusiveClaim, SessionsFresh, FlightInv,
     IssuedReached, NothingInFlight, InFlight, AnswersWhenCreating, AuthorisedIsFound,
     Request, DurableReservation, Vouchers
<1>16. ASSUME NEW m \in requests, RequestIsLost(m)
      PROVE  FlightInv'
  BY <1>16 DEF RequestIsLost, Requests, rows, workers, session, arca, SendingInv,
     ClaimInv, TypeOK, SessionsOpen, ExclusiveClaim, SessionsFresh, FlightInv,
     IssuedReached, NothingInFlight, InFlight, AnswersWhenCreating, AuthorisedIsFound, Request
<1>17. ASSUME ForeignVoucher
      PROVE  FlightInv'
  <2>1. /\ rows' = rows /\ workers' = workers /\ issued' = issued /\ requests' = requests
        /\ last' = last + 1 /\ last \in Nat /\ issued \subseteq Vouchers
    BY <1>17 DEF ForeignVoucher, rows, workers, SendingInv, ClaimInv, TypeOK
  <2> USE DEF SendingInv, FlightInv, rows, workers, session
  <2>2. IssuedReached'
    BY <2>1 DEF IssuedReached, Vouchers
  <2>3. NothingInFlight' /\ AnswersWhenCreating'
    BY <2>1 DEF NothingInFlight, InFlight, AnswersWhenCreating, Request
  <2>4. AuthorisedIsFound'
    BY <2>1 DEF AuthorisedIsFound
  <2> QED
    BY <2>2, <2>3, <2>4
<1>18. ASSUME UNCHANGED vars
      PROVE  FlightInv'
  BY <1>18 DEF vars, rows, arca, session, workers, SendingInv, ClaimInv, TypeOK,
     SessionsOpen, ExclusiveClaim, SessionsFresh, FlightInv, IssuedReached, NothingInFlight,
     InFlight, AnswersWhenCreating, AuthorisedIsFound, Request
<1>19. FlightInv'
  BY <1>1, <1>2, <1>3, <1>4, <1>5, <1>6, <1>7, <1>8, <1>9, <1>10, <1>11,
     <1>12, <1>13, <1>14, <1>15, <1>16, <1>17, <1>18
  DEF Next, Api, Claims, Proceeds, Settles, Ends
<1> QED
  BY <1>0, <1>19

(* Both parts together. *)
LEMMA SendingNext ==
  ASSUME Faults \cap {"slow_worker", "late_delivery"} = {}, SendingInv, [Next]_vars
  PROVE  SendingInv'
BY ClaimNext, FlightNext DEF SendingInv

(* What sends createVoucher. *)
LEMMA RequestWriters ==
  ASSUME SendingInv, [Next]_vars
  PROVE  \/ requests' \subseteq requests
         \/ \E w \in Workers : /\ pc[w] = "reserve" /\ job[w] # None
                               /\ \A m \in requests' \ requests : m.inv = job[w]
<1>1. ASSUME Api PROVE requests' = requests
  BY <1>1 DEF Api, Enqueue, ResumeReceiverIdentification, ValidateProfile, arca
<1>2. ASSUME NEW i \in Invoices, TimePasses(i) \/ Claims(i) PROVE requests' = requests
  BY <1>2 DEF TimePasses, Claims, Claim, ClaimWithInvalidProfile, arca
<1>3. ASSUME NEW w \in Workers, Ends(w) PROVE requests' = requests
  BY <1>3, Endings DEF EndsWith, arca
<1>4. ASSUME NEW w \in Workers, Connect(w) \/ LookupFindsNothing(w) \/ GetLastVoucher(w)
      PROVE  requests' = requests
  BY <1>4 DEF Connect, LookupFindsNothing, GetLastVoucher, arca
<1>5. ASSUME NEW w \in Workers, ReserveAndCreate(w) \/ CreateReserved(w)
      PROVE  /\ pc[w] = "reserve" /\ job[w] # None
             /\ \A m \in requests' \ requests : m.inv = job[w]
  <2>1. pc[w] = "reserve"
    BY <1>5 DEF ReserveAndCreate, CreateReserved
  <2>2. job[w] # None
    BY <2>1 DEF SendingInv, ClaimInv, SessionsOpen
  <2> QED
    BY <1>5, <2>1, <2>2 DEF ReserveAndCreate, CreateReserved, FirstRequest, Request
<1>6. ASSUME NEW w \in Workers, NEW i \in Invoices, Quarantine(w, i) PROVE requests' = requests
  BY <1>6 DEF Quarantine, arca
<1>7. ASSUME \/ ForeignVoucher \/ \E m \in requests : Settles(m) PROVE requests' \subseteq requests
  BY <1>7 DEF ForeignVoucher, Settles, ArcaAuthorises, ArcaRefuses, RequestIsLost
<1>8. CASE UNCHANGED vars
  BY <1>8 DEF vars, arca
<1> QED
  BY <1>1, <1>2, <1>3, <1>4, <1>5, <1>6, <1>7, <1>8 DEF Next, Proceeds, Ends

(* Whatever the retries, ARCA is never asked again for a voucher it has    *)
(* authorised: the query of the second attempt, the order of the numbers   *)
(* and the lease, which outlasts the request, together.                    *)
THEOREM NotSentAgain ==
  ASSUME Faults \cap {"slow_worker", "late_delivery"} = {}
  PROVE  Spec => NeverSentAgain
<1>1. Init => SendingInv
  BY SendingInit
<1>2. SendingInv /\ [Next]_vars => SendingInv'
  BY SendingNext
<1>3. SendingInv /\ [Next]_vars
        => [\A v \in issued : \A m \in requests' \ requests : m.inv # v.inv]_vars
  <2> SUFFICES ASSUME SendingInv, [Next]_vars,
                      NEW v \in issued, NEW m \in requests' \ requests, m.inv = v.inv
               PROVE  FALSE
    OBVIOUS
  <2>1. PICK w \in Workers : pc[w] = "reserve" /\ m.inv = job[w]
    BY RequestWriters
  <2> QED
    BY <2>1 DEF SendingInv, FlightInv, AuthorisedIsFound, Raised
<1> QED
  BY <1>1, <1>2, <1>3, PTL DEF Spec, NeverSentAgain

-----------------------------------------------------------------------------
(* Nothing is rejected before the first request. *)
LEMMA RejectionInit == ASSUME Init PROVE RejectionInv
BY SendingInit DEF Init, RejectionInv, RejectedNotInFlight, RejectedNeverAuthorised

(* Only the end of process() rejects a row. *)
LEMMA RejectionWriters ==
  ASSUME TypeOK, [Next]_vars, \A w \in Workers : ~Ends(w)
  PROVE  \A i \in Invoices : status'[i] = "rejected" => status[i] = "rejected"
<1> DEFINE Others == \A i \in Invoices : status'[i] = "rejected" => status[i] = "rejected"
<1>0. status \in [Invoices -> Statuses]
  BY DEF TypeOK
<1>1. ASSUME NEW i \in Invoices, NEW s \in Statuses \ {"rejected"},
             status' = [status EXCEPT ![i] = s]
      PROVE  Others
  BY <1>0, <1>1
<1>2. ASSUME Api PROVE Others
  <2>1. ASSUME NEW i \in Invoices, NEW n \in ExplicitNumbers \cup {0},
               NEW missing \in BOOLEAN, Enqueue(i, n, missing)
        PROVE  Others
    BY <1>1, <2>1 DEF Enqueue, Statuses
  <2>2. ASSUME NEW i \in Invoices, NEW n \in ExplicitNumbers,
               ResumeReceiverIdentification(i, n)
        PROVE  Others
    BY <1>1, <2>2 DEF ResumeReceiverIdentification, Statuses
  <2> QED
    BY <1>2, <2>1, <2>2 DEF Api, ValidateProfile, rows
<1>3. ASSUME NEW i \in Invoices, TimePasses(i) PROVE Others
  BY <1>3 DEF TimePasses
<1>4. ASSUME NEW w \in Workers, NEW i \in Invoices,
             Claim(w, i) \/ ClaimWithInvalidProfile(w, i)
      PROVE  Others
  BY <1>1, <1>4 DEF Claim, ClaimWithInvalidProfile, Statuses
<1>5. ASSUME NEW w \in Workers, \/ Connect(w) \/ LookupFindsNothing(w) \/ GetLastVoucher(w)
                                \/ ReserveAndCreate(w) \/ CreateReserved(w)
      PROVE  Others
  BY <1>5 DEF Connect, LookupFindsNothing, GetLastVoucher, ReserveAndCreate, CreateReserved, rows
<1>6. ASSUME NEW w \in Workers, NEW i \in Invoices, Quarantine(w, i) PROVE Others
  BY <1>1, <1>6 DEF Quarantine, Statuses
<1>7. ASSUME \/ ForeignVoucher \/ \E m \in requests : Settles(m) PROVE Others
  BY <1>7 DEF ForeignVoucher, Settles, ArcaAuthorises, ArcaRefuses, RequestIsLost, rows
<1>8. ASSUME UNCHANGED vars PROVE Others
  BY <1>8 DEF vars, rows
<1> HIDE DEF Others
<1>9. ASSUME NEW w \in Workers, Proceeds(w) \/ Crash(w) PROVE Others
  BY <1>5, <1>9 DEF Proceeds, Ends
<1>10. ASSUME NEW i \in Invoices, Claims(i) PROVE Others
  BY <1>4, <1>10 DEF Claims
<1>11. Others
  BY <1>2, <1>3, <1>6, <1>7, <1>8, <1>9, <1>10 DEF Next
<1> QED
  BY <1>11 DEF Others

(* No step rejects a row whose request may still be authorised. *)
LEMMA RejectionNext ==
  ASSUME Faults \cap {"slow_worker", "late_delivery", "garbled_reply", "refused_query"} = {},
         RejectionInv, [Next]_vars
  PROVE  RejectionInv'
<1>1. /\ SendingInv /\ TypeOK /\ SendingInv'
      /\ \A m \in requests : m.inv \in Invoices /\ status[m.inv] # "rejected"
      /\ \A v \in issued : v.inv \in Invoices /\ status[v.inv] # "rejected"
  BY SendingNext DEF RejectionInv, RejectedNotInFlight, RejectedNeverAuthorised, SendingInv,
                     ClaimInv, TypeOK, Requests, Vouchers
<1>2. ASSUME NEW w \in Workers, Ends(w)
      PROVE  RejectedNotInFlight' /\ RejectedNeverAuthorised'
  <2>1. Faults \cap {"garbled_reply", "refused_query"} = {}
    OBVIOUS
  <2>2. PICK s \in Statuses, d \in {"null", "scheduled"} :
          EndsWith(w, s, d) /\ (s = "rejected" /\ status[job[w]] # "rejected" => NoVoucher(job[w]))
    BY <1>1, <1>2, <2>1, Endings
  <2>3. /\ requests' = requests /\ issued' = issued
        /\ \A i \in Invoices : i # job[w] => status'[i] = status[i]
        /\ job[w] \in Invoices => status'[job[w]] = s
    BY <1>1, <2>2 DEF EndsWith, arca, TypeOK
  <2> QED
    BY <1>1, <2>2, <2>3 DEF RejectedNotInFlight, RejectedNeverAuthorised, NoVoucher, InFlight
<1>3. ASSUME \A w \in Workers : ~Ends(w)
      PROVE  RejectedNotInFlight' /\ RejectedNeverAuthorised'
  <2>1. \A i \in Invoices : status'[i] = "rejected" => status[i] = "rejected"
    BY <1>1, <1>3, RejectionWriters
  <2>2. \A m \in requests' : \/ m \in requests
                             \/ m.inv \in Invoices /\ status[m.inv] = "processing"
    <3>1. ASSUME NEW w \in Workers, pc[w] = "reserve"
          PROVE  job[w] \in Invoices /\ status[job[w]] = "processing"
      BY <1>1, <3>1 DEF SendingInv, ClaimInv, TypeOK, SessionsOpen, SessionsFresh, Raised
    <3>2. CASE requests' \subseteq requests
      BY <3>2
    <3>3. CASE ~(requests' \subseteq requests)
      <4>1. PICK w \in Workers : /\ pc[w] = "reserve" /\ job[w] # None
                                 /\ \A m \in requests' \ requests : m.inv = job[w]
        BY <1>1, <3>3, RequestWriters
      <4> QED
        BY <3>1, <4>1
    <3> QED
      BY <3>2, <3>3
  <2>3. \A v \in issued' : v \in issued \/ \E m \in requests : m.inv = v.inv
    BY SequenceWriters DEF ArcaAuthorises, ForeignVoucher
  <2> QED
    BY <1>1, <2>1, <2>2, <2>3 DEF RejectedNotInFlight, RejectedNeverAuthorised
<1> QED
  BY <1>1, <1>2, <1>3 DEF RejectionInv

(* A rejection is definitive: behind it there is no fiscal document. *)
THEOREM Rejections ==
  ASSUME Faults \cap {"slow_worker", "late_delivery", "garbled_reply", "refused_query"} = {}
  PROVE  Spec => []RejectedNeverAuthorised
<1>1. Init => RejectionInv
  BY RejectionInit
<1>2. RejectionInv /\ [Next]_vars => RejectionInv'
  BY RejectionNext
<1>3. RejectionInv => RejectedNeverAuthorised
  BY DEF RejectionInv
<1> QED
  BY <1>1, <1>2, <1>3, PTL DEF Spec

=============================================================================
