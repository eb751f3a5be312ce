------------------------ MODULE FiscalProfile_proofs ------------------------
(***************************************************************************)
(* Theorems about FiscalProfile, for any number of handlers, invoices,     *)
(* credential sets and master keys.                                        *)
(***************************************************************************)
EXTENDS FiscalProfile, TLAPS

(* Every variable keeps its type. *)
LEMMA TypingStep == TypeOK /\ [Next]_vars => TypeOK'
<1> SUFFICES ASSUME TypeOK, [Next]_vars PROVE TypeOK'
  OBVIOUS
<1> USE ConstantsAssumption DEF TypeOK, Copies, Steps, ProfileStatuses
<1>1. ASSUME NEW h \in Handlers, Upsert(h) PROVE TypeOK'
  BY <1>1 DEF Upsert, Write, StatusReplaced, ring, billing, session
<1>2. ASSUME NEW h \in Handlers, StartInsert(h) PROVE TypeOK'
  BY <1>2 DEF StartInsert, row, ring, billing
<1>3. ASSUME NEW h \in Handlers, Insert(h) PROVE TypeOK'
  BY <1>3 DEF Insert, Write, Done, NoCopy, ring, billing
<1>4. ASSUME NEW h \in Handlers, InsertCollides(h) PROVE TypeOK'
  BY <1>4 DEF InsertCollides, Done, NoCopy, row, ring, billing
<1>5. ASSUME NEW h \in Handlers, Delete(h) PROVE TypeOK'
  BY <1>5 DEF Delete, Tombstones, ring, billing, session
<1>6. ASSUME NEW h \in Handlers, StartValidate(h) PROVE TypeOK'
  BY <1>6 DEF StartValidate, Row, row, ring, billing
<1>7. ASSUME NEW h \in Handlers, NEW ok \in BOOLEAN, FinishValidate(h, ok) PROVE TypeOK'
  BY <1>7 DEF FinishValidate, Stored, Outcome, Done, NoCopy, ring, billing
<1>8. ASSUME NEW h \in Handlers, StartRotate(h) PROVE TypeOK'
  BY <1>8 DEF StartRotate, Row, row, ring, billing
<1>9. ASSUME NEW h \in Handlers, FinishRotate(h) PROVE TypeOK'
  BY <1>9 DEF FinishRotate, NewKeyId, Done, NoCopy, ring, billing
<1>10. ASSUME NEW h \in Handlers, Fail(h) PROVE TypeOK'
  BY <1>10 DEF Fail, Done, NoCopy, row, ring, billing
<1>11. ASSUME NEW i \in Invoices, Enqueue(i) PROVE TypeOK'
  BY <1>11 DEF Enqueue, row, ring, session
<1>12. ASSUME NEW i \in Invoices, InvoiceEnds(i) PROVE TypeOK'
  BY <1>12 DEF InvoiceEnds, row, ring, session
<1>13. ASSUME AddKey PROVE TypeOK'
  BY <1>13 DEF AddKey, Restart, NoCopy, row, billing
<1>14. ASSUME NEW k \in keyring, RetireKey(k) PROVE TypeOK'
  BY <1>14 DEF RetireKey, Restart, NoCopy, row, billing
<1>15. CASE UNCHANGED vars
  BY <1>15 DEF vars, row, ring, billing, session
<1>16. QED
  BY <1>1, <1>2, <1>3, <1>4, <1>5, <1>6, <1>7, <1>8, <1>9, <1>10, <1>11, <1>12, <1>13,
     <1>14, <1>15 DEF Next

(* The variables of a fiscal profile have their types in every behaviour. *)
THEOREM Typing == Spec => []TypeOK
<1>1. Init => TypeOK
  <2> SUFFICES ASSUME Init PROVE TypeOK
    OBVIOUS
  <2>1. overtaken \in BOOLEAN
    BY Zenon DEF Init
  <2>2. QED
    BY <2>1, ConstantsAssumption DEF Init, TypeOK, Copies, Steps, ProfileStatuses, NoCopy
<1>2. QED
  BY <1>1, TypingStep, PTL DEF Spec

-----------------------------------------------------------------------------
(***************************************************************************)
(* Decryption, and the identity of what is queued: with every operation.   *)
(***************************************************************************)

(* Who validates or rotates has read a row, and rows are never removed. *)
RowExists == \A h \in Handlers : pc[h] \in {"query", "rotate"} => status # "absent"

(* A queued invoice was copied from the row as it is, whose key the        *)
(* keyring has.                                                            *)
Kept == Decryptable /\ QueuedKeepTheirIdentity /\ RowExists

(* Every step keeps secrets decryptable and queued invoices on their row. *)
LEMMA KeptStep == TypeOK /\ Kept /\ [Next]_vars => Kept'
<1> SUFFICES ASSUME TypeOK, Kept, [Next]_vars PROVE Kept'
  OBVIOUS
<1> USE ConstantsAssumption
    DEF TypeOK, Steps, ProfileStatuses, Kept, RowExists, Decryptable,
        QueuedKeepTheirIdentity, Found
<1>1. ASSUME NEW h \in Handlers, Upsert(h) PROVE Kept'
  BY <1>1 DEF Upsert, Replaceable, Write, StatusReplaced, ring, billing, session
<1>2. ASSUME NEW h \in Handlers, StartInsert(h) PROVE Kept'
  BY <1>2 DEF StartInsert, row, ring, billing
<1>3. ASSUME NEW h \in Handlers, Insert(h) PROVE Kept'
  BY <1>3 DEF Insert, Write, Done, ring, billing
<1>4. ASSUME NEW h \in Handlers, InsertCollides(h) PROVE Kept'
  BY <1>4 DEF InsertCollides, Done, row, ring, billing
<1>5. ASSUME NEW h \in Handlers, Delete(h) PROVE Kept'
  BY <1>5 DEF Delete, Replaceable, ring, billing, session
<1>6. ASSUME NEW h \in Handlers, StartValidate(h) PROVE Kept'
  BY <1>6 DEF StartValidate, row, ring, billing
<1>7. ASSUME NEW h \in Handlers, NEW ok \in BOOLEAN, FinishValidate(h, ok) PROVE Kept'
  BY <1>7 DEF FinishValidate, Stored, Outcome, Done, ring, billing
<1>8. ASSUME NEW h \in Handlers, StartRotate(h) PROVE Kept'
  BY <1>8 DEF StartRotate, row, ring, billing
<1>9. ASSUME NEW h \in Handlers, FinishRotate(h) PROVE Kept'
  BY <1>9 DEF FinishRotate, NewKeyId, Done, ring, billing
<1>10. ASSUME NEW h \in Handlers, Fail(h) PROVE Kept'
  BY <1>10 DEF Fail, Done, row, ring, billing
<1>11. ASSUME NEW i \in Invoices, Enqueue(i) PROVE Kept'
  BY <1>11 DEF Enqueue, row, ring, session
<1>12. ASSUME NEW i \in Invoices, InvoiceEnds(i) PROVE Kept'
  BY <1>12 DEF InvoiceEnds, row, ring, session
<1>13. ASSUME AddKey PROVE Kept'
  BY <1>13 DEF AddKey, Restart, row, billing
<1>14. ASSUME NEW k \in keyring, RetireKey(k) PROVE Kept'
  BY <1>14 DEF RetireKey, Restart, row, billing
<1>15. CASE UNCHANGED vars
  BY <1>15 DEF vars, row, ring, billing, session
<1>16. QED
  BY <1>1, <1>2, <1>3, <1>4, <1>5, <1>6, <1>7, <1>8, <1>9, <1>10, <1>11, <1>12, <1>13,
     <1>14, <1>15 DEF Next

(* Kept is an invariant, with everything the two properties follow from. *)
LEMMA KeptAlways == Spec => []Kept
<1>1. Init => Kept
  BY DEF Init, Kept, RowExists, Decryptable, QueuedKeepTheirIdentity
<1>2. QED
  BY <1>1, KeptStep, Typing, PTL DEF Spec

(* Whoever rotates, replaces, validates or deletes at the same time, and   *)
(* however keys are added and retired by the runbook, the stored secrets   *)
(* can be decrypted.                                                       *)
THEOREM SecretsReadable == Spec => []Decryptable
BY KeptAlways, PTL DEF Kept

(* Replacement and deletion wait for the queue to drain: an invoice is     *)
(* issued with the CUIT and the point of sale it was queued with.          *)
THEOREM IdentityKept == Spec => []QueuedKeepTheirIdentity
BY KeptAlways, PTL DEF Kept

-----------------------------------------------------------------------------
(***************************************************************************)
(* The other promises, until a replaced row is written over.               *)
(***************************************************************************)

(* The credentials of a live profile are those of its identity, tested if  *)
(* it is valid.                                                            *)
Promises ==
  /\ Found => secrets = identity
  /\ status = "valid" => <<secrets, identity>> \in tested

(* No credential set has a number that an upsert has yet to give. *)
Numbered ==
  /\ identity <= upserts /\ secrets <= upserts
  /\ \A h \in Handlers : copy[h].secrets <= upserts

Clean == Numbered /\ (~overtaken => Promises)

(* Every step keeps the promises, or replaces a row unseen. *)
LEMMA CleanStep == TypeOK /\ Clean /\ [Next]_vars => Clean'
<1> SUFFICES ASSUME TypeOK, Clean, [Next]_vars PROVE Clean'
  OBVIOUS
<1> USE DEF TypeOK, Copies, Steps, ProfileStatuses, Clean, Promises, Numbered, Found
<1>1. ASSUME NEW h \in Handlers, Upsert(h) PROVE Clean'
  BY <1>1 DEF Upsert, Write, StatusReplaced, session
<1>2. ASSUME NEW h \in Handlers, StartInsert(h) PROVE Clean'
  BY <1>2 DEF StartInsert, row
<1>3. ASSUME NEW h \in Handlers, Insert(h) PROVE Clean'
  BY <1>3 DEF Insert, Write, Done, NoCopy
<1>4. ASSUME NEW h \in Handlers, InsertCollides(h) PROVE Clean'
  BY <1>4 DEF InsertCollides, Done, NoCopy, row
<1>5. ASSUME NEW h \in Handlers, Delete(h) PROVE Clean'
  BY <1>5 DEF Delete, Tombstones, session
<1>6. ASSUME NEW h \in Handlers, StartValidate(h) PROVE Clean'
  BY <1>6 DEF StartValidate, Row, row
<1>7. ASSUME NEW h \in Handlers, NEW ok \in BOOLEAN, FinishValidate(h, ok) PROVE Clean'
  <2>1. ~overtaken' => ~overtaken /\ ~Replaced(h)
    BY <1>7, Zenon DEF FinishValidate
  <2>2. Numbered'
    BY <1>7 DEF FinishValidate, Done, NoCopy
  <2>3. ~overtaken' => Promises'
    BY <1>7, <2>1 DEF FinishValidate, Replaced, Stored, Outcome, Done
  <2>4. QED
    BY <2>2, <2>3, Zenon
<1>8. ASSUME NEW h \in Handlers, StartRotate(h) PROVE Clean'
  BY <1>8 DEF StartRotate, Row, row
<1>9. ASSUME NEW h \in Handlers, FinishRotate(h) PROVE Clean'
  <2>1. ~overtaken' => ~overtaken /\ ~Replaced(h)
    BY <1>9, Zenon DEF FinishRotate
  <2>2. Numbered'
    BY <1>9 DEF FinishRotate, Done, NoCopy
  <2>3. ~overtaken' => Promises'
    BY <1>9, <2>1 DEF FinishRotate, Replaced, Done
  <2>4. QED
    BY <2>2, <2>3, Zenon
<1>10. ASSUME NEW h \in Handlers, Fail(h) PROVE Clean'
  BY <1>10 DEF Fail, Done, NoCopy, row
<1>11. ASSUME NEW i \in Invoices, Enqueue(i) \/ InvoiceEnds(i) PROVE Clean'
  BY <1>11 DEF Enqueue, InvoiceEnds, row, session
<1>12. ASSUME AddKey \/ \E k \in keyring : RetireKey(k) PROVE Clean'
  <2>1. Restart /\ UNCHANGED <<row, upserts, tested, overtaken>>
    BY <1>12 DEF AddKey, RetireKey
  <2>2. \A h \in Handlers : copy'[h].secrets = 0
    BY <2>1 DEF Restart, NoCopy
  <2>3. Numbered' /\ (Promises <=> Promises') /\ (overtaken' <=> overtaken)
    BY <2>1, <2>2 DEF row
  <2>4. QED
    BY <2>3, Zenon
<1>13. CASE UNCHANGED vars
  <2>1. Numbered' /\ (Promises <=> Promises') /\ (overtaken' <=> overtaken)
    BY <1>13 DEF vars, row, session
  <2>2. QED
    BY <2>1, Zenon
<1>14. QED
  BY <1>1, <1>2, <1>3, <1>4, <1>5, <1>6, <1>7, <1>8, <1>9, <1>10, <1>11, <1>12, <1>13
  DEF Next

(* Clean is an invariant, with the types and the queue it is used with. *)
LEMMA CleanAlways == Spec => [](TypeOK /\ Kept /\ Clean)
<1>1. Init => Clean
  BY DEF Init, Clean, Promises, Numbered, Found, NoCopy
<1>2. QED
  BY <1>1, CleanStep, KeptAlways, Typing, PTL DEF Spec

(* A profile is valid only for the credentials that passed the live query, *)
(* until a replaced row is written over.                                   *)
THEOREM ValidWasTested == Spec => []ValidMeansTested
<1>1. Clean => ValidMeansTested
  BY DEF Clean, Promises, ValidMeansTested
<1>2. QED
  BY <1>1, CleanAlways, PTL

(* Queued invoices are issued with the credentials of their identity,      *)
(* until a replaced row is written over.                                   *)
THEOREM SecretsKept == Spec => []QueuedKeepTheirSecrets
<1>1. Clean /\ Kept => QueuedKeepTheirSecrets
  BY DEF Clean, Promises, Kept, QueuedKeepTheirIdentity, QueuedKeepTheirSecrets
<1>2. QED
  BY <1>1, CleanAlways, PTL

=============================================================================
