--------------------------- MODULE FiscalProfile ---------------------------
(***************************************************************************)
(* The fiscal profile of one tenant and environment: the credentials with  *)
(* which invoices are issued (app/arca/service.py, FiscalProfileService,   *)
(* and the rotate-keyring endpoint of app/arca/router_internal.py).        *)
(*                                                                         *)
(* Handlers serve requests concurrently.  upsert, delete and enqueue lock  *)
(* the row of the profile from their first read to their commit, so each   *)
(* is one step here; validate and rotate-keyring read the row, work and    *)
(* write it back without a lock.  A credential set is named by the number  *)
(* of the upsert that brought it; 0 stands for the tombstones of delete.   *)
(***************************************************************************)
EXTENDS Naturals, FiniteSets

CONSTANTS
  Handlers,    \* threads of the API that serve requests
  Invoices,    \* invoices of the profile
  None,        \* nothing in hand
  MaxUpserts,  \* how many credential sets a behaviour brings
  MaxKeys,     \* how many master keys the keyring ever has
  Operations   \* what the handlers do, a subset of AllOperations

AllOperations == {"upsert", "delete", "validate", "rotate"}

ASSUME ConstantsAssumption ==
  /\ MaxUpserts \in Nat
  /\ MaxKeys \in Nat \ {0}
  /\ Operations \subseteq AllOperations
  /\ None \notin Nat

VARIABLES
  status,    \* validation_status of the row, "absent" without one
  secrets,   \* the credential set under the three encrypted columns
  identity,  \* the set whose CUIT, fingerprint and point of sale are stored
  keyId,     \* credential_key_id
  cipherKey, \* the master key the encrypted columns are really under
  open,      \* invoices whose status is not terminal
  snapshot,  \* [Invoices -> set number or None]: identity when enqueued
  keyring,   \* master keys the instances have
  active,    \* the active master key
  upserts,   \* credential sets so far
  tested,    \* <<secrets, identity>> for which a live query succeeded
  pc,        \* [Handlers -> Steps]
  copy,      \* [Handlers -> row as the handler's session read it]
  overtaken  \* history: a row was written that had been replaced meanwhile

row     == <<status, secrets, identity, keyId, cipherKey>>
ring    == <<keyring, active>>
billing == <<open, snapshot>>
session == <<pc, copy>>
vars    == <<row, ring, billing, upserts, tested, session, overtaken>>

ProfileStatuses == {"absent", "pending", "valid", "invalid", "deleted"}
Steps == {"idle", "insert", "query", "rotate"}
Copies == [status : ProfileStatuses, secrets : Nat, identity : Nat]

Row == [status |-> status, secrets |-> secrets, identity |-> identity]
NoCopy == [status |-> "absent", secrets |-> 0, identity |-> 0]

Init ==
  /\ status = "absent"
  /\ secrets = 0
  /\ identity = 0
  /\ keyId = 1
  /\ cipherKey = 1
  /\ open = {}
  /\ snapshot = [i \in Invoices |-> None]
  /\ keyring = {1}
  /\ active = 1
  /\ upserts = 0
  /\ tested = {}
  /\ pc = [h \in Handlers |-> "idle"]
  /\ copy = [h \in Handlers |-> NoCopy]
  /\ overtaken = FALSE

(* get leaves deleted profiles out. *)
Found == status \notin {"absent", "deleted"}

(* The row was replaced or deleted since the handler read it. *)
Replaced(h) == ~Found \/ copy[h].secrets # secrets \/ copy[h].identity # identity

Done(h) ==
  /\ pc' = [pc EXCEPT ![h] = "idle"]
  /\ copy' = [copy EXCEPT ![h] = NoCopy]

(***************************************************************************)
(* PUT /profiles: upsert.                                                  *)
(***************************************************************************)

(* The columns of a new credential set, encrypted under the active key. *)
Write(n) ==
  /\ secrets' = n
  /\ identity' = n
  /\ keyId' = active
  /\ cipherKey' = active

(* A replacement waits for live validation again.  Mutation: it keeps the  *)
(* status the row had.                                                     *)
StatusKept == status
StatusReplaced == "pending"

(* No invoice of the profile may be pending.  Mutation: it is not asked. *)
AlwaysReplaceable == TRUE
Replaceable == open = {}

Upsert(h) ==
  /\ "upsert" \in Operations
  /\ pc[h] = "idle" /\ upserts < MaxUpserts
  /\ status # "absent"
  /\ Replaceable
  /\ upserts' = upserts + 1
  /\ status' = StatusReplaced
  /\ Write(upserts + 1)
  /\ UNCHANGED <<ring, billing, tested, session, overtaken>>

(* There is no row to lock: two first upserts may both insert one, ...     *)
StartInsert(h) ==
  /\ "upsert" \in Operations
  /\ pc[h] = "idle" /\ upserts < MaxUpserts
  /\ status = "absent"
  /\ upserts' = upserts + 1
  /\ pc' = [pc EXCEPT ![h] = "insert"]
  /\ copy' = [copy EXCEPT ![h].secrets = upserts + 1]
  /\ UNCHANGED <<row, ring, billing, tested, overtaken>>

Insert(h) ==
  /\ pc[h] = "insert"
  /\ status = "absent"
  /\ status' = "pending"
  /\ Write(copy[h].secrets)
  /\ Done(h)
  /\ UNCHANGED <<ring, billing, upserts, tested, overtaken>>

(* ... and uq_arca_profile_tenant_environment refuses the second (HTTP 500). *)
InsertCollides(h) ==
  /\ pc[h] = "insert"
  /\ status # "absent"
  /\ Done(h)
  /\ UNCHANGED <<row, ring, billing, upserts, tested, overtaken>>

(***************************************************************************)
(* DELETE /profiles: the secrets are overwritten with tombstones.          *)
(***************************************************************************)

Tombstones == 0

Delete(h) ==
  /\ "delete" \in Operations
  /\ pc[h] = "idle"
  /\ Found
  /\ Replaceable
  /\ status' = "deleted"
  /\ secrets' = Tombstones
  /\ keyId' = active
  /\ cipherKey' = active
  /\ UNCHANGED <<identity, ring, billing, upserts, tested, session, overtaken>>

(***************************************************************************)
(* POST /profiles/validate: a live query with the credentials read before. *)
(***************************************************************************)
StartValidate(h) ==
  /\ "validate" \in Operations
  /\ pc[h] = "idle"
  /\ Found
  /\ keyId \in keyring /\ cipherKey = keyId
  /\ pc' = [pc EXCEPT ![h] = "query"]
  /\ copy' = [copy EXCEPT ![h] = Row]
  /\ UNCHANGED <<row, ring, billing, upserts, tested, overtaken>>

(* The session writes the attributes that differ from what it has read. *)
Stored(h, s) == IF s = copy[h].status THEN status ELSE s

Outcome(ok) == IF ok THEN "valid" ELSE "invalid"

(* The query succeeded or failed, for whatever reason, timeouts included. *)
FinishValidate(h, ok) ==
  /\ pc[h] = "query"
  /\ tested' = IF ok THEN tested \cup {<<copy[h].secrets, copy[h].identity>>} ELSE tested
  /\ status' = Stored(h, Outcome(ok))
  /\ overtaken' = (overtaken \/ Replaced(h))
  /\ Done(h)
  /\ UNCHANGED <<secrets, identity, keyId, cipherKey, ring, billing, upserts>>

(***************************************************************************)
(* POST /profiles/rotate-keyring: the secrets are encrypted again under    *)
(* the active key.                                                         *)
(***************************************************************************)
StartRotate(h) ==
  /\ "rotate" \in Operations
  /\ pc[h] = "idle"
  /\ Found
  /\ keyId # active
  /\ keyId \in keyring /\ cipherKey = keyId
  /\ pc' = [pc EXCEPT ![h] = "rotate"]
  /\ copy' = [copy EXCEPT ![h] = Row]
  /\ UNCHANGED <<row, ring, billing, upserts, tested, overtaken>>

(* credential_key_id after a rotation.  Mutations: it is left as it was;   *)
(* it names the key that the next rotation will bring.                     *)
OldKeyId == keyId
NextKeyId == active + 1
NewKeyId == active

FinishRotate(h) ==
  /\ pc[h] = "rotate"
  /\ secrets' = copy[h].secrets
  /\ cipherKey' = active
  /\ keyId' = NewKeyId
  /\ overtaken' = (overtaken \/ Replaced(h))
  /\ Done(h)
  /\ UNCHANGED <<status, identity, ring, billing, upserts, tested>>

(* A request fails, or its process dies, before its commit. *)
Fail(h) ==
  /\ pc[h] # "idle"
  /\ Done(h)
  /\ UNCHANGED <<row, ring, billing, upserts, tested, overtaken>>

(***************************************************************************)
(* Invoices: enqueue locks the profile and copies its fiscal identity, and *)
(* the worker takes the invoice to a terminal status.                      *)
(***************************************************************************)
Enqueue(i) ==
  /\ snapshot[i] = None
  /\ status = "valid"
  /\ open' = open \cup {i}
  /\ snapshot' = [snapshot EXCEPT ![i] = identity]
  /\ UNCHANGED <<row, ring, upserts, tested, session, overtaken>>

InvoiceEnds(i) ==
  /\ i \in open
  /\ open' = open \ {i}
  /\ UNCHANGED <<row, snapshot, ring, upserts, tested, session, overtaken>>

(***************************************************************************)
(* The operator, by docs/arca_invoicing_service.txt, section 13.1: a key   *)
(* is added and made active, and retired when no profile refers to it.     *)
(* Each change restarts the instances, which ends the requests they serve. *)
(***************************************************************************)
Restart ==
  /\ pc' = [h \in Handlers |-> "idle"]
  /\ copy' = [h \in Handlers |-> NoCopy]

AddKey ==
  /\ active < MaxKeys
  /\ active' = active + 1
  /\ keyring' = keyring \cup {active + 1}
  /\ Restart
  /\ UNCHANGED <<row, billing, upserts, tested, overtaken>>

RetireKey(k) ==
  /\ k \in keyring \ {active}
  /\ status # "absent" => keyId # k
  /\ keyring' = keyring \ {k}
  /\ Restart
  /\ UNCHANGED <<row, active, billing, upserts, tested, overtaken>>

Next ==
  \/ \E h \in Handlers :
       \/ Upsert(h)
       \/ StartInsert(h)
       \/ Insert(h)
       \/ InsertCollides(h)
       \/ Delete(h)
       \/ StartValidate(h)
       \/ \E ok \in BOOLEAN : FinishValidate(h, ok)
       \/ StartRotate(h)
       \/ FinishRotate(h)
       \/ Fail(h)
  \/ \E i \in Invoices : Enqueue(i) \/ InvoiceEnds(i)
  \/ AddKey
  \/ \E k \in keyring : RetireKey(k)

Spec == Init /\ [][Next]_vars

-----------------------------------------------------------------------------
(* Every variable has its type. *)
TypeOK ==
  /\ status \in ProfileStatuses
  /\ secrets \in Nat
  /\ identity \in Nat
  /\ keyId \in 1 .. active
  /\ cipherKey \in 1 .. active
  /\ open \subseteq Invoices
  /\ snapshot \in [Invoices -> Nat \cup {None}]
  /\ keyring \subseteq 1 .. active
  /\ active \in keyring
  /\ upserts \in Nat
  /\ tested \subseteq Nat \X Nat
  /\ pc \in [Handlers -> Steps]
  /\ copy \in [Handlers -> Copies]
  /\ overtaken \in BOOLEAN

(* Stored secrets can be decrypted: a key is retired only when nothing is  *)
(* encrypted under it.                                                     *)
Decryptable == status # "absent" => cipherKey = keyId /\ keyId \in keyring

(* "No se puede reemplazar o eliminar un perfil con facturas no            *)
(* terminales": an invoice is issued with the CUIT and the point of sale   *)
(* it was queued with.                                                     *)
QueuedKeepTheirIdentity ==
  \A i \in open : snapshot[i] = identity /\ Found

(* The other promises hold until validate or rotate-keyring, which lock    *)
(* nothing, write over a row replaced since they read it.  "Antes           *)
(* de emitir": a profile is valid only if the live query succeeded with    *)
(* the credentials and the fiscal identity it has.                         *)
ValidMeansTested ==
  ~overtaken => (status = "valid" => <<secrets, identity>> \in tested)

(* An invoice is issued with the credentials of the identity it was queued *)
(* with.                                                                   *)
QueuedKeepTheirSecrets ==
  ~overtaken => \A i \in open : snapshot[i] = secrets

(* "Elimina logicamente el perfil": only a new upsert, which gives a new   *)
(* identity, brings a deleted profile back.                                *)
DeletedStaysDeleted ==
  [][status = "deleted" /\ status' # "deleted" => identity' # identity]_vars

=============================================================================
