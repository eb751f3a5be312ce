\* Two requests, two workers, two worker deaths, ARCA failures and refusals,
\* internal errors, a profile that is validated again.
SPECIFICATION Spec
CONSTANTS
  None = None
  Invoices = {i1, i2}
  Workers = {w1, w2}
  MaxAttempts = 3
  MaxCrashes = 2
  ExplicitNumbers = {2}
  InitialLast = 0
  MaxForeign = 0
  Faults = {"no_cae", "internal", "revalidation"}
SYMMETRY Symmetry
INVARIANTS
  TypeOK
  ExclusiveClaim
  ApprovedWithOwnVoucher
  RejectedNeverAuthorised
  AttemptsBounded
PROPERTIES
  EndsByItsWorkerOnly
  NeverSentAgain
  KeepsItsPromise
CHECK_DEADLOCK FALSE
