\* A worker outlives its lease.
SPECIFICATION Spec
CONSTANTS
  None = None
  Invoices = {i1, i2}
  Workers = {w1, w2}
  MaxAttempts = 3
  MaxCrashes = 0
  ExplicitNumbers = {}
  InitialLast = 0
  MaxForeign = 0
  Faults = {"slow_worker"}
SYMMETRY Symmetry
INVARIANTS
  OneVoucherPerInvoice
CHECK_DEADLOCK FALSE
