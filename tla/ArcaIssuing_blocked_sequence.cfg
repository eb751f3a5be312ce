\* Two automatic invoices; nothing but refusals, losses and timeouts.
SPECIFICATION Spec
CONSTANTS
  None = None
  Invoices = {i1, i2}
  Workers = {w1, w2}
  MaxAttempts = 3
  MaxCrashes = 0
  ExplicitNumbers = {}
  InitialLast = 0
  MaxForeign = 0
  Faults = {}
SYMMETRY Symmetry
INVARIANTS
  BusyMeansReserved
CHECK_DEADLOCK FALSE
