\* Fair workers under everything the environment may do, except outliving a
\* lease: every queued invoice ends, and ARCA authorises it at most once.
SPECIFICATION FairSpec
CONSTANTS
  None = None
  Invoices = {i1, i2}
  Workers = {w1, w2}
  MaxAttempts = 2
  MaxCrashes = 1
  ExplicitNumbers = {}
  InitialLast = 0
  MaxForeign = 1
  Faults = {"late_delivery", "garbled_reply", "refused_query"}
INVARIANTS
  OneVoucherPerInvoice
  DurableReservation
PROPERTIES
  EveryInvoiceEnds
CHECK_DEADLOCK FALSE
