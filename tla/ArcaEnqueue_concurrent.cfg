\* Three handlers, two environments, repeated, completed and conflicting requests.
SPECIFICATION Spec
CONSTANTS
  None = None
  x1 = x1
  x2 = x2
  s1 = s1
  s2 = s2
  Handlers = {h1, h2, h3}
  Environments = {"development", "production"}
  Externals = {x1, x2}
  Sales = {s1, s2}
  Numbers = {1, 2}
  Contents = {"large", "small"}
  Large = {"large"}
  Requests <- MCRequests
  MaxCalls = 4
SYMMETRY Symmetry
INVARIANTS
  TypeOK
  OneInvoicePerSale
  AcceptedIsStored
  OneNumberPerInvoice
  OneInvoicePerNumber
CHECK_DEADLOCK FALSE
