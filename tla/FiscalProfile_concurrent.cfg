\* Three handlers, every operation, keys added and retired.
SPECIFICATION Spec
CONSTANTS
  Handlers = {h1, h2, h3}
  Invoices = {i1}
  None = None
  MaxUpserts = 2
  MaxKeys = 2
  Operations = {"upsert", "delete", "validate", "rotate"}
SYMMETRY Symmetry
INVARIANTS
  TypeOK
  Decryptable
  QueuedKeepTheirIdentity
  ValidMeansTested
  QueuedKeepTheirSecrets
CHECK_DEADLOCK FALSE
