\* A profile is deleted while it is being validated.
SPECIFICATION Spec
CONSTANTS
  Handlers = {h1, h2}
  Invoices = {i1, i2}
  None = None
  MaxUpserts = 2
  MaxKeys = 2
  Operations = {"upsert", "delete", "validate"}
SYMMETRY Symmetry
PROPERTIES
  DeletedStaysDeleted
CHECK_DEADLOCK FALSE
