\* One call, every configuration, request, image and model answer.
SPECIFICATION Spec
CONSTANTS
  None = None
  NaN = NaN
  Configurations <- MCConfigurations
  Requests <- MCRequests
  Names <- MCNames
  Images <- MCImages
  RawConfidences <- MCRawConfidences
  UsageMetadata <- MCUsageMetadata
INVARIANTS
  TypeOK
  ReportsOneCall
  NoUsableAnswerDropped
  CompletedIsAccepted
  UsageIsComplete
CHECK_DEADLOCK FALSE
