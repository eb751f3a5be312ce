\* Every exchange of every caller, with lost and unreadable replies.
SPECIFICATION Spec
CONSTANTS
  None = None
  Items <- MCItems
  Rates <- MCRates
  MaxItems = 3
  MaxMoney = 20000
  Faults = {"unreadable_reply"}
INVARIANTS
  PartsAddUp
  NetFollowsRate
  OutcomeFollowsVerdict
  AbsentMeansAbsent
  SentOnlyIfAllowed
CHECK_DEADLOCK FALSE
