\* Three handlers, repeated keys, both endpoints, dated and undated requests.
SPECIFICATION Spec
CONSTANTS
  None = None
  Unlimited = Unlimited
  k1 = k1
  k2 = k2
  k3 = k3
  Keys <- MCPairOfKeys
  AmountOf <- MCPairAmountOf
  Handlers = {h1, h2, h3}
  Months = 2
  Limits = {1, Unlimited}
  MaxCalls = 3
  Kinds = {"consume", "check"}
  Stamps = {0, 1}
SYMMETRY Symmetry
INVARIANTS
  TypeOK
  AnswersAreTrue
  NeverOvercounted
  ConsumedOncePerKey
PROPERTIES
  RecordedWhereChecked
