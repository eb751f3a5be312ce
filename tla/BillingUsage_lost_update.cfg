\* Two handlers add to one counter.
SPECIFICATION Spec
CONSTANTS
  None = None
  Unlimited = Unlimited
  k1 = k1
  k2 = k2
  k3 = k3
  Keys <- MCKeys
  AmountOf <- MCAmountOf
  Handlers = {h1, h2}
  Months = 2
  Limits = {2}
  MaxCalls = 3
  Kinds = {"consume", "check"}
  Stamps = {0}
SYMMETRY Symmetry
INVARIANTS
  CountersAreExact
