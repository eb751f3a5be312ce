\* Subscriptions and plans change, and a month ends, under two handlers.
SPECIFICATION BillingSpec
CONSTANTS
  None = None
  Unlimited = Unlimited
  k1 = k1
  k2 = k2
  k3 = k3
  basic = basic
  Keys <- MCKeys
  AmountOf <- MCAmountOf
  Handlers = {h1, h2}
  Months = 2
  Limits = {1, 2, Unlimited}
  MaxCalls = 3
  Kinds = {"check"}
  Stamps = {0}
  Plans <- MCPlans
  PlanCatalog <- MCPlanCatalog
  EditedRows <- MCEditedRows
  Statuses = {"active", "Active", "cancelled"}
  Lower <- MCLower
  MaxSubscriptions = 2
  ResourceCounts = {0, 2, 3}
SYMMETRY Symmetry
INVARIANTS
  QuotaRespected
  
