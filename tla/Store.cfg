SPECIFICATION MCSpec
CONSTANTS
  a1 = a1
  d1 = d1
  d2 = d2
  b1 = b1
  b2 = b2
  o1 = o1
  None = None
  Account = {a1}
  Decision = {d1, d2}
  Intent = {b1, b2}
  OrderId = {o1}
  Leg <- MCLeg
  Plan <- MCPlan
  InitialCash = 70
  InitialQuantity = 1
  FeeNum = 1
  FeeDen = 20
  Legacy = {}
INVARIANTS
  StoreTypeOK
  LedgerAgrees
  BalancesNonNegative
  OneDecisionPerSignalDate
  OrdersBelongToOneIntent
