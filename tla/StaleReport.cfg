SPECIFICATION Spec
CONSTANTS
  a1 = a1
  d1 = d1
  d2 = d2
  b1 = b1
  s1 = s1
  b2 = b2
  main = main
  fast = fast
  web = web
  None = None
  Account = {a1}
  Decision = {d1}
  Intent = {b1}
  OrderId = {o1}
  Leg <- BuyLeg
  Plan <- SamePlan
  InitialCash = 100
  InitialQuantity = 1
  FeeNum = 1
  FeeDen = 20
  Legacy = {}
  Thread = {fast, web}
  Jobs <- TwoThreads
  DayLen = 3
  OpenClocks = {0, 1}
  MaxTime = 0
  MaxRequests = 3
  MaxCrashes = 0
  PlaceOutcomes = {"accepted"}
INVARIANTS
  OpenCanBeClosed
