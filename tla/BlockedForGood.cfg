SPECIFICATION Spec
CONSTANTS
  a1 = a1
  d1 = d1
  d2 = d2
  b1 = b1
  s1 = s1
  b2 = b2
  main = main
  fast = fast
  web = web
  None = None
  Account = {a1}
  Decision = {d1}
  Intent = {b1, b2}
  OrderId = {o1, o2}
  Leg <- SplitLeg
  Plan <- SamePlan
  InitialCash = 100
  InitialQuantity = 1
  FeeNum = 1
  FeeDen = 20
  Legacy = {}
  Thread = {main}
  Jobs <- SubmitJobs
  DayLen = 2
  OpenClocks = {0, 1}
  MaxTime = 1
  MaxRequests = 3
  MaxCrashes = 0
  PlaceOutcomes = {"accepted"}
INVARIANTS
  BlockedHasAWayOut
SYMMETRY Symmetry
