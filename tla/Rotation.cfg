SPECIFICATION Spec
CONSTANTS
  a1 = a1
  d1 = d1
  d2 = d2
  b1 = b1
  s1 = s1
  b2 = b2
  main = main
  fast = fast
  web = web
  None = None
  Account = {a1}
  Decision = {d1}
  Intent = {b1, s1}
  OrderId = {o1, o2}
  Leg <- RotationLeg
  Plan <- SamePlan
  InitialCash = 100
  InitialQuantity = 1
  FeeNum = 1
  FeeDen = 20
  Legacy = {}
  Thread = {main}
  Jobs <- AllJobs
  DayLen = 3
  OpenClocks = {0, 1}
  MaxTime = 3
  MaxRequests = 3
  MaxCrashes = 1
  PlaceOutcomes = {"accepted", "lost", "never", "REJECTED"}
INVARIANTS
  TypeOK
  AtMostOneOrder
  DependencyFilledFirst
  FillsCanBeBooked
  PositionIsFills
  BalancesNonNegative
PROPERTIES
  EndedStaysEnded
  OrdersInSession
SYMMETRY Symmetry
