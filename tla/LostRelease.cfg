SPECIFICATION FairSpec
CONSTANTS
  a1 = a1
  d1 = d1
  d2 = d2
  b1 = b1
  s1 = s1
  b2 = b2
  main = main
  fast = fast
  web = web
  None = None
  Account = {a1}
  Decision = {d1}
  Intent = {b1}
  OrderId = {o1}
  Leg <- BuyLeg
  Plan <- SamePlan
  InitialCash = 100
  InitialQuantity = 1
  FeeNum = 1
  FeeDen = 20
  Legacy = {}
  Thread = {main}
  Jobs <- SubmitJobs
  DayLen = 2
  OpenClocks = {0, 1}
  MaxTime = 2
  MaxRequests = 1
  MaxCrashes = 1
  PlaceOutcomes = {"accepted", "lost", "never", "REJECTED"}
PROPERTIES
  OutcomesAreBooked
