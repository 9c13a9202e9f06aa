SPECIFICATION FairSpec
CONSTANTS
  a1 = a1
  d1 = d1
  d2 = d2
  b1 = b1
  s1 = s1
  b2 = b2
  main = main
  fast = fast
  web = web
  None = None
  Account = {a1}
  Decision = {d1}
  Intent = {b1}
  OrderId = {o1}
  Leg <- LegacyLeg
  Plan <- SamePlan
  InitialCash = 100
  InitialQuantity = 1
  FeeNum = 1
  FeeDen = 20
  Legacy = {b1}
  Thread = {main}
  Jobs <- AllJobs
  DayLen = 2
  OpenClocks = {0, 1}
  MaxTime = 3
  MaxRequests = 2
  MaxCrashes = 2
  PlaceOutcomes = {"accepted", "lost", "never", "REJECTED"}
INVARIANTS
  OpenCanBeClosed
  OpenBuysAreFunded
  LedgerAgrees
  FrozenIsOutstanding
PROPERTIES
  OutcomesAreBooked
  StoreSpec
  IncompleteEndsAreReviewed
