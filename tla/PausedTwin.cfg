SPECIFICATION Spec
CONSTANTS
  Account = {a1}
  Thread = {t1, t2}
  None = None
  LastDay = 3
  Session <- MCSession
  Sizing <- MCSizing
  InitialPosition = 1
  MaxPosition = 2
  MaxFees = 1
  MaxFaults = 0
  MaxRequests = 3
INVARIANT SamePlanIsReused
CHECK_DEADLOCK FALSE
