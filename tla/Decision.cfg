SPECIFICATION FairSpec
CONSTANTS
  Account = {a1}
  Thread = {t1, t2}
  None = None
  LastDay = 3
  Session <- MCSession
  Sizing <- MCSizing
  InitialPosition = 1
  MaxPosition = 2
  MaxFees = 1
  MaxFaults = 1
  MaxRequests = 2
INVARIANTS DoneMeansIssued PendingFitsPosition
PROPERTIES ImplementsBook DrainedIsQuiet EveningDecides
CHECK_DEADLOCK FALSE
