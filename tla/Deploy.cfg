SPECIFICATION Spec
CONSTANTS
  r1 = r1
  r2 = r2
  r3 = r3
  None = None
  Release = {r1, r2, r3}
  First = r1
  Writes <- MCWrites
  Reads <- MCReads
  Proc = {1, 2, 3}
  Threshold = 2
  StartProbes = 1
  MaxFaults = 2
  MaxOps = 3
INVARIANTS
  TypeOK
  OneWriter
  NothingOutlivesStop
PROPERTIES
  ServiceReturns
CHECK_DEADLOCK FALSE
