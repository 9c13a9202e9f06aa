SPECIFICATION Spec
CONSTANTS
  r1 = r1
  r2 = r2
  r3 = r3
  None = None
  Release = {r1, r2}
  First = r1
  Writes <- ForwardWrites
  Reads <- ForwardReads
  Proc = {1, 2, 3}
  Threshold = 2
  StartProbes = 1
  MaxFaults = 0
  MaxOps = 3
INVARIANTS
  ActiveCanStart
CHECK_DEADLOCK FALSE
