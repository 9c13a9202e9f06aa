SPECIFICATION Spec
CONSTANTS
  s1 = s1 s2 = s2
  Session = {s1, s2}
  Candidate = {c1}
  None = None
  MaxVersion = 1
  MaxOps = 3
  MaxFaults = 1
SYMMETRY Symmetry
INVARIANTS TradableIsSealed
CHECK_DEADLOCK FALSE
