SPECIFICATION Spec
CONSTANTS
  s1 = s1 s2 = s2
  Session = {s1, s2}
  Candidate = {c1, c2}
  None = None
  MaxVersion = 2
  MaxOps = 5
  MaxFaults = 2
SYMMETRY Symmetry
INVARIANTS TypeOK SealsFitSubmission ApprovalFreezesOnce SealedIsComplete ApprovedCanResume
CHECK_DEADLOCK FALSE
