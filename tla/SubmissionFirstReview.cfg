SPECIFICATION Spec
CONSTANTS
  c1 = c1
  c2 = c2
  Runtimes = {c1, c2}
  NoOne = NoOne
  MaxSubs = 1
  MaxTries = 1
  MaxEdits = 0
  MaxFaults = 1
  FaultKinds = {"busy"}
SYMMETRY RuntimeSymmetry
INVARIANT FirstReviewIsRetried
CHECK_DEADLOCK FALSE
