SPECIFICATION Spec
CONSTANTS
  c1 = c1
  c2 = c2
  Runtimes = {c1, c2}
  NoOne = NoOne
  MaxSubs = 1
  MaxTries = 1
  MaxEdits = 0
  MaxFaults = 2
  FaultKinds = {"stall"}
SYMMETRY RuntimeSymmetry
PROPERTY FenceIsKept
CHECK_DEADLOCK FALSE
