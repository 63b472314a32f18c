SPECIFICATION Spec
CONSTANTS
  c1 = c1
  c2 = c2
  Runtimes = {c1, c2}
  NoOne = NoOne
  MaxSubs = 1
  MaxTries = 2
  MaxEdits = 0
  MaxFaults = 3
  FaultKinds = {"startup", "busy", "terminal", "authority", "enqueue", "claim", "stall", "crash", "close"}
SYMMETRY RuntimeSymmetry
INVARIANTS ReviewedOnce MintedOnce VerdictSurvives
PROPERTIES NeverBackwards FenceIsNotCleared
CHECK_DEADLOCK FALSE
