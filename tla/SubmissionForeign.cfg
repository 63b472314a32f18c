SPECIFICATION FairSpec
CONSTANTS
  c1 = c1
  c2 = c2
  Runtimes = {c1, c2}
  NoOne = NoOne
  MaxSubs = 2
  MaxTries = 1
  MaxEdits = 1
  MaxFaults = 2
  FaultKinds = {"authority", "close"}
PROPERTY SubmissionEnds
CHECK_DEADLOCK FALSE
