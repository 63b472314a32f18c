SPECIFICATION FairSpec
CONSTANTS
  c1 = c1
  Runtimes = {c1}
  NoOne = NoOne
  MaxSubs = 1
  MaxTries = 1
  MaxEdits = 0
  MaxFaults = 2
  FaultKinds = {"busy", "claim"}
PROPERTY SubmissionEnds
CHECK_DEADLOCK FALSE
