\* One submission, two faults: it ends, and a failure reaches the session.
SPECIFICATION FairSpec
CONSTANTS
  c1 = c1
  c2 = c2
  Runtimes = {c1, c2}
  NoOne = NoOne
  MaxSubs = 1
  MaxTries = 1
  MaxEdits = 0
  MaxFaults = 2
  FaultKinds = {"startup", "busy", "terminal", "authority", "enqueue", "stall", "crash", "close"}
INVARIANTS VerdictSurvives
PROPERTIES FailureIsReported SubmissionEnds
CHECK_DEADLOCK FALSE
