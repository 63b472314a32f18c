\* A session may be busy with a workflow of its own; one fault (minutes to check).
SPECIFICATION LiveSpec
CONSTANTS
  c1 = c1
  c2 = c2
  s1 = s1
  s2 = s2
  p1 = p1
  Cwd = Cwd
  NoOne = NoOne
  Legacy = Legacy
  Runtimes <- MCRuntimes
  Sessions <- MCTwoSessions
  Requests <- MCOnePlan
  Target <- MCToDirectory
  MaxRetryAttempts = 1
  MaxStarted = 1
  MaxFaults = 1
PROPERTIES EveryPlanSettled
CHECK_DEADLOCK FALSE
