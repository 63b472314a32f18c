\* One plan for a directory in which two sessions work; two faults.
SPECIFICATION LiveSpec
CONSTANTS
  c1 = c1
  c2 = c2
  s1 = s1
  s2 = s2
  p1 = p1
  Cwd = Cwd
  NoOne = NoOne
  Legacy = Legacy
  Runtimes <- MCRuntimes
  Sessions <- MCTwoSessions
  Requests <- MCOnePlan
  Target <- MCToDirectory
  MaxRetryAttempts = 1
  MaxStarted = 0
  MaxFaults = 2
PROPERTIES EveryPlanSettled
CHECK_DEADLOCK FALSE
