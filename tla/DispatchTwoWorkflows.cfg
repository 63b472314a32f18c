\* A plan for a directory is taken over while its session changes: two workflows.
SPECIFICATION Spec
CONSTANTS
  c1 = c1
  c2 = c2
  s1 = s1
  s2 = s2
  p1 = p1
  Cwd = Cwd
  NoOne = NoOne
  Legacy = Legacy
  Runtimes <- MCRuntimes
  Sessions <- MCTwoSessions
  Requests <- MCOnePlan
  Target <- MCToDirectory
  MaxRetryAttempts = 1
  MaxStarted = 0
  MaxFaults = 3
SYMMETRY MCSymmetry
INVARIANTS OneWorkflowPerRequest
CHECK_DEADLOCK FALSE
