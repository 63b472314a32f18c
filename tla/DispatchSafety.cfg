\* One plan for one session, which may start a workflow itself; two faults.
SPECIFICATION Spec
CONSTANTS
  c1 = c1
  c2 = c2
  s1 = s1
  s2 = s2
  p1 = p1
  Cwd = Cwd
  NoOne = NoOne
  Legacy = Legacy
  Runtimes <- MCRuntimes
  Sessions <- MCOneSession
  Requests <- MCOnePlan
  Target <- MCToOne
  MaxRetryAttempts = 1
  MaxStarted = 1
  MaxFaults = 2
SYMMETRY MCSymmetry
INVARIANTS OneWorkflow OneTrueDelivery
CHECK_DEADLOCK FALSE
