\* A workflow of a live session is cancelled by the recovery of another runtime.
SPECIFICATION Spec
CONSTANTS
  c1 = c1
  c2 = c2
  s1 = s1
  s2 = s2
  p1 = p1
  Cwd = Cwd
  NoOne = NoOne
  Legacy = Legacy
  Runtimes <- MCRuntimes
  Sessions <- MCOneSession
  Requests <- MCOnePlan
  Target <- MCToOne
  MaxRetryAttempts = 1
  MaxStarted = 0
  MaxFaults = 0
SYMMETRY MCSymmetry
PROPERTIES AbandonedWasGone
CHECK_DEADLOCK FALSE
