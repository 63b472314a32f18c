SPECIFICATION Spec
CONSTANTS
  MaxAnswers = 0
  MaxResumes = 0
  MaxFaults = 0
INVARIANTS
  MarkerIsSettled
CHECK_DEADLOCK FALSE
