CONSTANTS
  m1 = m1
  m2 = m2
  Managers <- MCOne
  MaxReviewCycles = 1
  MaxNoChangeReviewRounds = 1
  MaxAttempts = 2
  MaxEdits = 1
  MaxFaults = 2
SPECIFICATION LiveSpec
CHECK_DEADLOCK FALSE
INVARIANTS
  TypeOK
  OneAutomaticContinuation
PROPERTIES
  FlightEnds
