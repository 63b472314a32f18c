\* Two managers, two runs of the review, one edit, one fault.
CONSTANTS
  m1 = m1
  m2 = m2
  Managers <- MCManagers
  MaxReviewCycles = 2
  MaxNoChangeReviewRounds = 1
  MaxAttempts = 2
  MaxEdits = 1
  MaxFaults = 1
SPECIFICATION Spec
SYMMETRY Symmetry
CHECK_DEADLOCK FALSE
INVARIANTS OneReviewTurn WaitingIsHeldOnce OneAutomaticContinuation
PROPERTY AcceptedAsReviewed
