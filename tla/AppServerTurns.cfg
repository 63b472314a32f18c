\* A Planner and a Reviewer, three starts, two faults.
CONSTANTS
  planner = planner
  reviewer = reviewer
  Callers <- MCCallers
  Reviewers <- MCReviewers
  MaxTurns = 3
  MaxFaults = 2
SPECIFICATION Spec
INVARIANTS ReleasedIsOver FailureIsItsOwn NoMissedWakeup TurnsAreOwned
CHECK_DEADLOCK FALSE
