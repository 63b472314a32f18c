\* One workflow, two answers, two continuations, two faults.
SPECIFICATION LiveSpec
CONSTANTS
  MaxAnswers = 2
  MaxResumes = 2
  MaxFaults = 2
INVARIANTS OnePlannerTurn WaitingIsHeldOnce BudgetsHold CancelStopsTheTurn
PROPERTIES PlanIsCurrent CallsAndStopsEnd
CHECK_DEADLOCK FALSE
