\* A decision read before the record moved on is written over it.
CONSTANTS
  c1 = c1
  c2 = c2
  NoOne = NoOne
  Legacy = Legacy
  Runtimes <- MCRuntimes
  MaxRounds = 1
  MaxEdits = 1
  MaxManual = 0
  MaxFaults = 1
  StoreFaults <- MCNoFaults
SPECIFICATION Spec
CHECK_DEADLOCK FALSE
PROPERTY DecisionOnlyWhenWaiting
