\* One late handler voids a verdict after its delivery.
CONSTANTS
  c1 = c1
  c2 = c2
  NoOne = NoOne
  Legacy = Legacy
  Runtimes <- MCRuntimes
  MaxRounds = 1
  MaxEdits = 1
  MaxManual = 0
  MaxFaults = 1
  StoreFaults <- MCNoFaults
SPECIFICATION Spec
CHECK_DEADLOCK FALSE
INVARIANT VoidIsReported
