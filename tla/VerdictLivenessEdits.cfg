\* One submission, an edit and two faults that the handler retries: also a voided
\* verdict reaches its end.
CONSTANTS
  c1 = c1
  c2 = c2
  NoOne = NoOne
  Legacy = Legacy
  Runtimes <- MCRuntimes
  MaxRounds = 1
  MaxEdits = 1
  MaxManual = 0
  MaxFaults = 2
  StoreFaults <- MCNoFaults
SPECIFICATION LiveSpec
PROPERTIES AppliedIsDelivered
CHECK_DEADLOCK FALSE
