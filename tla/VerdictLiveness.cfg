\* Two submissions, no edits, one fault of a kind the handler retries: the verdict
\* arrives, and nothing of the first submission acts for the second.
CONSTANTS
  c1 = c1
  c2 = c2
  NoOne = NoOne
  Legacy = Legacy
  Runtimes <- MCRuntimes
  MaxRounds = 2
  MaxEdits = 0
  MaxManual = 0
  MaxFaults = 1
  StoreFaults <- MCNoFaults
SPECIFICATION LiveSpec
INVARIANTS VerdictOfCurrentSubmission
PROPERTIES AppliedIsDelivered
CHECK_DEADLOCK FALSE
