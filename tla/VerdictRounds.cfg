\* Two submissions and one fault: an old verdict never acts for a new submission.
CONSTANTS
  c1 = c1
  c2 = c2
  NoOne = NoOne
  Legacy = Legacy
  Runtimes <- MCRuntimes
  MaxRounds = 2
  MaxEdits = 1
  MaxManual = 0
  MaxFaults = 1
  StoreFaults <- MCAllFaults
SPECIFICATION Spec
SYMMETRY MCSymmetry
INVARIANTS WokenOncePerSubmission VerdictOfCurrentSubmission
CHECK_DEADLOCK FALSE
