\* One submission, two faults, a rival verdict by hand: one wake-up and true receipts.
CONSTANTS
  c1 = c1
  c2 = c2
  NoOne = NoOne
  Legacy = Legacy
  Runtimes <- MCRuntimes
  MaxRounds = 1
  MaxEdits = 1
  MaxManual = 1
  MaxFaults = 2
  StoreFaults <- MCAllFaults
SPECIFICATION Spec
SYMMETRY MCSymmetry
INVARIANTS OneTrueDelivery
PROPERTIES PassWasVerified CancelledIsTerminal
CHECK_DEADLOCK FALSE
