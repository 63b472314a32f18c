\* One failing read before the relay: an applied verdict is dead-lettered.
CONSTANTS
  c1 = c1
  c2 = c2
  NoOne = NoOne
  Legacy = Legacy
  Runtimes <- MCRuntimes
  MaxRounds = 1
  MaxEdits = 1
  MaxManual = 0
  MaxFaults = 1
  StoreFaults <- MCReloadFault
SPECIFICATION Spec
CHECK_DEADLOCK FALSE
INVARIANT AppliedNeverDeadLettered
