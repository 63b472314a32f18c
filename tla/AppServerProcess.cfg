\* Two callers, two generations, one fault: starts, losses and stops interleaved.
CONSTANTS
  a = a
  b = b
  Callers <- MCCallers
  Rounds <- MCRounds
  MaxSpawns = 2
  MaxFaults = 1
SPECIFICATION LiveSpec
INVARIANTS OneManagedBackend RoundKeepsItsProcess
PROPERTIES StopIsFinal CallsSettle
CHECK_DEADLOCK FALSE
