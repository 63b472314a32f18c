\* Two submissions, one fault of any kind: one review and one verdict each, and
\* nothing of the first leaks into the second.
SPECIFICATION Spec
CONSTANTS
  c1 = c1
  c2 = c2
  Runtimes = {c1, c2}
  NoOne = NoOne
  MaxSubs = 2
  MaxTries = 2
  MaxEdits = 1
  MaxFaults = 1
  FaultKinds = {"startup", "busy", "terminal", "authority", "enqueue", "note", "receive", "claim", "stall", "crash", "close"}
SYMMETRY RuntimeSymmetry
INVARIANTS OneVerdict
PROPERTIES MovesForward
CHECK_DEADLOCK FALSE
