SPECIFICATION Spec
CONSTANTS
  c1 = c1
  c2 = c2
  f = f
  Calls = {c1}
  NumNodes = 3
  Foreign = {f}
  WithClose = FALSE
  Faults = {}
INVARIANTS
  FullThreshold
CHECK_DEADLOCK FALSE
