SPECIFICATION FairSpec
CONSTANTS
  c1 = c1
  c2 = c2
  f = f
  Calls = {c1}
  NumNodes = 3
  Foreign = {}
  WithClose = FALSE
  Faults = {"create"}
PROPERTIES
  CallsReturn
CHECK_DEADLOCK FALSE
