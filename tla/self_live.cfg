SPECIFICATION FairSpec
CONSTANTS
  c1 = c1
  c2 = c2
  f = f
  Calls = {c1, c2}
  NumNodes = 3
  Foreign = {}
  WithClose = TRUE
  Faults = {"setup", "create", "library", "late"}
INVARIANTS
  TypeOK
  ErrorsKept
  FullThreshold
PROPERTIES
  CallsEnd
  CloseEnds
  WaitersEnd
  HostsStayOpen
CHECK_DEADLOCK FALSE
