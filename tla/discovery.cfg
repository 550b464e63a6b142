SPECIFICATION FairSpec
CONSTANTS
  a = a
  b = b
  c = c
  s = s
  None = None
  Nodes = {a, b, c}
  SelfHosts = {s}
  Requests = {a}
  MinThreshold = 1
INVARIANTS
  TypeOK
  CallsCoverGroup
  ThresholdMet
PROPERTIES
  LateRequestsWhole
  CallsGoThrough
CHECK_DEADLOCK FALSE
