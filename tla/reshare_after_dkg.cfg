SPECIFICATION FairSpec
CONSTANTS
  a = a
  b = b
  c = c
  None = None
  Nodes = {a, b, c}
  Hashes <- AllHashes
  InitKeys = {}
  Requests <- DkgReshare
  Rounds = 2
  MaxCalls = 1
  MaxFaults = 0
  Faults = {}
PROPERTIES
  ReshareRotates
CHECK_DEADLOCK FALSE
