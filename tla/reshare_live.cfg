SPECIFICATION FairSpec
CONSTANTS
  a = a
  b = b
  c = c
  None = None
  Nodes = {a, b, c}
  Hashes <- AllHashes
  InitKeys = {"k"}
  Requests <- OneReshare
  Rounds = 2
  MaxCalls = 1
  MaxFaults = 0
  Faults = {"conn", "refuse"}
INVARIANTS
  NobodyStuck
  SharesFitKey
PROPERTIES
  ReshareRotates
CHECK_DEADLOCK FALSE
