SPECIFICATION FairSpec
CONSTANTS
  a = a
  b = b
  c = c
  None = None
  Nodes = {a, b, c}
  Hashes <- AllHashes
  InitKeys = {}
  Requests <- DkgSign
  Rounds = 2
  MaxCalls = 1
  MaxFaults = 0
  Faults = {}
INVARIANTS
  NobodyStuck
PROPERTIES
  SessionCompletes
CHECK_DEADLOCK FALSE
