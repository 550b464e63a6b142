SPECIFICATION Spec
CONSTANTS
  a = a
  b = b
  c = c
  None = None
  Nodes = {a, b}
  Hashes <- AllHashes
  InitKeys = {"k"}
  Requests <- TwoReshares
  Rounds = 2
  MaxCalls = 1
  MaxFaults = 0
  Faults = {}
INVARIANTS
  SharesFitKey
CHECK_DEADLOCK FALSE
