SPECIFICATION Spec
CONSTANTS
  a = a
  b = b
  c = c
  None = None
  Nodes = {a, b}
  Hashes <- AllHashes
  InitKeys = {"k"}
  Requests <- OneSign
  Rounds = 2
  MaxCalls = 1
  MaxFaults = 0
  Faults = {}
INVARIANTS
  SignatureChecks
CHECK_DEADLOCK FALSE
