SPECIFICATION Spec
CONSTANTS
  a = a
  b = b
  c = c
  None = None
  Nodes = {a, b}
  Hashes <- AllHashes
  InitKeys = {"k"}
  Requests <- SignReshare
  Rounds = 2
  MaxCalls = 1
  MaxFaults = 1
  Faults = {"crash", "refuse", "library", "store"}
INVARIANTS
  SharesReadable
  AnswerIsJoint
PROPERTIES
  KeyNeverReplaced
  ImplementsLifecycle
CHECK_DEADLOCK FALSE
