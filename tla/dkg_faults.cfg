SPECIFICATION Spec
CONSTANTS
  a = a
  b = b
  c = c
  None = None
  Nodes = {a, b}
  Hashes <- AllHashes
  InitKeys = {}
  Requests <- OneDkg
  Rounds = 2
  MaxCalls = 2
  MaxFaults = 2
  Faults = {"loss", "late", "reply", "conn", "refuse", "timeout", "store", "crash"}
INVARIANTS
  TypeOK
  KeyAgreement
  AnswerIsJoint
  KeyBacked
PROPERTIES
  ImplementsLifecycle
CHECK_DEADLOCK FALSE
