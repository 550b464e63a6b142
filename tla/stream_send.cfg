SPECIFICATION FairSpec
CONSTANTS
  m1 = m1
  m2 = m2
  s1 = s1
  s2 = s2
  None = None
  Messages = {m1, m2}
  Services = {s1, s2}
  Attempts = 3
  MaxBreaks = 1
INVARIANTS
  TypeOK
  OneReader
PROPERTIES
  ReachesRegistered
  ImplementsDelivery
CHECK_DEADLOCK FALSE
