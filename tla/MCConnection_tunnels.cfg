CONSTANTS
  Requesters = {r1}
  Openers = {o1}
  Acceptors = {a1}
  Closers = {c1}
  Registrars = {c1}
  OtherWriters = TRUE
  MaxRequests = 1
  None = None
SPECIFICATION FairSpec
INVARIANTS
  TypeOK
  NothingLeaks
  NoOrphan
  CloseIsFinal
PROPERTIES
  ConstructionsEnd
  CloseEnds
CHECK_DEADLOCK FALSE
