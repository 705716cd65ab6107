CONSTANTS
  Requesters = {r1, r2}
  Openers = {}
  Acceptors = {}
  Closers = {c1}
  Registrars = {}
  OtherWriters = TRUE
  MaxRequests = 3
  None = None
SPECIFICATION FairSpec
INVARIANTS
  NeverBlocked
  RepliesRouted
PROPERTIES
  RequestsReturn
CHECK_DEADLOCK FALSE
