CONSTANTS
  Requesters = {}
  Openers = {}
  Acceptors = {a1}
  Closers = {c1}
  Registrars = {c1}
  OtherWriters = FALSE
  MaxRequests = 0
  None = None
SPECIFICATION FairSpec
PROPERTIES
  InitBeforeHandlers
CHECK_DEADLOCK FALSE
