CONSTANTS
  TopicNames = {t, u}
  Callers = {a, b}
  Events = {e}
  UserThreads = 0
  DefaultThreads = 1
  Callbacks = FALSE
  OtherWriters = TRUE
  MaxSubs = 3
  None = None
SPECIFICATION FairSpec
INVARIANTS
  TypeOK
  NoLeakedPool
  NoHandlerOutlives
  NoDeafSubscription
PROPERTIES
  CallsReturn
CHECK_DEADLOCK FALSE
