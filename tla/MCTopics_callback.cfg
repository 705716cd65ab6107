CONSTANTS
  TopicNames = {t}
  Callers = {a}
  Events = {e}
  UserThreads = 1
  DefaultThreads = 1
  Callbacks = TRUE
  OtherWriters = FALSE
  MaxSubs = 1
  None = None
SPECIFICATION FairSpec
PROPERTIES
  CallsReturn
CHECK_DEADLOCK FALSE
