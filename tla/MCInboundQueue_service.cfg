CONSTANTS
  Producers = {process}
  Sizes = {1, 2}
  Limit = 3
  Threads = 2
  Expiring = TRUE
  MaxInt = 3
  MaxMessages = 4
SPECIFICATION FairSpec
INVARIANTS
  TypeOK
  MemoryBounded
  UsageExact
PROPERTY QueueDrains
CHECK_DEADLOCK FALSE
