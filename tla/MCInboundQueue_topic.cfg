CONSTANTS
  Producers = {g1, g2}
  Sizes = {1, 2}
  Limit = 3
  Threads = 2
  Expiring = FALSE
  MaxInt = 7
  MaxMessages = 4
SPECIFICATION Spec
INVARIANT MemoryBounded
CHECK_DEADLOCK FALSE
