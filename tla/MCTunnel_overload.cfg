CONSTANTS
  Senders = {s1}
  Receivers = {r1}
  Lengths = {1, 3}
  ChunkLimit = 2
  Buffer = 3
  MaxSends = 2
  GrowSlack = 0
SPECIFICATION FairSpec
PROPERTY OperationalAfterOverload
