CONSTANTS
  Senders = {s1}
  Receivers = {r1}
  Lengths = {1, 3}
  ChunkLimit = 2
  Buffer = 4
  MaxSends = 3
  GrowSlack = 1
SPECIFICATION Spec
INVARIANTS
  TypeOK
  NoPanic
  SendNotForgotten
  RecvNotForgotten
  HeldExactly
  BufferBounded
  AllowanceConserved
  OrderedDelivery
