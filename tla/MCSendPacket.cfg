CONSTANTS
  Writers = {w1, w2, w3}
  Kinds = {"close", "broadcast"}
  Capacity = 2
  MaxPackets = 4
SPECIFICATION FairSpec
INVARIANTS
  TypeOK
  Counted
  Unmixed
  NoStranded
PROPERTY Forwarded
CHECK_DEADLOCK FALSE
