CONSTANTS
  Base = 8
  Word = 128
  Milli = 9
  Numbers = {7, 8, 127}
  Blobs <- MCBlobs
  Magic <- MCMagic
  MaxPackets = 2
  None = None
SPECIFICATION FairSpec
INVARIANTS
  TypeOK
  Framing
  NoFalseAlarm
  TimeoutsGenuine
PROPERTY StreamConsumed
CHECK_DEADLOCK FALSE
