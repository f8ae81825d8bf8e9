SPECIFICATION FairSpec
CONSTANTS
  Class = "CDC"
  EpSize = 3
  MemSize = 3
  MaxBytes = 6
  MaxWire = 7
INVARIANTS
  TransmitterArmed
  InOrder
PROPERTIES
  NothingLost
  EverythingIsSent
