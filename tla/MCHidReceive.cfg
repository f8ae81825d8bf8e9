SPECIFICATION FairSpec
CONSTANTS
  Class = "HID"
  EpSize = 3
  MemSize = 3
  MaxBytes = 5
  MaxJunk = 1
INVARIANTS
  CountExact
  NoOpenReceive
  BuffersInStep
PROPERTIES
  JunkOnlyWhenCut
  ImplementsChannel
  EverythingIsRead
