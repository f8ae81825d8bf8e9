SPECIFICATION FairSpec
CONSTANTS
  RxSize = 3
  EpSize = 2
  MaxBytes = 4
INVARIANTS
  SourceOwned
  SendNotStuck
  BuffersInStep
PROPERTIES
  ImplementsChannel
  EverythingDrains
  RoomReturns
