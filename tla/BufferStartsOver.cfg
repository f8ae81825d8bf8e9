SPECIFICATION FairSpec
CONSTANTS
  RxSize = 2
  EpSize = 1
  MaxBytes = 3
PROPERTY
  BufferStartsOver
