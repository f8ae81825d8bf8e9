SPECIFICATION FairSpec
CONSTANTS
  BufSize = 5
  Payload = 2
  MaxBytes = 5
INVARIANTS
  InOrder
  BusyOnlyAfterAbandon
PROPERTIES
  ZeroMeansSent
  WaitEnds
