SPECIFICATION MassFairSpec
CONSTANTS
  LbaPackets = 2
  BufBlocks = 1
  MaxBlocks = 3
  Commands <- MCCommands
  MaxFaults = 1
INVARIANTS
  StatusTrue
  FailureExplained
PROPERTIES
  CommandsEnd
CHECK_DEADLOCK FALSE
