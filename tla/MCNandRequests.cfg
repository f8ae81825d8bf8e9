SPECIFICATION FairSpec
CONSTANTS
  HdrSize = 2
  BufSize = 2
  MaxReply = 2
  PktSize = 3
  AddrLimit = 2
  WordSize = 6
  Shapes <- MCShapes
  MaxRequests = 2
INVARIANTS
  ChipSeesRequests
PROPERTIES
  UsesOpenChip
  RequestsFinish
