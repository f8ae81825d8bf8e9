SPECIFICATION FairSpec
CONSTANTS
  PacketSize = 3
  DescriptorSize <- MCDescriptorSize
  LineSize = 2
  Asked = {3, 6, 8}
  MaxRequests = 2
INVARIANT HostKnowsSettings
PROPERTIES ReadsAreWhole TransfersEnd
CHECK_DEADLOCK FALSE
