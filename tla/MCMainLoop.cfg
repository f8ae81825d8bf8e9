SPECIFICATION FairSpec
INVARIANTS
  MemoryIsClocked
  NoSleepOnEvent
  SleepsInTheRightMode
PROPERTIES
  FpgaFollowsBus
  AttachFollowsVbus
