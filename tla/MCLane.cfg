SPECIFICATION MCSpec
CONSTANTS
  SlotCapacity = 2
  MaxPins = 2
  MaxLeases = 1
  MaxSlotGen = 3
  MaxFrameId = 2
  MaxTicketId = 9
  MaxStoreGen = 1
  FoBranchCount = 1
  FoDepth <- MCDepth
  FoPolicy <- MCPolicy
  FoSampleEvery <- MCSampleEvery
  FoMaxGen = 4
  FoMaxOrder = 4
  FoMaxInc = 1
  HoCapacity = 2
  HoCommand <- MCHoCommand
  HoMaxGen = 2
  HoMaxOrder = 4
  HoMaxInc = 1
  PcCapacity = 1
  PcStatus = {0}
  PcMaxGen = 3
  PcMaxOrder = 1
  PcMaxInc = 1
  OdVisitor = TRUE
  CpCapacity = 2
  CpMaxBytes = 3
  CpMaxSpan = 2
  CpTimeMax = 3
  CpBytesPerUs = 2
  CpMaxFrames = 3
  CfStamps <- MCStamps
  CfNoPts <- MCNoPts
  CfPackets = 3
  CfTicks = 3
  CfMuxTicks = 2
INVARIANTS
  
  CpSound
  CfFile
  FanSubmits
PROPERTIES
  FanKeeps
CHECK_DEADLOCK FALSE
