CONSTANTS
  SlotCapacity = 2
  MaxPins = 2
  MaxLeases = 1
  MaxSlotGen = 3
  MaxFrameId = 2
  MaxTicketId = 5
  MaxStoreGen = 1
  FoBranchCount = 1
  FoDepth <- MCDepth
  FoPolicy <- MCPolicy
  FoSampleEvery <- MCSampleEvery
  FoMaxGen = 4
  FoMaxOrder = 4
  FoMaxInc = 1
  HoCapacity = 2
  HoCommand <- MCHoCommand
  HoMaxGen = 1
  HoMaxOrder = 3
  HoMaxInc = 1
  PcCapacity = 1
  PcStatus = {0}
  PcMaxGen = 1
  PcMaxOrder = 2
  PcMaxInc = 1
  OdVisitor = TRUE
SPECIFICATION MCOwnerSpec
INVARIANTS
  OdEmittedOnce
PROPERTIES
  OdFinishes
CHECK_DEADLOCK FALSE
