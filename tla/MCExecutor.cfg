CONSTANTS
  SlotCapacity = 2
  MaxPins = 3
  MaxLeases = 1
  MaxSlotGen = 3
  MaxFrameId = 2
  MaxTicketId = 9
  MaxStoreGen = 1
  FoBranchCount = 2
  FoDepth <- MCDepth
  FoPolicy <- MCPolicy
  FoSampleEvery <- MCSampleEvery
  FoMaxGen = 4
  FoMaxOrder = 4
  FoMaxInc = 1
SPECIFICATION ExFairSpec
INVARIANTS
  ExConserves

  
CHECK_DEADLOCK FALSE
