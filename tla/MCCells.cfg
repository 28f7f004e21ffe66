CONSTANTS
  SlotCapacity = 2
  MaxPins = 2
  MaxLeases = 2
  MaxSlotGen = 2
  MaxFrameId = 3
  MaxTicketId = 4
  MaxStoreGen = 2
  HoCapacity = 2
  HoCommand <- MCHoCommand
  HoMaxGen = 3
  HoMaxOrder = 4
  HoMaxInc = 2
  PcCapacity = 2
  PcStatus = {0, 1}
  PcMaxGen = 2
  PcMaxOrder = 4
  PcMaxInc = 2
SPECIFICATION MCSpec
INVARIANTS
  FsOwnership
  HoDelivery
PROPERTIES
  FsHandlesExact
  HoStaleForever
  HoImplementsQueue
  PcSettlesOnce
CHECK_DEADLOCK FALSE
