SPECIFICATION JbSpec
CONSTANTS
  JbSize = 8
  JbSeqMod = 16
  JbMaxPacket = 12
INVARIANTS
  JbInOrder
CHECK_DEADLOCK FALSE
