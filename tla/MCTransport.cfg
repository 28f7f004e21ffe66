SPECIFICATION MCSpec
CONSTANTS
  JbSize = 8
  JbSeqMod = 16
  JbMaxPacket = 12
  NkSeqMod = 12
  NkFirst = 9
  NkMaxMissing = 3
  NkMaxAge = 2
  NkMaxRetries = 2
  NkRetry = 1
  NkBlpBits = 2
  NkHistory = 3
  NkCount = 3
  NkMaxPackets = 5
  NkMaxTime = 4
  DcIds = {0, 1}
  DcMaxGen = 2
  DcMaxWire = 2
  RxStreams = {1, 2}
  RxSlots = 1
  RxMax = 2
  RxPpids = {51, 53}
  RxMessages = 2
INVARIANTS
  
  NkExact
  DnSound
  RxExact
CHECK_DEADLOCK FALSE
