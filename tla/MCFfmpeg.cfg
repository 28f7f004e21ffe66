CONSTANTS
  FfMaxPackets = 2
  PcCapacity = 2
  PcStatus = {0, 1, 2, 3}
  PcMaxGen = 2
  PcMaxOrder = 3
  PcMaxInc = 1
  FfaWorker = {w1, w2}
  FfdLimit = 2
  FfdMaxPackets = 4
  FfdPts = {1, 2, 3}
SPECIFICATION MCSpec
INVARIANTS
  FfaDecodes
  FfdOrderly
PROPERTIES
  FfaReports
CHECK_DEADLOCK FALSE
