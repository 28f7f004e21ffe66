SPECIFICATION DcSpec
CONSTANTS
  DcThreads = {t1, t2}
  DcPeers = {p, q}
  DcNone = DcNone
INVARIANTS
  DcLeases
PROPERTIES
  DcDrains
CHECK_DEADLOCK FALSE
