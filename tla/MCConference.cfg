SPECIFICATION MCSpec
CONSTANTS
  caller = caller
  p1 = p1
  p2 = p2
  callee = callee
  t1 = t1
  r1 = r1
  r2 = r2
  i1 = i1
  i2 = i2
  SfSlots = 2
  SfStreams = 1
  SfHold = 1
  SnRooms = {r0}
  SnParticipants = {p1, p2}
  SnTracks = {t1}
  SnMaxRooms = 1
  SnCapacity = 2
  SnSsrc <- MCSsrc
  SnLayers <- MCLayers
  SnBandwidths = {2000000, 999999}
  RsRooms = {r1, r2}
  RsParticipants = {caller, callee}
  RsTracks = {t1}
  RsRole <- MCRole
  RsKind <- MCKind
  CqEntries <- MCEntries
  CqAgents <- MCAgents
  CqPriorities = {1}
  CqRouters = {i1, i2}
  CqMaxSequence = 3
  AsParticipants = {p1, p2}
  AsSsrcs = {1, 2}
  AsMaxVersion = 2
  SgConnections = {p1, p2}
  SgRooms = {r1, r2}
  SgIds = {i1, i2}
  SgMaxPeers = 2
  SgMaxRooms = 1
  SgMaxOutbox = 2
  SgSources = {1, 2, 3}
  SgMaxStates = 2
  SgMaxPerSource = 1
  SgBurst = 1
  SgTtl = 2
  SgMaxPending = 1
INVARIANTS
  SnSubscriptions
  
  
  SgSound
PROPERTIES
  SnForwards
  
SYMMETRY MCSymmetry
CHECK_DEADLOCK FALSE
