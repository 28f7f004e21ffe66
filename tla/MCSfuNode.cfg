SPECIFICATION SnSpec
CONSTANTS
  SfSlots = 2
  SfStreams = 1
  SfHold = 1
  SnRooms = {r0}
  SnParticipants = {a, b}
  SnTracks = {t1}
  SnMaxRooms = 1
  SnCapacity = 2
  SnSsrc <- MCSsrc
  SnLayers <- MCLayers
  SnBandwidths = {2000000, 999999}
INVARIANTS
  SnUnique
CHECK_DEADLOCK FALSE
