CONSTANTS
  MsMaxSources = 1
  MsMaxTracks = 2
  MsMaxSubs = 2
  MsGopCap = 2
  MsIdMax = 2
  MsNsMax = 2
  SrRtmp = {r1, r2}
  SrStream <- MCStream
  SrMaxFrames = 3
  RaConn = {c1, c2}
  RaBinding = {1, 2}
  RaPath <- MCPath
  RaMedia <- MCMedia
  RaChannels <- MCChannels
  c1 = c1
  c2 = c2
  customer = customer
  supervisor = supervisor
  audio = audio
  screen = screen
  RsRooms = {room}
  RsParticipants = {customer, c1, c2, supervisor}
  RsTracks = {audio, screen}
  RsRole <- MCRole
  RsKind <- MCKind
SPECIFICATION MCSpec
SYMMETRY MCSymmetry
INVARIANTS
  SrServes
  RaBindingsExact
  RsSound
CHECK_DEADLOCK FALSE
