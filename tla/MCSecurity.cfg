SPECIFICATION MCSpec
CONSTANTS
  RvTargets = 1
  RvDigests = {d1, d2}
  RvMaxEntries = 1
  RvMaxAttempts = 2
  RvMaxEpoch = 2
  RvMaxSequence = 2
  RvMaxVersions = 3
  RvMaxLate = 1
  RvMaxRestarts = 1
  TqTenants = {a, b, c}
  TqMaxTenants = 2
  TqMaxLimit = 2
  TqMaxEpoch = 2
  TqMaxSequence = 2
  TqMaxVersions = 4
  TqMaxTime = 2
  TqMaxRestarts = 1
  t1 = t1
  t2 = t2
  n1 = n1
  n2 = n2
  TaTenants = {t1, t2}
  TaNodes = {n1, n2}
  TaMaxTenants = 2
  TaMaxIssued = 3
  TaSnapshots <- MCSnapshots
  TaMaxLimit = 2
  TaMaxEpoch = 2
  TaMaxSequence = 2
  TaMaxTime = 2
INVARIANTS
  RvSound
  TqProjection
  TaBudget
SYMMETRY MCSymmetry
CHECK_DEADLOCK FALSE
