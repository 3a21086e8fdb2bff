CONSTANTS
  r1 = r1
  notes = notes
  v1 = v1
  v2 = v2
  d1 = d1
  d2 = d2
  None = None
  Id <- OneRecord
  Field <- OneField
  Value <- TwoValues
  Device <- OneDevice
  Locking = FALSE
  StrongETags = TRUE
  MaxAttempts = 2
  MaxGen = 3
  MaxCommits = 3
  MaxPoints = 2
SPECIFICATION RecoverySpec
INVARIANTS
  SnapshotIsCertified
