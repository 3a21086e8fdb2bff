CONSTANTS
  r1 = r1
  notes = notes
  rating = rating
  v1 = v1
  v2 = v2
  v3 = v3
  d1 = d1
  d2 = d2
  None = None
  Id <- OneRecord
  Field <- OneField
  Value <- TwoValues
  Device <- TwoDevices
  Locking = TRUE
  StrongETags = FALSE
  MaxAttempts = 2
  MaxGen = 3
  MaxCommits = 3
SPECIFICATION SharedSpec
INVARIANTS
  SnapshotIsCertified CleanMeansPublished ConflictShowsBothSides
PROPERTIES NoWriteLost
