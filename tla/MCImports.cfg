SPECIFICATION AllSpec
CONSTANTS
  a = a
  b = b
  v = v
  w = w
  k1 = k1
  k2 = k2
  i1 = i1
  me = me
  other = other
  None = None
  Rec <- OneRec
  Version <- Versions
  Token <- Tokens
  Desktop = FALSE
  DeskRec <- OneRec
  DeskVersion <- OneVersion
  Me = me
  Other = other
  Device <- Devices
  LegacyId <- OneId
  Field <- Fields
  Value <- Values
  MaxRevision = 2
  MaxLegacyGen = 3
  Content <- Libraries
  Size <- Sizes
  MaxAutomatic = 2
  Capacity = 8
  AnyFault <- Faults
  MaxMade = 3
  Refusals <- Refused
  Setback = 3
  MaxTroubled = 2
  RestoreDevice <- OneDevice
  RestoreId <- OneId
  RestoreField <- Fields
  RestoreValue <- Values
  MaxAttempts = 2
  MaxGen = 2
  MaxCommits = 2
  MaxCopies = 1
INVARIANTS
  RestoredMeansPublished
PROPERTIES
  ImportAsPreviewed  PointsAreKept 
SYMMETRY Symmetry
CHECK_DEADLOCK FALSE
