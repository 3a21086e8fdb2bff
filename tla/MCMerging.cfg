SPECIFICATION AllSpec
CONSTANTS
  notes = notes
  rating = rating
  v1 = v1
  v2 = v2
  d1 = d1
  d2 = d2
  e1 = e1
  e2 = e2
  r1 = r1
  None = None
  Field <- MCField
  Value <- MCValue
  Device <- MCDevice
  TopRev = 2
  Tracker <- TwoDevices
  MaxTotal = 2
  MaxRev0 = 3
  Phone <- Phones
  Cid <- OneCid
  Rec <- OneRec
  Name <- Names
  NamesOf <- OneName
  Creator <- JustOne
  Shared <- OneShared
  Filed <- OneFiled
  MaxAt = 3
INVARIANTS
  SplitOrAgree NoEditLost NoSilentDeletion LockedChangeStaysHere Mirror 
  HistoryIsAsTold
PROPERTIES
  HistoryIsKept CollectionEditsAreKept
SYMMETRY MCSymmetry
CHECK_DEADLOCK FALSE
