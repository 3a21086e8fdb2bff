SPECIFICATION AllSpec
CONSTANTS
  None = None
  NewId = NewId
  r1 = r1
  r2 = r2
  Id <- TwoIds
  Imdb <- OneImdb
  MaxRev = 2
  MaxCalls = 2
  MobileId <- OneId
  PageId <- TwoIds
  Tabs <- TwoTabs
  MaxDepth = 5
  MaxForms = 4
  ViewId <- ThreeViews
  ViewName <- ThreeNames
  Cond <- TwoConds
  All = "all"
  MaxViews = 2
  MaxViewCalls = 2
  Media <- TwoMedia
  FutureMedia <- NoneToCome
  Code <- TwoCodes
  BadCode <- NoneToCome
  Key <- TwoKeys
  Lower = 18
  Upper = 19
  Word <- OneWord
  Pool <- Titles
  Digit <- OneDigit
  MaxLib = 2
  Listed <- TwoListed
  HitsOf <- Finds
  Titled <- WithTitle
  FirstRows <- SomeRows
  ChangeOf <- AnyChange
  MaxChanges = 1
  MaxRuns = 2
  BusyChanges = 2
  BusyRuns = 1
INVARIANTS
  StatesAreTyped ScreenIsCurrent PageIsTheEntry  OptionsTellTheTruth
PROPERTIES
   WritesWhatItChecked
SYMMETRY Symmetry
CHECK_DEADLOCK FALSE
