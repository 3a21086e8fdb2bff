SPECIFICATION AllSpec
CONSTANTS
  None = None
  Cid <- Ids
  Rec <- Ids
  Name <- Names
  SyncBumps = TRUE
  OpenWhileBusy = FALSE
  MaxSteps = 3
  Found <- FourFound
  Datas <- FoundData
  ImdbSeeds <- TwoSeeds
  SourceParts <- ThreeParts
  Titles <- SourceTitles
  Workers = 4
  MaxDecisions = 3
  TvShows <- TwoShows
  AllSeasons <- TwoSeasons
  AiredSeasons <- TwoAired
  SeriesRec <- ThreeRecs
  SeriesKinds <- TwoKinds
  MaxChanges = 2
  Movie <- ThreeRecs
  Belonging <- TwoOfThree
  ImdbIds <- TwoIds
  Out <- TwoOut
  MovieRec <- ThreeRecs
  Identities <- Agreeing
  MaxEdits = 3
INVARIANTS
  StatesAreTyped SaveKeepsUntouched  

  
CHECK_DEADLOCK FALSE
