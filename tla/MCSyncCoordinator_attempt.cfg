CONSTANTS
  r1 = r1
  r2 = r2
  None = None
  Runs <- OneRun
  PeriodicPull = TRUE
  Switching = FALSE
  Pausing = TRUE
  Restarting = TRUE
  UnnotedWrites = TRUE
  MaxEpoch = 1
SPECIFICATION FairSpec
PROPERTIES
  OwedIsAttempted
