CONSTANTS
  r1 = r1
  r2 = r2
  None = None
  Runs <- OneRun
  PeriodicPull = FALSE
  Switching = TRUE
  Pausing = TRUE
  Restarting = TRUE
  UnnotedWrites = FALSE
  MaxEpoch = 2
SPECIFICATION Spec
INVARIANTS
  OwedHasAWakeUp
