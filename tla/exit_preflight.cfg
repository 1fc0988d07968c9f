SPECIFICATION Spec
CONSTANTS
  Ids = {1, 2, 3}
  Configs <- PreflightJobs
  Held = 4
  MaxCrashes = 1
INVARIANTS
  SoldWithinSizeResumed
CHECK_DEADLOCK FALSE
