SPECIFICATION Spec
CONSTANTS
  Ids = {1, 2, 3}
  Configs <- TailJobs
  Held = 4
  MaxCrashes = 1
INVARIANTS
  NeverShort
CHECK_DEADLOCK FALSE
