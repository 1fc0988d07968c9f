SPECIFICATION Spec
CONSTANTS
  Ids = {1, 2, 3}
  Configs <- MixedJobs
  Held = 4
  MaxCrashes = 2
INVARIANTS
  TypeOK
  RemainingAccurate
  SoldWithinSize
  LiveOrdersKnown
  AtMostOneUnsettled
  SubmittedBounded
CHECK_DEADLOCK FALSE
