SPECIFICATION FairSpec
CONSTANTS
  oco = oco
  leg1 = leg1
  leg2 = leg2
  solo = solo
  Synthetic = {oco, leg1, leg2, solo}
  Params <- OcoParams
  Bids = {2, 4}
  FlatThrows = FALSE
  MaxCrashes = 1
INVARIANTS
  TypeOK
  MemoryMatchesJournal
  ExitsBounded
  OneLegUnlessCanceled
PROPERTIES
  NoExitAfterOutcome
  StopNeverLoosens
  LifecycleSpec
  StopResolves
  AutoCancelWhenFlat
