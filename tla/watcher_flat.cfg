SPECIFICATION FairSpec
CONSTANTS
  oco = oco
  leg1 = leg1
  leg2 = leg2
  solo = solo
  Synthetic <- SoloSet
  Params <- FlatParams
  Bids = {5}
  FlatThrows = TRUE
  MaxCrashes = 0
PROPERTY
  AutoCancelWhenFlat
