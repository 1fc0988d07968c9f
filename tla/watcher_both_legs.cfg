SPECIFICATION Spec
CONSTANTS
  oco = oco
  leg1 = leg1
  leg2 = leg2
  solo = solo
  Synthetic <- Trio
  Params <- StopsParams
  Bids = {2, 5}
  FlatThrows = TRUE
  MaxCrashes = 0
INVARIANT
  ExactlyOneLeg
