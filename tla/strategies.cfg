SPECIFICATION Spec
CONSTANTS
  Reducible <- MCReducible
  PassiveSizes = {2, 3}
  Chunks = {1, 2, 5}
  Multiple = 3
  MaxWalks = 7
  RestingSizes = {1, 2, 3, 4}
  Ladders <- MCLadders
  StealthMultiple = 2
  PhasedSizes = {1, 2}
  MaxIterations = 2
  Bids = {1, 2}
  LegSizes = {1, 2}
  Targets = {0, 1}
  Caps = {1, 2}
  MaxQuotes = 4
  Parts = {"job", "backtest"}
  Cents = 4
  Recorded <- MCRecorded
  Holdings = {3}
  Requests = {0, 2, 4}
  ChunkSizes = {1, 2}
  SubmitMultiple = 2
  Floor = 1
  StopAt = 1
  TakeAt = 3
  Trail = 1
  Intervals = 2
  Warmup = 2
  Every = 1
  Streak = 1
  DeadRange = 0
  Directional = 1
  MaxSnapshots = 5
INVARIANTS
  PassiveContract
  RestingWithinSize
  ReportTrue
  NothingLeftOnBook
  InventoryKept
  PairReportExact
  QueueHonoured
  SoldWithinHoldings
PROPERTIES
  JobEnds
CHECK_DEADLOCK FALSE
