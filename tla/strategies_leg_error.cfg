SPECIFICATION Spec
CONSTANTS
  Reducible <- MCReducible
  PassiveSizes = {}
  Chunks = {1}
  Multiple = 3
  MaxWalks = 1
  RestingSizes = {}
  Ladders = {}
  StealthMultiple = 2
  PhasedSizes = {}
  MaxIterations = 1
  Bids = {1}
  LegSizes = {1}
  Targets = {}
  Caps = {1}
  MaxQuotes = 0
  Parts = {"job"}
  Cents = 4
  Recorded <- MCRecorded
  Holdings = {3}
  Requests = {0, 2, 4}
  ChunkSizes = {1, 2}
  SubmitMultiple = 2
  Floor = 1
  StopAt = 1
  TakeAt = 3
  Trail = 1
  Intervals = 2
  Warmup = 2
  Every = 1
  Streak = 1
  DeadRange = 0
  Directional = 1
  MaxSnapshots = 0
PROPERTIES
  PairReports
CHECK_DEADLOCK FALSE
