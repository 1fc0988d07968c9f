SPECIFICATION Spec
CONSTANTS
  p1 = p1
  p2 = p2
  t1 = t1
  d1 = d1
  d2 = d2
  MaxAttempts = 4
  OrderSize = 2
  BuyIds = {1, 2}
  BuySizes = {2}
  BuyChunk = 2
  MaxBuyOrders = 2
  MaxBuyRuns = 3
  MaxLevel = 2
  MaxSeq = 4
  MaxStarts = 2
  Processes = {p1, p2}
  Tickers = {t1}
  Inodes = {1, 2}
  Runs <- MCRuns
  JobIds = {1, 2}
  MaxWaiting = 2
  Desks = {d1, d2}
  Notionals = {0, 2, 3}
  TrialCap = 2
  DailyCap = 5
  LastDay = 2
  MaxSweep = 2
  LastFile = 3
  MaxLines = 2
  Scanned = 2
  MaxPolls = 2
  ScanDays = 2
INVARIANTS
  ClientContract
  BoughtWithinSize
  BookFollows
  SlotTruthful
  ForbiddenRefused
  DailyCapKept
  RecordingsKept
  LinesInOwnFiles
PROPERTIES
  BookRepaired
CHECK_DEADLOCK FALSE
