SPECIFICATION LiveSpec
CONSTANTS
  c1 = c1
  w1 = w1
  k1 = k1
  u1 = u1
  u2 = u2
  Plans <- MCPlans
  RespondId = 10
  MaxRevisions = 2
  MayDecline = TRUE
  MaxBatch = 3
  MaxConcurrency = 2
  LongBatches <- MCLongBatches
  SinkMayFail = TRUE
  MaxAttempts = 2
  TokenLimit = 5
  NoLimit = NoLimit
  None = None
  Usages = {2, 4}
  Retries = 1
  Profile = 3
  Window = 6
  Prompts = {2}
  Guidance = 2
  MaxChunks = 1
  MaxRecords = 1
  Peers = 0
  MaxFaults = 0
  NoWorker = NoWorker
  Coords <- MCCoords
  Workers <- MCWorkers
  WorkerOf <- MCWorkerOf
  Units <- MCUnits
  Recipe <- MCRecipe
  Deps <- MCDeps
  Attempts <- MCAttempts
  ChildrenOf <- MCChildrenOf
  MaxParallel = 1
  LeaseMs = 1
  Deadline = 2
  Budget = 1
  PauseOnBudget = TRUE
  RetryFailed = 1
  MaxTime = 2
  MaxEpoch <- MCMaxEpoch
  MaxUsage = 1
  Kids <- MCKids
  WorkUnits <- MCWorkUnits
  MaxRounds = 1
  ExtraRounds = 0
  MaxUpdates = 2
  MaxLives = 1
  HostPhases = {}
  v1 = v1
  Scanners <- MCScanners
  RunIds = {1, 2}
  Watched = {2}
  PerScan = 1
  PageSize = 2
  MaxFailures = 1
  Interval = 1
  MaxBackoff = 1
  MaxWall = 1
  MaxIssued = 3
  MaxTroubles = 1
INVARIANTS
  RunInv
  BatchInv
PROPERTIES
  HistoryKept
  BatchSteps
  SettledAsSeen
  WorkReturns
  StopsAreHonoured
  DueIsTakenUp
CHECK_DEADLOCK FALSE
