SPECIFICATION ExecutionSpec
CONSTANTS
  x1 = x1
  x2 = x2
  w1 = w1
  k1 = k1
  Kids <- MCKids
  WorkUnits <- MCPair
  MaxRounds = 2
  ExtraRounds = 1
  MaxUpdates = 1
  MaxLives = 2
  HostPhases <- MCHostPhases
  NoWorker = NoWorker
  Coords <- MCPair
  Workers <- MCWorkers
  WorkerOf <- MCWorkerOf
  Units <- MCUnits
  Recipe <- MCRecipe
  Deps <- MCDeps
  Attempts <- MCAttempts
  ChildrenOf <- MCChildrenOf
  MaxParallel = 1
  LeaseMs = 1
  Deadline = 2
  Budget = 0
  PauseOnBudget = TRUE
  RetryFailed = 1
  MaxTime = 2
  MaxEpoch <- MCMaxEpoch
  MaxUsage = 0
INVARIANTS
  EngineInv
  LongTaskInv
PROPERTIES
  WorkStands
SYMMETRY ExecutionSymmetry
CHECK_DEADLOCK FALSE
