CONSTANTS
  t1 = t1
  t2 = t2
  t3 = t3
  oA = oA
  oB = oB
  NoOwner = NoOwner
  Tasks <- MCTasks
  Owners <- MCOwners
  OwnerOf <- MCOwnerOf
  LeaseMs = 2
  MaxTime = 4
  MaxRound = 2
  MaxAttempts = 1
  PromptBind = TRUE
  ApprovalExpiry = 3
  s1 = s1
  s2 = s2
  Scanners <- MCScanners
  RunIds = {1, 2, 3}
  Watched = {}
  PerScan = 1
  PageSize = 2
  MaxFailures = 1
  Interval = 1
  MaxBackoff = 1
  MaxWall = 0
  MaxIssued = 0
  MaxTroubles = 1
SPECIFICATION StorageSpec
INVARIANTS
  EffectOnce
  ReceiptTrue
  DispatchInv
  ScanInv
PROPERTIES
  DispatchSteps
SYMMETRY MCSymmetry
CHECK_DEADLOCK FALSE
