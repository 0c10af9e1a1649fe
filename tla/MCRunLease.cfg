CONSTANTS
  t1 = t1
  t2 = t2
  t3 = t3
  oA = oA
  oB = oB
  NoOwner = NoOwner
  Tasks <- MCTasks
  Owners <- MCOwners
  OwnerOf <- MCOwnerOf
  LeaseMs = 2
  MaxTime = 4
  MaxRound = 1
  MaxAttempts = 3
  PromptBind = TRUE
SPECIFICATION FairSpec
INVARIANTS
  LeaseInv
  OneWriter
PROPERTIES
  ExclusiveExecution
  ExecutionsEnd
CHECK_DEADLOCK FALSE
