CONSTANTS
  t1 = t1
  t2 = t2
  t3 = t3
  oA = oA
  oB = oB
  NoOwner = NoOwner
  Tasks <- MCTasks
  Owners <- MCOwners
  OwnerOf <- MCOwnerOf
  LeaseMs = 2
  MaxTime = 4
  MaxRound = 2
  MaxAttempts = 2
  PromptBind = FALSE
SPECIFICATION Spec
INVARIANTS
  OneWriter
CHECK_DEADLOCK FALSE
