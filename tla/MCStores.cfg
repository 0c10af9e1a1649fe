SPECIFICATION StoresSpec
CONSTANTS
  x1 = x1
  x2 = x2
  y1 = y1
  y2 = y2
  b1 = b1
  b2 = b2
  r1 = r1
  r2 = r2
  a1 = a1
  o1 = o1
  m1 = m1
  s1 = s1
  d1 = d1
  Nobody = Nobody
  Writers <- MCActors
  WriterRuns <- MCWriterRuns
  ArtIds <- MCArtIds
  ArtOwners <- MCArtOwners
  Keys <- MCKeys
  Contents <- MCContents
  Covers <- MCCovers
  ItemCounts <- MCItemCounts
  ClaimMs = 1
  RetentionMs = 1
  MaxClock = 2
  MaxRevision = 4
  MaxTokens = 2
  Earlier = Earlier
  Nil = Nil
  Procs <- MCActors
  OpKeys <- MCKeys
  MemIds <- MCMemIds
  MemSources <- MCMemSources
  Decisions <- MCDecisions
  MaxCalls = 1
  MaxMemEpoch = 2
  MaxRules = 1
  TwinRepair = FALSE
INVARIANTS
  ArtifactInv
  MemoryInv
PROPERTIES
  ArtifactSteps
  MemorySteps
SYMMETRY StoresSymmetry
CHECK_DEADLOCK FALSE
