CONSTANTS
  Runs <- PairRuns
  Root = 0
  NoRun = none
  Parent <- PairParent
  Below <- PairBelow
  Deps <- PairDeps
  Agents = {0, 1, 2}
  AgentOf <- PairAgentOf
  Above <- PairAbove
  Commands = {1}
  Continuations = {}
  By <- PairBy
  Kids <- PairKids
  Owners = {1, 2}
  NoOwner = 0
  MaxParallel = 1
  MaxDepth = 2
  MaxChildren = 2
  MaxAgents = 4
  LeaseMs = 1
  MaxTime = 1
  MaxEpoch = 2
  MaxBoots = 2
  Asking = {0, 1}
  HostCancels = {0}
  HostCloses = {1}
SPECIFICATION BothSpec
CHECK_DEADLOCK FALSE
INVARIANTS
  TreeInv
  ParallelLimit
  JoinInv
PROPERTIES
  OutcomeFinal
