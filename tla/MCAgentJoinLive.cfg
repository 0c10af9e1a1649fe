CONSTANTS
  Runs <- ChainRuns
  Root = 0
  NoRun = none
  Parent <- ChainParent
  Below <- ChainBelow
  Deps <- ChainDeps
  Agents = {0, 1, 2}
  AgentOf <- ChainAgentOf
  Above <- ChainAbove
  Commands = {1, 2, 3}
  Continuations = {3}
  By <- ChainBy
  Kids <- ChainKids
  Owners = {1}
  NoOwner = 0
  MaxParallel = 1
  MaxDepth = 2
  MaxChildren = 2
  MaxAgents = 4
  LeaseMs = 1
  MaxTime = 0
  MaxEpoch = 1
  MaxBoots = 1
  Asking = {0}
  HostCancels = {0, 1}
  HostCloses = {}
SPECIFICATION LiveJoinSpec
CHECK_DEADLOCK FALSE
INVARIANTS
  ContextChain
PROPERTIES
  JoinsEnd
  StopReachesAll
