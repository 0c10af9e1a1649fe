SPECIFICATION LoopsSafety
CONSTANTS
  Limits <- Once
  Profiles <- MixedProfiles
  MaxRounds = 2
  MaxProgress = 1
  MaxCrashes = 1
  Tools <- MCTools
  Prerequisites <- MCPrerequisites
  CapabilityOf <- MCCapabilityOf
  NoCapability = "-"
  Enabled <- MCTools
  ConstraintChoices <- MCConstraints
  Outputs <- MCOutputs
  PlanRounds = 5
  MaxPlanSteps = 3
  MaxToolSteps = 2
  MaxRepairAttempts = 1
  MinVisibleSteps = 1
  MaxAttempts = 2
  TokenLimit = 5
  NoLimit = NoLimit
  None = None
  Usages = {2, 4}
  Retries = 1
  Profile = 3
  Window = 6
  Prompts = {2, 4}
  Guidance = 2
  MaxChunks = 2
  MaxRecords = 1
  Peers = 1
  MaxFaults = 1
INVARIANTS
  ClosedIsSettled
CHECK_DEADLOCK FALSE
