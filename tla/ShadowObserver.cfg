SPECIFICATION ObserverFairSpec
CONSTANTS
  StableTicks = 2
  TimeoutTicks = 0
  NormalPhases <- PlanNormalPhases
  PhaseSpec <- PlanPhaseSpec
  AllowedNext <- PlanAllowedNext
  Snapshots <- ShadowSnapshots
  MaxRecoveryAttempts = 1
  ShadowOnly = TRUE
  RequireStateEstimate = TRUE
  AgeCap = 1
  Times <- ShadowTimes
  Strides <- ShadowStrides
  OpenEpisodes = {0}
  MaxCalls = 4
  MaxLoopStep = 2
  MaxEpisodes = 1
INVARIANTS FailureLeavesNoTrace RecordsMatchLedger NeverOutOfStep OneEpisode
PROPERTY RestorationEnds
CHECK_DEADLOCK FALSE
