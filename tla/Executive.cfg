SPECIFICATION Spec
CONSTANTS
  StableTicks = 2
  TimeoutTicks = 0
  NormalPhases <- PlanNormalPhases
  PhaseSpec <- PlanPhaseSpec
  AllowedNext <- PlanAllowedNext
  Snapshots <- MCSnapshots
  MaxRecoveryAttempts = 1
  ShadowOnly = FALSE
  RequireStateEstimate = TRUE
  AgeCap = 1
INVARIANTS TypeOK RunningSupported
PROPERTIES ReturnsAreCounted RetryReturnsToInterruption HandoverResetsAction GraphOnly ProgressIsStable
