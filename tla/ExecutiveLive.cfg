SPECIFICATION FairSpec
CONSTANTS
  StableTicks = 2
  TimeoutTicks = 3
  NormalPhases <- PlanNormalPhases
  PhaseSpec <- PlanPhaseSpec
  AllowedNext <- PlanAllowedNext
  Snapshots <- LiveSnapshots
  MaxRecoveryAttempts = 2
  ShadowOnly = TRUE
  RequireStateEstimate = TRUE
  AgeCap = 3
PROPERTY NominalEvidenceFinishes
