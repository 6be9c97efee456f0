SPECIFICATION Spec
CONSTANTS
  PolicyLimit = 5
  ExpertLimit = 9
  ChunkSteps = 2
  MaxAnomalies = 1
  StableGrasp = 2
  StablePlace = 2
  HoldSteps = 2
  ReleaseSteps = 3
  SettleTries = 2
  Horizon = 7
  Window = 9
INVARIANT RecordsAreAdmitted
CHECK_DEADLOCK FALSE
