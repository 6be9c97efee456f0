SPECIFICATION Spec
CONSTANTS
  Positions <- MCPositions
  Images <- MCImages
  SafetyContexts <- MCSafety
  MinFrames = 2
  MaxGap = 1
  MaxSpread = 1
  MaxSkew = 1
  MaxAge = 1
  MaxInnovation = 1
  MaxVariance = 3
  Growth = 1
  MaxPending = 1
  FrameIds = {f1, f2}
  HomeFrames = 2
  HomeUnsafe <- MCUnsafe
  MaxTime = 4
  Lateness = 1
  MaxEpisodes = 1
  MaxOthers = 1
INVARIANTS LeaseUntilHome WrittenOnce CommittedWasSeen
PROPERTIES NothingOverwritten CarriesOutTransaction
SYMMETRY MCSymmetry
CHECK_DEADLOCK FALSE
