SPECIFICATION Spec
CONSTANTS
  Positions <- MCPositions
  Images <- MCImages
  SafetyContexts <- MCSafety
  MinFrames = 2
  MaxGap = 1
  MaxSpread = 1
  MaxSkew = 1
  MaxAge = 2
  MaxInnovation = 1
  MaxVariance = 3
  Growth = 1
  MaxPending = 2
  Strides <- MCStrides
  MaxTime = 5
INVARIANTS RememberedIsFresh WindowAgrees ContactOnSight
PROPERTIES NoImageTwice NoOperationForgives
CHECK_DEADLOCK FALSE
