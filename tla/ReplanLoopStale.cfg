SPECIFICATION Spec
CONSTANTS
  Drivers <- Resumers
  ActionHorizon = 5
  ExecuteSteps = 2
  WindowLength = 4
  MaxGeneration = 1
INVARIANT FreshAfterPause
CHECK_DEADLOCK FALSE
