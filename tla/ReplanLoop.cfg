SPECIFICATION Spec
CONSTANTS
  Drivers <- MCDrivers
  ActionHorizon = 5
  ExecuteSteps = 2
  WindowLength = 2
  MaxGeneration = 2
INVARIANTS HistoryHolds RolloutBounded
PROPERTY ResumedOnce
CHECK_DEADLOCK FALSE
