SPECIFICATION Spec
CONSTANTS
  Epochs = 3
  Batches = 3
  Accumulation = 2
  IntervalSteps = 2
  Losses <- MCLosses
  MaxStops = 3
INVARIANTS BestIsBest RecordedStates
CHECK_DEADLOCK FALSE
