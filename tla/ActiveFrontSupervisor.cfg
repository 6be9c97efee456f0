SPECIFICATION Spec
CONSTANTS
  AllowedPhases <- MCAllowed
  PostPhases <- MCPost
  OtherPhases <- MCOther
  Primitives = {"left_low", "right_low"}
  Selected = "left_low"
  UnusableTicks = 3
  BarrierFrames = 4
  FrameIds = {1, 2, 3, 4}
  SafetyFailures <- MCSafety
  MaxEpisodes = 2
INVARIANTS FailureIsFinal ResumesFromFreshHome CameraIsOwned
PROPERTY CommitsUntouched
CHECK_DEADLOCK FALSE
