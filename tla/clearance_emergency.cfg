\* One approach may report an emergency.
SPECIFICATION ClearanceSpec
CONSTANTS
  NumLanes = 2
  FullPce = 1
  FullQueue = 1
  Second = 2
  Yellow = 2
  AllRed = 2
  Release = 2
  Stale = 3
  DetectorPeriod = 1
  FrameWait = 0
  MinGreen = 1
  MaxGreen = 2
  GreenBounds <- NoBounds
  Arrivals <- OneCameraAtATime
  EmergencyLanes = {1}
  Disconnects = FALSE
  OperatorResets = FALSE
  PhaseCap = 0
  ElapsedCap = 8
INVARIANT NeverGreenToGreen
