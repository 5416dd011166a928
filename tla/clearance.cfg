\* No emergencies; operator resets and reconfiguration: the documented colour order and clearance.
\* Frames of disconnected cameras may empty a lane at any time: the wait of a frame adds nothing.
SPECIFICATION ClearanceSpec
CONSTANTS
  NumLanes = 2
  FullPce = 1
  FullQueue = 1
  Second = 2
  Yellow = 2
  AllRed = 2
  Release = 2
  Stale = 3
  DetectorPeriod = 1
  FrameWait = 0
  MinGreen = 1
  MaxGreen = 2
  GreenBounds <- ShortGreens
  Arrivals <- OneCameraAtATime
  EmergencyLanes = {}
  Disconnects = TRUE
  OperatorResets = TRUE
  PhaseCap = 0
  ElapsedCap = 8
INVARIANT ClearanceHeld
PROPERTY ImplementsHead
