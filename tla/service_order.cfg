\* Three approaches, whole-second ticks, operator resets.
\* A detector result with every frame: the wait of a frame adds nothing.
SPECIFICATION MCSpec
CONSTANTS
  NumLanes = 3
  FullPce = 1
  FullQueue = 1
  Second = 1
  Yellow = 1
  AllRed = 1
  Release = 1
  Stale = 2
  DetectorPeriod = 0
  FrameWait = 0
  MinGreen = 1
  MaxGreen = 2
  GreenBounds <- ShortGreens
  Arrivals <- OneCameraAtATime
  EmergencyLanes = {}
  Disconnects = FALSE
  OperatorResets = TRUE
  PhaseCap = 0
  ElapsedCap = 4
  ReplaySteps = 24
  ReplayBounds <- LabBounds
INVARIANTS ServedWithinOneCycle PassesBoundedByDistance ReplayServesFairly
