\* As pipeline.cfg, Raspberry Pi profile: a projection that waited half a second ends a green.
SPECIFICATION FairEvidenceSpec
CONSTANTS
  NumLanes = 2
  FullPce = 1
  FullQueue = 1
  Second = 2
  Yellow = 2
  AllRed = 1
  Release = 2
  Stale = 3
  DetectorPeriod = 2
  FrameWait = 1
  MinGreen = 1
  MaxGreen = 2
  GreenBounds <- ShortGreens
  Arrivals <- OneCameraAtATime
  EmergencyLanes = {}
  Disconnects = FALSE
  OperatorResets = TRUE
  PhaseCap = 0
  ElapsedCap = 7
PROPERTY EarlyEndIsConfirmed
