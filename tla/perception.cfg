\* One tick is a second; a detector result a second (Raspberry Pi profile).
SPECIFICATION Spec
CONSTANTS
  NumLanes = 4
  FullPce = 2000
  FullQueue = 120
  bike = bike
  truck = truck
  Track <- TwoTracks
  Urgent <- OneUrgent
  Weight <- Weights
  Period = 1
  Horizon = 2
  Grace = 1
  Confirmations = 2
  QueueFrames = 2
  SlowCap = 2
  StayCap = 3
  Unit = 10
  MinGreen = 10
  MaxGreen = 60
  OthersScores = {0, 20000}
INVARIANTS OnlyEvidenceCounts QueueWithinStay OccupiedHasScore OwnDemandDecides
PROPERTY CountSettles
