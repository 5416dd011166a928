\* Times in turns of the loops, shortened in proportion to the code's.
SPECIFICATION FairSpec
CONSTANTS
  HeartbeatTimeout = 2
  Fresh = 2
  FrameTtl = 2
  MaxFaults = 1
  Limit = 6
INVARIANTS SourceOutlivesCamera MirrorIsRecent
PROPERTY CameraIsShown
