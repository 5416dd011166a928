\* Two approaches, two cameras, one network address and one mistyped address.
SPECIFICATION FairSpec
CONSTANTS
  north = north
  south = south
  d1 = d1
  d2 = d2
  u = u
  b = b
  video = video
  Lane <- TwoLanes
  LaneOrder <- NorthFirst
  Device <- TwoDevices
  Url <- OneUrl
  Bare <- OneBare
  Video = video
INVARIANTS
  RunsAsConfigured
  SentIsLogged
PROPERTY CameraComesBack
