\* One direction, two cameras that are paired for it, three connections.
SPECIFICATION Spec
CONSTANTS
  north = north
  a = a
  b = b
  s1 = s1
  s2 = s2
  s3 = s3
  NoNode = NoNode
  NoSocket = NoSocket
  Directions <- OneDirection
  Nodes <- TwoNodes
  DirectionOf <- BothNorth
  Sockets <- ThreeSockets
  TokenLimit = 3
  FrameLimit = 2
SYMMETRY Symmetry
CHECK_DEADLOCK FALSE
INVARIANTS OneCameraPerDirection DisconnectedStaysGone NeverCountedTwice
PROPERTY FeedNeverGoesBack
