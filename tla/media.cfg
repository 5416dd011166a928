\* A node that registers twice and makes two offers.
SPECIFICATION FairPeersSpec
CONSTANTS
  MaxRegistrations = 2
  MaxPeers = 2
INVARIANTS PeersTypeOK NoOrphanTask WaitingFrameIsAnnounced
PROPERTY PeersEndWithSession
CHECK_DEADLOCK FALSE
