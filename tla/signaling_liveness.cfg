SPECIFICATION FairSpec
CONSTANTS
  Conns = {c1, c2}
  Slugs = {s1, s2}
  NoPeer = NoPeer
  MaxRooms = 1
  MaxPeers = 2
  MaxRelay = 1
INVARIANTS Capacity ChannelsAreIsolated
PROPERTIES EveryPeerLeaves ReportCompletes
CHECK_DEADLOCK FALSE
