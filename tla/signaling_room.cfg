SPECIFICATION Spec
CONSTANTS
  Conns = {c1, c2, c3}
  Slugs = {s1}
  NoPeer = NoPeer
  MaxRooms = 1
  MaxPeers = 2
  MaxRelay = 1
SYMMETRY ConnSymmetry
INVARIANTS TypeOK HostIndexed MembersAreServed NoGhostPeers EvictedAreDisconnected
PROPERTIES EvictedHearNothing OnlyLeaversLeave ImplementsRoomTransport
CHECK_DEADLOCK FALSE
