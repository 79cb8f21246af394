SPECIFICATION Spec
CONSTANTS
  Conns = {c1, c2}
  Slugs = {s1}
  NoPeer = NoPeer
  MaxRooms = 1
  MaxPeers = 2
  MaxRelay = 0
INVARIANTS ReportedRoomStaysEmpty
CHECK_DEADLOCK FALSE
