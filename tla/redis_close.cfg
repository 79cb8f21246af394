SPECIFICATION Spec
CONSTANTS
  Conns = {c1, c2}
  Hosts = {c1}
  Workers = {w1, w2}
  NoPeer = NoPeer
  MaxPeers = 2
  RoomTTL = 2
  MaxSends = 0
PROPERTIES CloseReachesEveryPeer
