SPECIFICATION Spec
CONSTANTS
  Conns = {c1, c2, c3}
  Hosts = {c1, c2}
  Workers = {w1, w2}
  NoPeer = NoPeer
  MaxPeers = 2
  RoomTTL = 2
  MaxSends = 1
SYMMETRY RedisSymmetry
INVARIANTS TypeOK HostIsAccountedFor RowOutlivesLease NoGhostPeers
