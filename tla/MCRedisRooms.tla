---------------------------- MODULE MCRedisRooms ----------------------------
(* Small instances of RedisRooms for TLC.                                  *)
EXTENDS RedisRooms, TLC

\* Hosts are alike, guests are alike, and so are workers.
RedisSymmetry ==
    Permutations(Hosts) \cup Permutations(Conns \ Hosts) \cup
    Permutations(Workers)
=============================================================================
