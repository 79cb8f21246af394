--------------------------- MODULE RoomTransport ---------------------------
(***************************************************************************)
(* What a signaling backend promises to the WebSocket handlers: the        *)
(* RoomTransport protocol of sharing/file_sharing/signaling_transport.py.  *)
(* A room is a set of registered peers with at most one host among them;   *)
(* every operation is atomic.  The in-memory backend (module Signaling)    *)
(* implements it; the Redis one (module RedisRooms) takes an operation     *)
(* apart into several commands and keeps less of it.                       *)
(***************************************************************************)
EXTENDS Naturals, FiniteSets

CONSTANTS
    Peers,      \* peer ids: a fresh uuid4 for every authenticated connection
    Slugs,      \* canonical (short) slugs
    NoPeer,     \* Python's None where a peer id is expected
    MaxRooms,   \* MAX_ROOMS
    MaxPeers    \* MAX_PEERS_PER_ROOM

VARIABLES
    role,       \* role[p]: the canonical role p authenticated with
    open,       \* the slugs that have a room, empty rooms included
    members,    \* members[s]: the peers registered in s
    hostOf      \* hostOf[s]: the host index, NoPeer when there is none

rtVars == <<role, open, members, hostOf>>

RTInit ==
    /\ role \in [Peers -> {"host", "guest"}]
    /\ open = {}
    /\ members = [s \in Slugs |-> {}]
    /\ hostOf = [s \in Slugs |-> NoPeer]

EmptyRooms == {s \in open : members[s] = {}}

(***************************************************************************)
(* register_peer returning OK.  The call may also drop empty rooms (the    *)
(* in-memory backend sweeps stale ones while it looks the room up).        *)
(***************************************************************************)
RegisterPeer(s, p) ==
    /\ \A t \in Slugs : p \notin members[t]
    /\ role[p] = "host" => hostOf[s] = NoPeer
    /\ Cardinality(members[s]) < MaxPeers
    /\ \E dropped \in SUBSET EmptyRooms :
          /\ s \in open \ dropped \/ Cardinality(open \ dropped) < MaxRooms
          /\ open' = (open \ dropped) \cup {s}
    /\ members' = [members EXCEPT ![s] = @ \cup {p}]
    /\ hostOf' = [hostOf EXCEPT ![s] = IF role[p] = "host" THEN p ELSE @]
    /\ UNCHANGED role

\* remove_peer: "updates the host-index if the departing peer was the host".
RemovePeer(s, p) ==
    /\ p \in members[s]
    /\ members' = [members EXCEPT ![s] = @ \ {p}]
    /\ hostOf' = [hostOf EXCEPT ![s] = IF @ = p THEN NoPeer ELSE @]
    /\ UNCHANGED <<role, open>>

\* close_room: the room and all its peers at once.
CloseRoom(s) ==
    /\ open' = open \ {s}
    /\ members' = [members EXCEPT ![s] = {}]
    /\ hostOf' = [hostOf EXCEPT ![s] = NoPeer]
    /\ UNCHANGED role

\* A refused registration changes nothing but the set of empty rooms.
DropEmptyRooms ==
    /\ \E dropped \in SUBSET EmptyRooms : open' = open \ dropped
    /\ UNCHANGED <<role, members, hostOf>>

RTNext ==
    \/ \E s \in Slugs, p \in Peers : RegisterPeer(s, p) \/ RemovePeer(s, p)
    \/ \E s \in Slugs : CloseRoom(s)
    \/ DropEmptyRooms

RTSpec == RTInit /\ [][RTNext]_rtVars
============================================================================
