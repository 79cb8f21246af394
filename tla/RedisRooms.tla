----------------------------- MODULE RedisRooms -----------------------------
(***************************************************************************)
(* The Redis signaling backend: RedisRoomTransport, used by handle_        *)
(* signaling on several worker processes (sharing/file_sharing/            *)
(* signaling_redis_transport.py).  Rooms share nothing, so one is          *)
(* modelled: its peers hash and host string in Redis, and the table of     *)
(* local sockets and the pub/sub subscription each worker keeps.           *)
(*                                                                         *)
(* A step is one Redis command or script, with what the worker does from   *)
(* its reply to the next await.  No process is obliged to take its next    *)
(* step: a worker that crashes, a removal task that a RedisError ends, a   *)
(* refused handler and a worker whose subscription fails are processes     *)
(* that never take another one.  A worker that is subscribed receives      *)
(* every envelope, in order: its pub/sub connection does not break, and    *)
(* no PUBLISH of a broadcast fails.                                        *)
(***************************************************************************)
EXTENDS Integers, FiniteSets, Sequences

CONSTANTS
    Conns,      \* authenticated connections; each has a fresh uuid4 as peer id
    Hosts,      \* those whose auth message says role host; the rest are guests
    Workers,    \* uvicorn worker processes
    NoPeer,     \* an absent host string
    MaxPeers,   \* _MAX_PEERS_PER_ROOM
    RoomTTL,    \* _ROOM_TTL_SECONDS, in ticks
    MaxSends    \* bound: messages relayed in all

ASSUME RedisRoomsAssumption ==
    /\ IsFiniteSet(Conns)
    /\ Hosts \subseteq Conns
    /\ NoPeer \notin Conns
    /\ MaxPeers \in Nat
    /\ RoomTTL \in Nat \ {0}
    /\ MaxSends \in Nat

VARIABLES
    worker,           \* the process that serves each connection
    pc,               \* where each connection's handler is
    peers, peersTTL,  \* fields of the peers hash, and the ticks it still has
    host, hostTTL,    \* the host string, and the ticks it still has
    inbox,      \* inbox[c]: envelopes c's worker has received for c
    heard,      \* heard[c]: peers c's client has a message from and was not
                \*   told have left
    owed,       \* owed[c]: who c's broadcast_peer_left has still to tell
    removal,    \* removal[c]: where c's _async_remove_peer task is
    sent,       \* messages relayed so far
    closing,    \* where close_room is
    toClose,    \* the peers it has still to publish a close for
    lease,      \* ghost: RoomTTL less the ticks since c registered
    evicted     \* ghost: running handlers whose row close_room has deleted

redisVars == <<peers, peersTTL, host, hostTTL>>
clientVars == <<inbox, heard>>
closeVars == <<closing, toClose>>
ghostVars == <<lease, evicted>>
vars == <<worker, pc, redisVars, clientVars, owed, removal, sent, closeVars,
          ghostVars>>

\* The sockets in some worker's _local_ws table.
Connected == {c \in Conns : pc[c] \in {"subscribing", "serving"}}

Msg(c) == [kind |-> "msg", from |-> c]
Left(c) == [kind |-> "left", from |-> c]
CloseEnvelope == [kind |-> "close", from |-> NoPeer]
Envelope == [kind : {"msg", "left"}, from : Conns] \cup {CloseEnvelope}

Init ==
    /\ worker \in [Conns -> Workers]
    /\ pc = [c \in Conns |-> "authed"]
    /\ peers = {} /\ peersTTL = 0
    /\ host = NoPeer /\ hostTTL = 0
    /\ inbox = [c \in Conns |-> <<>>]
    /\ heard = [c \in Conns |-> {}]
    /\ owed = [c \in Conns |-> {}]
    /\ removal = [c \in Conns |-> "none"]
    /\ sent = 0
    /\ closing = "none" /\ toClose = {}
    /\ lease = [c \in Conns |-> 0] /\ evicted = {}

----------------------------------------------------------------------------
(* register_peer                                                           *)

HostTaken(c) == c \in Hosts /\ host # NoPeer

\* (Fault) admits one peer over the cap.
RoomFull_OffByOne == Cardinality(peers) > MaxPeers

RoomFull == Cardinality(peers) >= MaxPeers

\* (Fault) EXPIRE only when the hash is created.
RestartedTTL_OnCreate == IF peers = {} THEN RoomTTL ELSE peersTTL

\* The script's EXPIRE: every registration restarts the hash's clock.
RestartedTTL == RoomTTL

(***************************************************************************)
(* ATOMIC_REGISTER_PEER_LUA returning OK, and the local socket recorded.   *)
(* HOST_TAKEN, ROOM_FULL and a RedisError end the handler instead.         *)
(***************************************************************************)
Register(c) ==
    /\ pc[c] = "authed"
    /\ ~HostTaken(c)
    /\ ~RoomFull
    /\ peers' = peers \cup {c}
    /\ peersTTL' = RestartedTTL
    /\ host' = IF c \in Hosts THEN c ELSE host
    /\ hostTTL' = IF c \in Hosts THEN RoomTTL ELSE hostTTL
    /\ lease' = [lease EXCEPT ![c] = RoomTTL]
    /\ pc' = [pc EXCEPT ![c] = "subscribing"]
    /\ UNCHANGED <<worker, clientVars, owed, removal, sent, closeVars,
                   evicted>>

\* SUBSCRIBE to c's channel, and the relay loop starts.
Subscribe(c) ==
    /\ pc[c] = "subscribing"
    /\ pc' = [pc EXCEPT ![c] = "serving"]
    /\ UNCHANGED <<worker, redisVars, clientVars, owed, removal, sent,
                   closeVars, ghostVars>>

----------------------------------------------------------------------------
(* Messaging                                                               *)

\* d's socket is in the _local_ws of c's worker.
Local(c, d) == worker[c] = worker[d] /\ d \in Connected

\* d's client learns of a peer or of its departure.
Tell(d, m) ==
    heard' = [heard EXCEPT ![d] = IF m.kind = "msg" THEN @ \cup {m.from}
                                                   ELSE @ \ {m.from}]

\* PUBLISH on d's channel: the worker that is subscribed, if any, gets it.
Publish(d, m) ==
    inbox' = IF pc[d] = "serving" THEN [inbox EXCEPT ![d] = Append(@, m)]
                                  ELSE inbox

\* The two paths of send_to_peer and of broadcast_peer_left.
Deliver(c, d, m) ==
    \/ Local(c, d) /\ Tell(d, m) /\ UNCHANGED inbox
    \/ ~Local(c, d) /\ Publish(d, m) /\ UNCHANGED heard

(***************************************************************************)
(* c's handler relays to a peer that HEXISTS finds in the room.  The       *)
(* commands after that only lose the message if the peer leaves meanwhile. *)
(***************************************************************************)
Send(c, d) ==
    /\ pc[c] = "serving"
    /\ d \in peers
    /\ sent < MaxSends
    /\ sent' = sent + 1
    /\ Deliver(c, d, Msg(c))
    /\ UNCHANGED <<worker, pc, redisVars, owed, removal, closeVars,
                   ghostVars>>

(***************************************************************************)
(* c's relay loop has ended: remove_peer drops the local socket, so that   *)
(* whatever comes for c is dropped, and schedules _async_remove_peer.      *)
(***************************************************************************)
RemovePeer(c) ==
    /\ pc' = [pc EXCEPT ![c] = "leaving"]
    /\ removal' = [removal EXCEPT ![c] = "hdel"]
    /\ inbox' = [inbox EXCEPT ![c] = <<>>]
    /\ heard' = [heard EXCEPT ![c] = {}]
    /\ lease' = [lease EXCEPT ![c] = 0]
    /\ evicted' = evicted \ {c}
    /\ UNCHANGED <<worker, redisVars, owed, sent, closeVars>>

\* _dispatch_pubsub_message: a text or binary envelope.
DispatchMessage(d) ==
    /\ inbox[d] # <<>>
    /\ Head(inbox[d]) # CloseEnvelope
    /\ inbox' = [inbox EXCEPT ![d] = Tail(@)]
    /\ Tell(d, Head(inbox[d]))
    /\ UNCHANGED <<worker, pc, redisVars, owed, removal, sent, closeVars,
                   ghostVars>>

\* A close envelope closes the socket, which ends the relay loop.
DispatchClose(d) ==
    /\ inbox[d] # <<>>
    /\ Head(inbox[d]) = CloseEnvelope
    /\ RemovePeer(d)

\* The relay loop ends for any other reason.
Leave(c) == pc[c] = "serving" /\ RemovePeer(c)

----------------------------------------------------------------------------
(* The rest of the finally block: broadcast_peer_left, and the removal     *)
(* task that runs beside it                                                *)

\* (Fault) tells only the peers of its own worker.
Remaining_Local(c) == {d \in peers \ {c} : worker[d] = worker[c]}

\* HKEYS, without the peer that leaves.
Remaining(c) == peers \ {c}

ListRemaining(c) ==
    /\ pc[c] = "leaving"
    /\ owed' = [owed EXCEPT ![c] = Remaining(c)]
    /\ pc' = [pc EXCEPT ![c] = "gone"]
    /\ UNCHANGED <<worker, redisVars, clientVars, removal, sent, closeVars,
                   ghostVars>>

TellLeft(c, d) ==
    /\ d \in owed[c]
    /\ owed' = [owed EXCEPT ![c] = @ \ {d}]
    /\ Deliver(c, d, Left(c))
    /\ UNCHANGED <<worker, pc, redisVars, removal, sent, closeVars,
                   ghostVars>>

\* HDEL; Redis deletes a hash with its last field.
RemoveRow(c) ==
    /\ removal[c] = "hdel"
    /\ removal' = [removal EXCEPT ![c] = "get"]
    /\ peers' = peers \ {c}
    /\ peersTTL' = IF peers' = {} THEN 0 ELSE peersTTL
    /\ UNCHANGED <<worker, pc, host, hostTTL, clientVars, owed, sent,
                   closeVars, ghostVars>>

\* GET of the host string.
ReadHost(c) ==
    /\ removal[c] = "get"
    /\ removal' = [removal EXCEPT ![c] = IF host = c THEN "delete" ELSE "none"]
    /\ UNCHANGED <<worker, pc, redisVars, clientVars, owed, sent, closeVars,
                   ghostVars>>

\* DELETE of the host string, which was c when it was read.
RemoveHost(c) ==
    /\ removal[c] = "delete"
    /\ removal' = [removal EXCEPT ![c] = "none"]
    /\ host' = NoPeer /\ hostTTL' = 0
    /\ UNCHANGED <<worker, pc, peers, peersTTL, clientVars, owed, sent,
                   closeVars, ghostVars>>

----------------------------------------------------------------------------
(* close_room, by the report handler of some worker                        *)

\* HKEYS.  When it finds no peer, close_room returns and nothing changes.
ListPeers ==
    /\ closing = "none"
    /\ peers # {}
    /\ closing' = "publishing"
    /\ toClose' = peers
    /\ UNCHANGED <<worker, pc, redisVars, clientVars, owed, removal, sent,
                   ghostVars>>

PublishClose(d) ==
    /\ d \in toClose
    /\ toClose' = toClose \ {d}
    /\ Publish(d, CloseEnvelope)
    /\ UNCHANGED <<worker, pc, redisVars, heard, owed, removal, sent,
                   closing, ghostVars>>

\* (Fault) only the peers hash is deleted.
DeletedHost_Forgotten == host' = host /\ hostTTL' = hostTTL

DeletedHost == host' = NoPeer /\ hostTTL' = 0

\* DELETE of both keys, with any row added since HKEYS.
DeleteRoom ==
    /\ closing = "publishing"
    /\ toClose = {}
    /\ closing' = "done"
    /\ peers' = {} /\ peersTTL' = 0
    /\ DeletedHost
    /\ evicted' = evicted \cup (peers \cap Connected)
    /\ UNCHANGED <<worker, pc, clientVars, owed, removal, sent, toClose,
                   lease>>

----------------------------------------------------------------------------

Countdown(t) == IF t = 0 THEN 0 ELSE t - 1

\* One tick of the clock; Redis deletes a key that has none left.
Tick ==
    /\ peersTTL' = Countdown(peersTTL)
    /\ peers' = IF peersTTL' = 0 THEN {} ELSE peers
    /\ hostTTL' = Countdown(hostTTL)
    /\ host' = IF hostTTL' = 0 THEN NoPeer ELSE host
    /\ lease' = [c \in Conns |-> Countdown(lease[c])]
    /\ UNCHANGED <<worker, pc, clientVars, owed, removal, sent, closeVars,
                   evicted>>

Handler(c) ==
    \/ Register(c) \/ Subscribe(c) \/ Leave(c) \/ ListRemaining(c)
    \/ \E d \in Conns : Send(c, d) \/ TellLeft(c, d)

Subscriber(d) == DispatchMessage(d) \/ DispatchClose(d)

Removal(c) == RemoveRow(c) \/ ReadHost(c) \/ RemoveHost(c)

CloseRoom == ListPeers \/ DeleteRoom \/ \E d \in Conns : PublishClose(d)

Next ==
    \/ \E c \in Conns : Handler(c) \/ Subscriber(c) \/ Removal(c)
    \/ CloseRoom
    \/ Tick

Spec == Init /\ [][Next]_vars

----------------------------------------------------------------------------
(* Properties                                                              *)

\* State of the right shape.  Redis keeps no empty key, and never more peers
\* than the cap, whichever workers register them.
TypeOK ==
    /\ worker \in [Conns -> Workers]
    /\ pc \in [Conns -> {"authed", "subscribing", "serving", "leaving", "gone"}]
    /\ peers \in SUBSET Conns /\ Cardinality(peers) <= MaxPeers
    /\ peersTTL \in 0 .. RoomTTL /\ (peers = {} <=> peersTTL = 0)
    /\ host \in Conns \cup {NoPeer}
    /\ hostTTL \in 0 .. RoomTTL /\ (host = NoPeer <=> hostTTL = 0)
    /\ inbox \in [Conns -> Seq(Envelope)]
    /\ heard \in [Conns -> SUBSET Conns]
    /\ owed \in [Conns -> SUBSET Conns]
    /\ removal \in [Conns -> {"none", "hdel", "get", "delete"}]
    /\ sent \in 0 .. MaxSends
    /\ closing \in {"none", "publishing", "done"}
    /\ toClose \in SUBSET Conns
    /\ lease \in [Conns -> 0 .. RoomTTL]
    /\ evicted \in SUBSET Conns

(***************************************************************************)
(* The host string never names a stranger: it names a host with a row in   *)
(* the peers hash, or one whose removal stopped between HDEL and DELETE.   *)
(* register_peer, _async_remove_peer and close_room write the two keys in  *)
(* different commands, and Redis expires them separately.                  *)
(***************************************************************************)
HostIsAccountedFor ==
    host # NoPeer =>
        /\ host \in Hosts
        /\ host \in peers \/ removal[host] \in {"get", "delete"}

(***************************************************************************)
(* A registration lasts as long as it is worth: a connection that          *)
(* registered less than the room's TTL ago is still found by the others,   *)
(* however old the room and however many came and left since, unless       *)
(* close_room deleted the room.                                            *)
(***************************************************************************)
RowOutlivesLease ==
    \A c \in Connected \ evicted : lease[c] > 0 => c \in peers

(***************************************************************************)
(* A client never believes in a ghost: whoever it has heard from, over its *)
(* own worker or over pub/sub, is still there, or its departure is still   *)
(* being announced or waits for the client's subscriber.                   *)
(***************************************************************************)
NoGhostPeers ==
    \A d \in Connected \ evicted : \A c \in heard[d] :
        lease[d] > 0 =>
            \/ c \in Connected
            \/ pc[c] = "leaving"
            \/ d \in owed[c]
            \/ \E i \in DOMAIN inbox[d] : inbox[d][i] = Left(c)

(***************************************************************************)
(* specs/redis-signaling-transport.md:125, "close_room disconnects every   *)
(* peer across workers": every peer that close_room has read and that is   *)
(* still connected gets the close envelope.                                *)
(***************************************************************************)
CloseReachesEveryPeer ==
    [][\A d \in toClose \ toClose' :
          d \in Connected =>
              \E i \in DOMAIN inbox'[d] : inbox'[d][i] = CloseEnvelope]_vars
=============================================================================
