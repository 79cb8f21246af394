----------------------------- MODULE Signaling -----------------------------
(***************************************************************************)
(* The default, in-memory signaling server: SignalingManager and the       *)
(* handle_signaling coroutine that serves one WebSocket connection         *)
(* (sharing/file_sharing/signaling.py), with the report endpoint that      *)
(* closes a room under it (actions.py).                                    *)
(*                                                                         *)
(* One asyncio event loop runs every handler, so code between two awaits   *)
(* that really suspend is one step.  Handlers suspend while they wait for  *)
(* the auth message and the Redis reads of the validators, for the next    *)
(* frame, and for each socket write of a broadcast or of close_room.       *)
(***************************************************************************)
EXTENDS Naturals, FiniteSets

CONSTANTS
    Conns,      \* WebSocket connections; a connection's peer id is its name
    Slugs,      \* channels, by canonical (short) slug
    NoPeer,     \* None
    MaxRooms,   \* MAX_ROOMS
    MaxPeers,   \* MAX_PEERS_PER_ROOM
    MaxRelay    \* MAX_RELAY_SESSION_BYTES, in frames of one unit

ASSUME SignalingAssumption ==
    /\ IsFiniteSet(Conns)
    /\ IsFiniteSet(Slugs)
    /\ NoPeer \notin Conns
    /\ MaxRooms \in Nat
    /\ MaxPeers \in Nat \ {0}
    /\ MaxRelay \in Nat

VARIABLES
    slug, role, \* what each connection asks for in its URL and auth message
    pc,         \* where each connection's handler is
    sock,       \* sock[c]: c's WebSocket is open
    by,         \* by[s]: the connection whose registration created the Room
                \*   object of s, which identifies it; NoPeer without a room
    peers,      \* peers[s]: Room.peers
    host,       \* host[s]: Room.host_id
    idle,       \* idle[s]: the room was emptied over STALE_ROOM_SECONDS ago
    sweepDue,   \* over _CLEANUP_INTERVAL since the last stale-room sweep
    held,       \* held[c]: the Room object c's handler keeps a reference to
    relayed,    \* relayed[r]: Room.relay_bytes of the Room object r
    heard,      \* heard[c]: what c's connected client knows: peers whose
                \*   messages reached it and that it was not told have left
    owed,       \* owed[c]: who c's broadcast_peer_left has still to notify
    channel,    \* channel[s]: the channel's Redis record
    report,     \* report[s]: progress of the report that takes s down
    closing     \* closing[s]: sockets close_room has still to close

connVars == <<slug, role>>
roomVars == <<by, peers, host, idle, sweepDue>>
reportVars == <<channel, report, closing>>
vars == <<slug, role, pc, sock, by, peers, host, idle, sweepDue, held,
          relayed, heard, owed, channel, report, closing>>

Init ==
    /\ slug \in [Conns -> Slugs]
    /\ role \in [Conns -> {"host", "guest"}]
    /\ pc = [c \in Conns |-> "auth"]
    /\ sock = [c \in Conns |-> TRUE]
    /\ by = [s \in Slugs |-> NoPeer]
    /\ peers = [s \in Slugs |-> {}]
    /\ host = [s \in Slugs |-> NoPeer]
    /\ idle = [s \in Slugs |-> FALSE]
    /\ sweepDue = FALSE
    /\ held = [c \in Conns |-> NoPeer]
    /\ relayed = [c \in Conns |-> 0]
    /\ heard = [c \in Conns |-> {}]
    /\ owed = [c \in Conns |-> {}]
    /\ channel = [s \in Slugs |-> "live"]
    /\ report = [s \in Slugs |-> "none"]
    /\ closing = [s \in Slugs |-> {}]

----------------------------------------------------------------------------
(* SignalingManager                                                        *)

OpenRooms == {s \in Slugs : by[s] # NoPeer}

\* (Fault) sweeps a room whose idle clock was not restarted by a new peer.
StaleRooms_IgnoringPeers ==
    IF sweepDue THEN {s \in OpenRooms : idle[s]} ELSE {}

\* What get_or_create_room's throttled sweep removes.
StaleRooms ==
    IF sweepDue THEN {s \in OpenRooms : peers[s] = {} /\ idle[s]} ELSE {}

KeptRooms == OpenRooms \ StaleRooms

\* (Fault) counts the rooms before the new one.
RoomAvailable_OffByOne(s) ==
    s \in KeptRooms \/ Cardinality(KeptRooms) <= MaxRooms

\* get_or_create_room finds or can create a room for s.
RoomAvailable(s) == s \in KeptRooms \/ Cardinality(KeptRooms) < MaxRooms

\* (Fault) looks for a host only when the room is full.
HostTaken_Late(c) ==
    /\ role[c] = "host"
    /\ host[slug[c]] # NoPeer
    /\ Cardinality(peers[slug[c]]) >= MaxPeers

HostTaken(c) == role[c] = "host" /\ host[slug[c]] # NoPeer

\* (Fault) admits one peer over the cap.
RoomFull_OffByOne(s) == Cardinality(peers[s]) > MaxPeers

RoomFull(s) == Cardinality(peers[s]) >= MaxPeers

\* (Fault) asks for a running handler instead of the room's membership.
PeerExists_ByHandler(s, p) == slug[p] = s /\ pc[p] = "serving"

\* (Fault) looks the target up in every room.
PeerExists_AnyRoom(s, p) == \E t \in Slugs : p \in peers[t]

\* peer_exists
PeerExists(s, p) == p \in peers[s]

\* send_to_peer: a socket that is already closed swallows the message.
Deliver(from, to) ==
    heard' = [heard EXCEPT ![to] = IF sock[to] THEN @ \cup {from} ELSE @]

\* Either side closes c's WebSocket; the client that knew its peers is gone.
CloseSocket(c) ==
    /\ sock' = [sock EXCEPT ![c] = FALSE]
    /\ heard' = [heard EXCEPT ![c] = {}]

----------------------------------------------------------------------------
(* handle_signaling: authentication and admission                          *)

\* _authenticate: the credentials are checked against a live channel.
Authenticate(c) ==
    /\ pc[c] = "auth"
    /\ channel[slug[c]] = "live"
    /\ pc' = [pc EXCEPT ![c] = "authed"]
    /\ UNCHANGED <<connVars, sock, roomVars, held, relayed, heard, owed,
                   reportVars>>

\* A connection over the rate limit, late, malformed or not entitled.
Reject(c) ==
    /\ pc[c] = "auth"
    /\ pc' = [pc EXCEPT ![c] = "done"]
    /\ sock' = [sock EXCEPT ![c] = FALSE]
    /\ UNCHANGED <<connVars, roomVars, held, relayed, heard, owed, reportVars>>

\* register_peer returning OK, get_room and the welcome: no suspension.
Admit(c) ==
    LET s == slug[c]
        room == IF s \in KeptRooms THEN by[s] ELSE c
    IN  /\ pc[c] = "authed"
        /\ RoomAvailable(s)
        /\ ~HostTaken(c)
        /\ ~RoomFull(s)
        /\ by' = [t \in Slugs |-> IF t = s THEN room
                                  ELSE IF t \in StaleRooms THEN NoPeer
                                  ELSE by[t]]
        /\ peers' = [peers EXCEPT ![s] = @ \cup {c}]
        /\ host' = [host EXCEPT ![s] = IF role[c] = "host" THEN c ELSE @]
        /\ idle' = [t \in Slugs |-> idle[t] /\ t \notin StaleRooms]
        /\ sweepDue' = FALSE
        /\ held' = [held EXCEPT ![c] = room]
        /\ pc' = [pc EXCEPT ![c] = "serving"]
        /\ UNCHANGED <<connVars, sock, relayed, heard, owed, reportVars>>

\* register_peer refusing; it drops a room it finds empty on the way out.
Refuse(c) ==
    LET s == slug[c]
        dropped == StaleRooms \cup
                   {t \in {s} : RoomAvailable(s) /\ peers[s] = {}}
    IN  /\ pc[c] = "authed"
        /\ ~RoomAvailable(s) \/ HostTaken(c) \/ RoomFull(s)
        /\ by' = [t \in Slugs |-> IF t \in dropped THEN NoPeer ELSE by[t]]
        /\ host' = [t \in Slugs |-> IF t \in dropped THEN NoPeer ELSE host[t]]
        /\ idle' = [t \in Slugs |-> idle[t] /\ t \notin dropped]
        /\ sweepDue' = FALSE
        /\ pc' = [pc EXCEPT ![c] = "done"]
        /\ sock' = [sock EXCEPT ![c] = FALSE]
        /\ UNCHANGED <<connVars, peers, held, relayed, heard, owed, reportVars>>

----------------------------------------------------------------------------
(* handle_signaling: the relay loop                                        *)

\* offer, answer, ice-candidate and the relay: control messages to a target.
Signal(c, to) ==
    /\ pc[c] = "serving"
    /\ PeerExists(slug[c], to)
    /\ Deliver(c, to)
    /\ UNCHANGED <<connVars, pc, sock, roomVars, held, relayed, owed,
                   reportVars>>

\* connect-request without a target goes to host_id_for the slug.
ConnectRequest(c) ==
    /\ pc[c] = "serving"
    /\ host[slug[c]] # NoPeer
    /\ PeerExists(slug[c], host[slug[c]])
    /\ Deliver(c, host[slug[c]])
    /\ UNCHANGED <<connVars, pc, sock, roomVars, held, relayed, owed,
                   reportVars>>

\* (Fault) checks the session cap before it adds the payload.
WithinRelayCap_Before(r) == relayed[r] <= MaxRelay

WithinRelayCap(r) == relayed[r] + 1 <= MaxRelay

\* _handle_binary_relay: counted on the Room object the handler holds.
RelayChunk(c, to) ==
    /\ pc[c] = "serving"
    /\ PeerExists(slug[c], to)
    /\ WithinRelayCap(held[c])
    /\ relayed' = [relayed EXCEPT ![held[c]] = @ + 1]
    /\ Deliver(c, to)
    /\ UNCHANGED <<connVars, pc, sock, roomVars, held, owed, reportVars>>

\* The client goes away; frames it sent before are still processed.
Disconnect(c) ==
    /\ sock[c]
    /\ CloseSocket(c)
    /\ UNCHANGED <<connVars, pc, roomVars, held, relayed, owed, reportVars>>

\* (Fault) no bound on the connection's lifetime.
LoopEnds_OnDisconnect(c) == pc[c] = "serving" /\ ~sock[c]

\* Any frame, error or timer may end the loop; the lifetime timer is the
\* one that always does.
LoopEnds(c) == pc[c] = "serving"

\* (Fault) tells only the host who left.
Notified_HostOnly(s, c) == (peers[s] \ {c}) \cap {host[s]}

\* broadcast_peer_left's snapshot of the room.
Notified(s, c) == peers[s] \ {c}

(***************************************************************************)
(* The loop ends (closed socket, lifetime, message or relay limit, error)  *)
(* and the finally block runs: remove_peer, then broadcast_peer_left up to *)
(* its first send.  Both look the room up by slug again.                   *)
(***************************************************************************)
Leave(c) ==
    LET s == slug[c]
        rest == peers[s] \ {c}
    IN  /\ LoopEnds(c)
        /\ CloseSocket(c)
        /\ peers' = [peers EXCEPT ![s] = rest]
        /\ host' = [host EXCEPT ![s] = IF @ = c THEN NoPeer ELSE @]
        /\ idle' = [idle EXCEPT ![s] = @ /\ rest # {}]
        /\ owed' = [owed EXCEPT ![c] = Notified(s, c)]
        /\ held' = [held EXCEPT ![c] = NoPeer]
        /\ pc' = [pc EXCEPT ![c] = IF Notified(s, c) = {} THEN "done"
                                      ELSE "leaving"]
        /\ UNCHANGED <<connVars, by, sweepDue, relayed, reportVars>>

\* broadcast_peer_left: one send of its snapshot; a dead socket is skipped.
NotifyLeft(c, to) ==
    /\ pc[c] = "leaving"
    /\ to \in owed[c]
    /\ owed' = [owed EXCEPT ![c] = @ \ {to}]
    /\ heard' = [heard EXCEPT ![to] = @ \ {c}]
    /\ pc' = [pc EXCEPT ![c] = IF owed[c] = {to} THEN "done" ELSE @]
    /\ UNCHANGED <<connVars, sock, roomVars, held, relayed, reportVars>>

----------------------------------------------------------------------------
(* report_channel, the channel's expiry, and time                          *)

\* close_room pops the room, then closes the sockets one await at a time.
ReportCloseRoom(s) ==
    /\ report[s] = "none"
    /\ channel[s] = "live"
    /\ report' = [report EXCEPT ![s] = "closing"]
    /\ closing' = [closing EXCEPT ![s] = peers[s]]
    /\ by' = [by EXCEPT ![s] = NoPeer]
    /\ peers' = [peers EXCEPT ![s] = {}]
    /\ host' = [host EXCEPT ![s] = NoPeer]
    /\ idle' = [idle EXCEPT ![s] = FALSE]
    /\ UNCHANGED <<connVars, pc, sock, sweepDue, held, relayed, heard, owed,
                   channel>>

\* (Fault) the first socket found dead ends the loop over the sockets.
ReportCloseSocket_Abort(s, c) ==
    /\ c \in closing[s]
    /\ closing' = [closing EXCEPT ![s] = IF sock[c] THEN @ \ {c} ELSE {}]
    /\ CloseSocket(c)
    /\ UNCHANGED <<connVars, pc, roomVars, held, relayed, owed, channel, report>>

\* (Fault) a socket found dead raises out of the report.
ReportCloseSocket_Raise(s, c) ==
    /\ c \in closing[s]
    /\ sock[c]
    /\ closing' = [closing EXCEPT ![s] = @ \ {c}]
    /\ CloseSocket(c)
    /\ UNCHANGED <<connVars, pc, roomVars, held, relayed, owed, channel, report>>

\* A socket that fails to close does not stop the loop over the others.
ReportCloseSocket(s, c) ==
    /\ c \in closing[s]
    /\ closing' = [closing EXCEPT ![s] = @ \ {c}]
    /\ CloseSocket(c)
    /\ UNCHANGED <<connVars, pc, roomVars, held, relayed, owed, channel, report>>

\* delete_channel runs only when close_room has returned.
ReportDelete(s) ==
    /\ report[s] = "closing"
    /\ closing[s] = {}
    /\ report' = [report EXCEPT ![s] = "done"]
    /\ channel' = [channel EXCEPT ![s] = "gone"]
    /\ UNCHANGED <<connVars, pc, sock, roomVars, held, relayed, heard, owed,
                   closing>>

ChannelExpires(s) ==
    /\ channel[s] = "live"
    /\ channel' = [channel EXCEPT ![s] = "gone"]
    /\ UNCHANGED <<connVars, pc, sock, roomVars, held, relayed, heard, owed,
                   report, closing>>

RoomAges(s) ==
    /\ s \in OpenRooms
    /\ peers[s] = {}
    /\ ~idle[s]
    /\ idle' = [idle EXCEPT ![s] = TRUE]
    /\ UNCHANGED <<connVars, pc, sock, by, peers, host, sweepDue, held,
                   relayed, heard, owed, reportVars>>

SweepBecomesDue ==
    /\ ~sweepDue
    /\ sweepDue' = TRUE
    /\ UNCHANGED <<connVars, pc, sock, by, peers, host, idle, held, relayed,
                   heard, owed, reportVars>>

----------------------------------------------------------------------------

Handler(c) ==
    \/ Authenticate(c) \/ Reject(c) \/ Admit(c) \/ Refuse(c)
    \/ ConnectRequest(c) \/ Leave(c)
    \/ \E to \in Conns : Signal(c, to) \/ RelayChunk(c, to) \/ NotifyLeft(c, to)

Report(s) ==
    \/ ReportCloseRoom(s) \/ ReportDelete(s)
    \/ \E c \in Conns : ReportCloseSocket(s, c)

Next ==
    \/ \E c \in Conns : Handler(c) \/ Disconnect(c)
    \/ \E s \in Slugs : Report(s) \/ ChannelExpires(s) \/ RoomAges(s)
    \/ SweepBecomesDue

(***************************************************************************)
(* The event loop runs every ready task: a timer always ends the wait for  *)
(* the auth message (AUTH_TIMEOUT_SECONDS) and the relay loop              *)
(* (MAX_CONNECTION_LIFETIME), and the report coroutine is not abandoned    *)
(* once it has started.  Nothing forces clients or reporters to act.       *)
(***************************************************************************)
Fairness ==
    /\ \A c \in Conns :
          /\ WF_vars(Reject(c)) /\ WF_vars(Admit(c)) /\ WF_vars(Refuse(c))
          /\ WF_vars(Leave(c))
          /\ \A to \in Conns : WF_vars(NotifyLeft(c, to))
    /\ \A s \in Slugs :
          /\ WF_vars(ReportDelete(s))
          /\ \A c \in Conns : WF_vars(ReportCloseSocket(s, c))

Spec == Init /\ [][Next]_vars
FairSpec == Spec /\ Fairness

----------------------------------------------------------------------------
(* Properties                                                              *)

\* State of the right shape, no Room object ever over its relay cap.
TypeOK ==
    /\ slug \in [Conns -> Slugs]
    /\ role \in [Conns -> {"host", "guest"}]
    /\ pc \in [Conns -> {"auth", "authed", "serving", "leaving", "done"}]
    /\ sock \in [Conns -> BOOLEAN]
    /\ by \in [Slugs -> Conns \cup {NoPeer}]
    /\ peers \in [Slugs -> SUBSET Conns]
    /\ host \in [Slugs -> Conns \cup {NoPeer}]
    /\ idle \in [Slugs -> BOOLEAN]
    /\ sweepDue \in BOOLEAN
    /\ held \in [Conns -> Conns \cup {NoPeer}]
    /\ relayed \in [Conns -> 0 .. MaxRelay]
    /\ heard \in [Conns -> SUBSET Conns]
    /\ owed \in [Conns -> SUBSET Conns]
    /\ channel \in [Slugs -> {"live", "gone"}]
    /\ report \in [Slugs -> {"none", "closing", "done"}]
    /\ closing \in [Slugs -> SUBSET Conns]

(***************************************************************************)
(* Room.host_id names exactly the registered hosts, so a room never has    *)
(* two hosts and never refuses one for a host that is gone                 *)
(* (register_peer, remove_peer, close_room).                               *)
(***************************************************************************)
HostIndexed ==
    \A s \in Slugs, c \in Conns :
        host[s] = c <=> c \in peers[s] /\ role[c] = "host"

(***************************************************************************)
(* Every registered peer has a running handler that will unregister it and *)
(* counts its relay traffic on the room it is in; a running handler        *)
(* outside a room is one whose room a report closed.                       *)
(***************************************************************************)
MembersAreServed ==
    /\ \A s \in Slugs : \A c \in peers[s] :
          pc[c] = "serving" /\ slug[c] = s /\ held[c] = by[s]
    /\ \A c \in Conns :
          pc[c] = "serving" /\ c \notin peers[slug[c]]
              => report[slug[c]] # "none"

\* Only an existing room has members, and rooms and members are capped
\* (MAX_ROOMS, MAX_PEERS_PER_ROOM).
Capacity ==
    /\ Cardinality(OpenRooms) <= MaxRooms
    /\ \A s \in Slugs :
          /\ Cardinality(peers[s]) <= MaxPeers
          /\ peers[s] # {} => s \in OpenRooms

(***************************************************************************)
(* A connected peer in a room never believes in a ghost: whoever it        *)
(* has heard from is still served, or its departure is still being         *)
(* announced to it, even when the sender came from a room that a report    *)
(* closed meanwhile.                                                       *)
(***************************************************************************)
NoGhostPeers ==
    \A s \in Slugs : \A c \in peers[s] : \A p \in heard[c] :
        pc[p] = "serving" \/ c \in owed[p]

\* No message crosses channels, not even one that a handler sends after its
\* own room was closed.
ChannelsAreIsolated ==
    \A c \in Conns : \A p \in heard[c] : slug[p] = slug[c]

(***************************************************************************)
(* After close_room no member of the closed room hears another peer again, *)
(* though both handlers and sockets may still be running.                  *)
(***************************************************************************)
EvictedHearNothing ==
    [][\A c \in Conns :
         pc[c] = "serving" /\ c \notin peers[slug[c]]
             => heard'[c] \subseteq heard[c]]_vars

(***************************************************************************)
(* close_room misses no member: a handler whose room was closed has its    *)
(* socket closed, or still on the list of those to close.                  *)
(***************************************************************************)
EvictedAreDisconnected ==
    \A c \in Conns :
        pc[c] = "serving" /\ c \notin peers[slug[c]] /\ sock[c]
            => c \in closing[slug[c]]

(***************************************************************************)
(* A peer leaves a room only through its own handler or through a report   *)
(* on that room: neither the stale-room sweep nor another peer's exit nor  *)
(* a refused registration removes it.                                      *)
(***************************************************************************)
OnlyLeaversLeave ==
    [][\A s \in Slugs : \A c \in peers[s] :
         \/ c \in peers'[s] /\ held[c] = by'[s]
         \/ pc'[c] \in {"leaving", "done"}
         \/ report'[s] # report[s]]_vars

\* Every admitted peer is eventually unregistered and its departure
\* announced, because MAX_CONNECTION_LIFETIME bounds the relay loop.
EveryPeerLeaves ==
    \A c \in Conns : pc[c] = "serving" ~> pc[c] = "done"

\* A report that has closed the room goes on to delete the channel, whatever
\* the members' sockets do.
ReportCompletes ==
    \A s \in Slugs : report[s] = "closing" ~> report[s] = "done"

\* The manager implements the RoomTransport protocol.
Transport == INSTANCE RoomTransport WITH
    Peers <- Conns, open <- OpenRooms, members <- peers, hostOf <- host

ImplementsRoomTransport == Transport!RTSpec

(***************************************************************************)
(* actions.py:1272-1273 says the channel is deleted "so the uploader       *)
(* cannot reconnect": once a report is done its room would stay empty.     *)
(***************************************************************************)
ReportedRoomStaysEmpty ==
    \A s \in Slugs : report[s] = "done" => peers[s] = {}
============================================================================
