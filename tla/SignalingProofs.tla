-------------------------- MODULE SignalingProofs --------------------------
(***************************************************************************)
(* Machine-checked proofs about module Signaling, for any number of        *)
(* connections and channels and any caps.                                  *)
(***************************************************************************)
EXTENDS Signaling, FiniteSetTheorems, TLAPS

(***************************************************************************)
(* The state is well formed and no Room object exceeds its relay cap.      *)
(***************************************************************************)
LEMMA TypeInit == Init => TypeOK
<1> SUFFICES ASSUME Init
             PROVE  TypeOK
    OBVIOUS
<1> USE SignalingAssumption DEF SignalingAssumption, Init
<1>1. relayed \in [Conns -> 0 .. MaxRelay]
    OBVIOUS
<1>2. /\ sock \in [Conns -> BOOLEAN]
      /\ idle \in [Slugs -> BOOLEAN]
      /\ sweepDue \in BOOLEAN
    OBVIOUS
<1>3. QED
    BY <1>1, <1>2 DEF TypeOK

LEMMA TypeStep == TypeOK /\ [Next]_vars => TypeOK'
<1> SUFFICES ASSUME TypeOK, [Next]_vars
             PROVE  TypeOK'
    OBVIOUS
<1> USE SignalingAssumption DEF SignalingAssumption, TypeOK, connVars, roomVars, reportVars
<1>1. ASSUME NEW c \in Conns, Authenticate(c) \/ Reject(c)
      PROVE  TypeOK'
  <2>1. CASE Authenticate(c)
      BY <2>1 DEF Authenticate
  <2>2. CASE Reject(c)
      BY <2>2 DEF Reject
  <2>3. QED
      BY <1>1, <2>1, <2>2
<1>2. ASSUME NEW c \in Conns, Admit(c)
      PROVE  TypeOK'
  <2> DEFINE s == slug[c]
             room == IF s \in KeptRooms THEN by[s] ELSE c
  <2>1. s \in Slugs /\ room \in Conns \cup {NoPeer}
      OBVIOUS
  <2>2. /\ by' = [t \in Slugs |-> IF t = s THEN room
                                  ELSE IF t \in StaleRooms THEN NoPeer
                                  ELSE by[t]]
        /\ idle' = [t \in Slugs |-> idle[t] /\ t \notin StaleRooms]
      BY <1>2 DEF Admit
  <2>3. \A t \in Slugs :
           (IF t = s THEN room ELSE IF t \in StaleRooms THEN NoPeer ELSE by[t])
              \in Conns \cup {NoPeer}
      BY <2>1
  <2> HIDE DEF room, s
  <2>4. by' \in [Slugs -> Conns \cup {NoPeer}]
      BY <2>2, <2>3, Zenon
  <2>5. idle' \in [Slugs -> BOOLEAN]
      BY <2>2
  <2>6. /\ peers' = [peers EXCEPT ![s] = @ \cup {c}]
        /\ host' = [host EXCEPT ![s] = IF role[c] = "host" THEN c ELSE @]
        /\ held' = [held EXCEPT ![c] = room]
        /\ pc' = [pc EXCEPT ![c] = "serving"]
        /\ sweepDue' = FALSE
        /\ UNCHANGED <<connVars, sock, relayed, heard, owed, reportVars>>
      BY <1>2 DEF Admit, room, s
  <2>7. /\ peers' \in [Slugs -> SUBSET Conns]
        /\ host' \in [Slugs -> Conns \cup {NoPeer}]
        /\ held' \in [Conns -> Conns \cup {NoPeer}]
        /\ pc' \in [Conns -> {"auth", "authed", "serving", "leaving", "done"}]
      BY <2>1, <2>6
  <2>8. QED
      BY <2>4, <2>5, <2>6, <2>7
<1>3. ASSUME NEW c \in Conns, Refuse(c)
      PROVE  TypeOK'
  <2>1. PICK dropped :
           /\ by' = [t \in Slugs |-> IF t \in dropped THEN NoPeer ELSE by[t]]
           /\ host' = [t \in Slugs |-> IF t \in dropped THEN NoPeer ELSE host[t]]
           /\ idle' = [t \in Slugs |-> idle[t] /\ t \notin dropped]
      BY <1>3, Zenon DEF Refuse
  <2>2. /\ by' \in [Slugs -> Conns \cup {NoPeer}]
        /\ host' \in [Slugs -> Conns \cup {NoPeer}]
        /\ idle' \in [Slugs -> BOOLEAN]
      BY <2>1
  <2>3. /\ pc' = [pc EXCEPT ![c] = "done"]
        /\ sock' = [sock EXCEPT ![c] = FALSE]
        /\ sweepDue' = FALSE
        /\ UNCHANGED <<connVars, peers, held, relayed, heard, owed, reportVars>>
      BY <1>3 DEF Refuse
  <2>4. QED
      BY <2>2, <2>3
<1>4. ASSUME NEW c \in Conns, ConnectRequest(c)
      PROVE  TypeOK'
    BY <1>4 DEF ConnectRequest, Deliver, PeerExists
<1>5. ASSUME NEW c \in Conns, NEW to \in Conns, Signal(c, to)
      PROVE  TypeOK'
    BY <1>5 DEF Signal, Deliver
<1>6. ASSUME NEW c \in Conns, NEW to \in Conns, RelayChunk(c, to)
      PROVE  TypeOK'
  <2>1. relayed' \in [Conns -> 0 .. MaxRelay]
    <3>1. CASE held[c] \in Conns
        BY <1>6, <3>1 DEF RelayChunk, WithinRelayCap
    <3>2. CASE held[c] = NoPeer
        BY <1>6, <3>2 DEF RelayChunk
    <3>3. QED
        BY <3>1, <3>2
  <2>2. heard' \in [Conns -> SUBSET Conns]
      BY <1>6 DEF RelayChunk, Deliver
  <2>3. QED
      BY <1>6, <2>1, <2>2 DEF RelayChunk
<1>7. ASSUME NEW c \in Conns, Disconnect(c)
      PROVE  TypeOK'
    BY <1>7 DEF Disconnect, CloseSocket
<1>8. ASSUME NEW c \in Conns, Leave(c)
      PROVE  TypeOK'
    BY <1>8 DEF Leave, CloseSocket, Notified
<1>9. ASSUME NEW c \in Conns, NEW to \in Conns, NotifyLeft(c, to)
      PROVE  TypeOK'
    BY <1>9 DEF NotifyLeft
<1>10. ASSUME NEW s \in Slugs, ReportCloseRoom(s) \/ ReportDelete(s)
       PROVE  TypeOK'
  <2>1. CASE ReportCloseRoom(s)
    <3>1. /\ closing' \in [Slugs -> SUBSET Conns]
          /\ by' \in [Slugs -> Conns \cup {NoPeer}]
          /\ peers' \in [Slugs -> SUBSET Conns]
          /\ host' \in [Slugs -> Conns \cup {NoPeer}]
        BY <2>1 DEF ReportCloseRoom
    <3>2. /\ idle' \in [Slugs -> BOOLEAN]
          /\ report' \in [Slugs -> {"none", "closing", "done"}]
        BY <2>1 DEF ReportCloseRoom
    <3>3. QED
        BY <2>1, <3>1, <3>2 DEF ReportCloseRoom
  <2>2. CASE ReportDelete(s)
      BY <2>2 DEF ReportDelete
  <2>3. QED
      BY <1>10, <2>1, <2>2
<1>11. ASSUME NEW s \in Slugs, NEW c \in Conns, ReportCloseSocket(s, c)
       PROVE  TypeOK'
    BY <1>11 DEF ReportCloseSocket, CloseSocket
<1>12. ASSUME NEW s \in Slugs, ChannelExpires(s) \/ RoomAges(s)
       PROVE  TypeOK'
  <2>1. CASE ChannelExpires(s)
      BY <2>1 DEF ChannelExpires
  <2>2. CASE RoomAges(s)
      BY <2>2 DEF RoomAges
  <2>3. QED
      BY <1>12, <2>1, <2>2
<1>13. CASE SweepBecomesDue
    BY <1>13 DEF SweepBecomesDue
<1>14. CASE UNCHANGED vars
    BY <1>14 DEF vars
<1>15. QED
    BY <1>1, <1>2, <1>3, <1>4, <1>5, <1>6, <1>7, <1>8, <1>9, <1>10, <1>11,
       <1>12, <1>13, <1>14 DEF Next, Handler, Report

THEOREM TypeCorrect == Spec => []TypeOK
  BY TypeInit, TypeStep, PTL DEF Spec

----------------------------------------------------------------------------
(***************************************************************************)
(* Membership: who is in a room, and which handlers run outside one.  A    *)
(* room without a Room object has no members, which is what lets the sweep *)
(* and a refused registration drop a room without touching its members.    *)
(***************************************************************************)
Membership ==
    /\ MembersAreServed
    /\ \A s \in Slugs : peers[s] # {} => by[s] # NoPeer

LEMMA MembershipStep ==
  TypeOK /\ Membership /\ [Next]_vars => Membership'
<1> SUFFICES ASSUME TypeOK, Membership, [Next]_vars
             PROVE  Membership'
    OBVIOUS
<1> USE SignalingAssumption DEF SignalingAssumption, TypeOK, Membership,
        MembersAreServed, connVars, roomVars, reportVars
<1>1. ASSUME NEW c \in Conns, Authenticate(c) \/ Reject(c)
      PROVE  Membership'
    BY <1>1 DEF Authenticate, Reject
<1>2. ASSUME NEW c \in Conns, Admit(c)
      PROVE  Membership'
    BY <1>2 DEF Admit, KeptRooms, StaleRooms, OpenRooms
<1>3. ASSUME NEW c \in Conns, Refuse(c)
      PROVE  Membership'
    BY <1>3 DEF Refuse, KeptRooms, StaleRooms, OpenRooms
<1>4. ASSUME NEW c \in Conns, ConnectRequest(c)
      PROVE  Membership'
    BY <1>4 DEF ConnectRequest
<1>5. ASSUME NEW c \in Conns, NEW to \in Conns, Signal(c, to)
      PROVE  Membership'
    BY <1>5 DEF Signal
<1>6. ASSUME NEW c \in Conns, NEW to \in Conns, RelayChunk(c, to)
      PROVE  Membership'
    BY <1>6 DEF RelayChunk
<1>7. ASSUME NEW c \in Conns, Disconnect(c)
      PROVE  Membership'
    BY <1>7 DEF Disconnect
<1>8. ASSUME NEW c \in Conns, Leave(c)
      PROVE  Membership'
    BY <1>8 DEF Leave, LoopEnds
<1>9. ASSUME NEW c \in Conns, NEW to \in Conns, NotifyLeft(c, to)
      PROVE  Membership'
    BY <1>9 DEF NotifyLeft
<1>10. ASSUME NEW s \in Slugs, ReportCloseRoom(s)
       PROVE  Membership'
    BY <1>10 DEF ReportCloseRoom
<1>11. ASSUME NEW s \in Slugs, ReportDelete(s)
       PROVE  Membership'
    BY <1>11 DEF ReportDelete
<1>12. ASSUME NEW s \in Slugs, NEW c \in Conns, ReportCloseSocket(s, c)
       PROVE  Membership'
    BY <1>12 DEF ReportCloseSocket
<1>13. ASSUME NEW s \in Slugs, ChannelExpires(s) \/ RoomAges(s)
       PROVE  Membership'
    BY <1>13 DEF ChannelExpires, RoomAges
<1>14. CASE SweepBecomesDue
    BY <1>14 DEF SweepBecomesDue
<1>15. CASE UNCHANGED vars
    BY <1>15 DEF vars
<1>16. QED
    BY <1>1, <1>2, <1>3, <1>4, <1>5, <1>6, <1>7, <1>8, <1>9, <1>10, <1>11,
       <1>12, <1>13, <1>14, <1>15 DEF Next, Handler, Report

(***************************************************************************)
(* The host index: the sweep and refusals clear it only in rooms without   *)
(* members, and a second host is refused while it is set.                  *)
(***************************************************************************)
LEMMA HostStep ==
  TypeOK /\ Membership /\ HostIndexed /\ [Next]_vars => HostIndexed'
<1> SUFFICES ASSUME TypeOK, Membership, HostIndexed, [Next]_vars
             PROVE  HostIndexed'
    OBVIOUS
<1> USE SignalingAssumption DEF SignalingAssumption, TypeOK, Membership,
        MembersAreServed, HostIndexed,
        connVars, roomVars, reportVars
<1>1. ASSUME NEW c \in Conns, Authenticate(c) \/ Reject(c)
      PROVE  HostIndexed'
    BY <1>1 DEF Authenticate, Reject
<1>2. ASSUME NEW c \in Conns, Admit(c)
      PROVE  HostIndexed'
    BY <1>2 DEF Admit, HostTaken
<1>3. ASSUME NEW c \in Conns, Refuse(c)
      PROVE  HostIndexed'
    BY <1>3 DEF Refuse, KeptRooms, StaleRooms, OpenRooms
<1>4. ASSUME NEW c \in Conns, ConnectRequest(c)
      PROVE  HostIndexed'
    BY <1>4 DEF ConnectRequest, Deliver, PeerExists
<1>5. ASSUME NEW c \in Conns, NEW to \in Conns, Signal(c, to)
      PROVE  HostIndexed'
    BY <1>5 DEF Signal, Deliver, PeerExists
<1>6. ASSUME NEW c \in Conns, NEW to \in Conns, RelayChunk(c, to)
      PROVE  HostIndexed'
    BY <1>6 DEF RelayChunk, Deliver, PeerExists
<1>7. ASSUME NEW c \in Conns, Disconnect(c)
      PROVE  HostIndexed'
    BY <1>7 DEF Disconnect, CloseSocket
<1>8. ASSUME NEW c \in Conns, Leave(c)
      PROVE  HostIndexed'
    BY <1>8 DEF Leave, LoopEnds, Notified, CloseSocket
<1>9. ASSUME NEW c \in Conns, NEW to \in Conns, NotifyLeft(c, to)
      PROVE  HostIndexed'
    BY <1>9 DEF NotifyLeft
<1>10. ASSUME NEW s \in Slugs, ReportCloseRoom(s)
       PROVE  HostIndexed'
    BY <1>10 DEF ReportCloseRoom
<1>11. ASSUME NEW s \in Slugs, ReportDelete(s)
       PROVE  HostIndexed'
    BY <1>11 DEF ReportDelete
<1>12. ASSUME NEW s \in Slugs, NEW c \in Conns, ReportCloseSocket(s, c)
       PROVE  HostIndexed'
    BY <1>12 DEF ReportCloseSocket, CloseSocket
<1>13. ASSUME NEW s \in Slugs, ChannelExpires(s) \/ RoomAges(s)
       PROVE  HostIndexed'
    BY <1>13 DEF ChannelExpires, RoomAges
<1>14. CASE SweepBecomesDue
    BY <1>14 DEF SweepBecomesDue
<1>15. CASE UNCHANGED vars
    BY <1>15 DEF vars
<1>16. QED
    BY <1>1, <1>2, <1>3, <1>4, <1>5, <1>6, <1>7, <1>8, <1>9, <1>10, <1>11,
       <1>12, <1>13, <1>14, <1>15 DEF Next, Handler, Report

(***************************************************************************)
(* Beliefs: only members are sent messages, so a peer that was not admitted *)
(* yet knows nobody.                                                       *)
(***************************************************************************)
Beliefs ==
    /\ NoGhostPeers
    /\ ChannelsAreIsolated
    /\ \A c \in Conns : pc[c] \in {"auth", "authed"} => heard[c] = {}

LEMMA BeliefsStep ==
  TypeOK /\ Membership /\ HostIndexed /\ Beliefs /\ [Next]_vars => Beliefs'
<1> SUFFICES ASSUME TypeOK, Membership, HostIndexed, Beliefs, [Next]_vars
             PROVE  Beliefs'
    OBVIOUS
<1> USE SignalingAssumption DEF SignalingAssumption, TypeOK, Membership,
        MembersAreServed, Beliefs, NoGhostPeers, ChannelsAreIsolated,
        connVars, roomVars, reportVars
<1>1. ASSUME NEW c \in Conns, Authenticate(c) \/ Reject(c)
      PROVE  Beliefs'
    BY <1>1 DEF Authenticate, Reject
<1>2. ASSUME NEW c \in Conns, Admit(c)
      PROVE  Beliefs'
    BY <1>2 DEF Admit, HostTaken, KeptRooms, StaleRooms, OpenRooms
<1>3. ASSUME NEW c \in Conns, Refuse(c)
      PROVE  Beliefs'
    BY <1>3 DEF Refuse, KeptRooms, StaleRooms, OpenRooms
<1>4. ASSUME NEW c \in Conns, ConnectRequest(c)
      PROVE  Beliefs'
    BY <1>4 DEF ConnectRequest, Deliver, PeerExists
<1>5. ASSUME NEW c \in Conns, NEW to \in Conns, Signal(c, to)
      PROVE  Beliefs'
    BY <1>5 DEF Signal, Deliver, PeerExists
<1>6. ASSUME NEW c \in Conns, NEW to \in Conns, RelayChunk(c, to)
      PROVE  Beliefs'
    BY <1>6 DEF RelayChunk, Deliver, PeerExists
<1>7. ASSUME NEW c \in Conns, Disconnect(c)
      PROVE  Beliefs'
    BY <1>7 DEF Disconnect, CloseSocket
<1>8. ASSUME NEW c \in Conns, Leave(c)
      PROVE  Beliefs'
    BY <1>8 DEF Leave, LoopEnds, Notified, CloseSocket
<1>9. ASSUME NEW c \in Conns, NEW to \in Conns, NotifyLeft(c, to)
      PROVE  Beliefs'
    BY <1>9 DEF NotifyLeft
<1>10. ASSUME NEW s \in Slugs, ReportCloseRoom(s)
       PROVE  Beliefs'
    BY <1>10 DEF ReportCloseRoom
<1>11. ASSUME NEW s \in Slugs, ReportDelete(s)
       PROVE  Beliefs'
    BY <1>11 DEF ReportDelete
<1>12. ASSUME NEW s \in Slugs, NEW c \in Conns, ReportCloseSocket(s, c)
       PROVE  Beliefs'
    BY <1>12 DEF ReportCloseSocket, CloseSocket
<1>13. ASSUME NEW s \in Slugs, ChannelExpires(s) \/ RoomAges(s)
       PROVE  Beliefs'
    BY <1>13 DEF ChannelExpires, RoomAges
<1>14. CASE SweepBecomesDue
    BY <1>14 DEF SweepBecomesDue
<1>15. CASE UNCHANGED vars
    BY <1>15 DEF vars
<1>16. QED
    BY <1>1, <1>2, <1>3, <1>4, <1>5, <1>6, <1>7, <1>8, <1>9, <1>10, <1>11,
       <1>12, <1>13, <1>14, <1>15 DEF Next, Handler, Report

(***************************************************************************)
(* Every member of a room that a report closes goes on its list of sockets. *)
(***************************************************************************)
LEMMA EvictionStep ==
  TypeOK /\ Membership /\ EvictedAreDisconnected /\ [Next]_vars => EvictedAreDisconnected'
<1> SUFFICES ASSUME TypeOK, Membership, EvictedAreDisconnected, [Next]_vars
             PROVE  EvictedAreDisconnected'
    OBVIOUS
<1> USE SignalingAssumption DEF SignalingAssumption, TypeOK, Membership,
        MembersAreServed, EvictedAreDisconnected,
        connVars, roomVars, reportVars
<1>1. ASSUME NEW c \in Conns, Authenticate(c) \/ Reject(c)
      PROVE  EvictedAreDisconnected'
    BY <1>1 DEF Authenticate, Reject
<1>2. ASSUME NEW c \in Conns, Admit(c)
      PROVE  EvictedAreDisconnected'
    BY <1>2 DEF Admit, HostTaken, KeptRooms, StaleRooms, OpenRooms
<1>3. ASSUME NEW c \in Conns, Refuse(c)
      PROVE  EvictedAreDisconnected'
    BY <1>3 DEF Refuse, KeptRooms, StaleRooms, OpenRooms
<1>4. ASSUME NEW c \in Conns, ConnectRequest(c)
      PROVE  EvictedAreDisconnected'
    BY <1>4 DEF ConnectRequest, Deliver, PeerExists
<1>5. ASSUME NEW c \in Conns, NEW to \in Conns, Signal(c, to)
      PROVE  EvictedAreDisconnected'
    BY <1>5 DEF Signal, Deliver, PeerExists
<1>6. ASSUME NEW c \in Conns, NEW to \in Conns, RelayChunk(c, to)
      PROVE  EvictedAreDisconnected'
    BY <1>6 DEF RelayChunk, Deliver, PeerExists
<1>7. ASSUME NEW c \in Conns, Disconnect(c)
      PROVE  EvictedAreDisconnected'
    BY <1>7 DEF Disconnect, CloseSocket
<1>8. ASSUME NEW c \in Conns, Leave(c)
      PROVE  EvictedAreDisconnected'
    BY <1>8 DEF Leave, LoopEnds, Notified, CloseSocket
<1>9. ASSUME NEW c \in Conns, NEW to \in Conns, NotifyLeft(c, to)
      PROVE  EvictedAreDisconnected'
    BY <1>9 DEF NotifyLeft
<1>10. ASSUME NEW s \in Slugs, ReportCloseRoom(s)
       PROVE  EvictedAreDisconnected'
    BY <1>10 DEF ReportCloseRoom
<1>11. ASSUME NEW s \in Slugs, ReportDelete(s)
       PROVE  EvictedAreDisconnected'
    BY <1>11 DEF ReportDelete
<1>12. ASSUME NEW s \in Slugs, NEW c \in Conns, ReportCloseSocket(s, c)
       PROVE  EvictedAreDisconnected'
    BY <1>12 DEF ReportCloseSocket, CloseSocket
<1>13. ASSUME NEW s \in Slugs, ChannelExpires(s) \/ RoomAges(s)
       PROVE  EvictedAreDisconnected'
    BY <1>13 DEF ChannelExpires, RoomAges
<1>14. CASE SweepBecomesDue
    BY <1>14 DEF SweepBecomesDue
<1>15. CASE UNCHANGED vars
    BY <1>15 DEF vars
<1>16. QED
    BY <1>1, <1>2, <1>3, <1>4, <1>5, <1>6, <1>7, <1>8, <1>9, <1>10, <1>11,
       <1>12, <1>13, <1>14, <1>15 DEF Next, Handler, Report

----------------------------------------------------------------------------
(***************************************************************************)
(* The inductive invariant, and what follows from it.                      *)
(***************************************************************************)
SafetyInv ==
    /\ TypeOK
    /\ Membership
    /\ HostIndexed
    /\ Beliefs
    /\ EvictedAreDisconnected

LEMMA SafetyInit == Init => SafetyInv
<1> SUFFICES ASSUME Init
             PROVE  SafetyInv
    OBVIOUS
<1>1. TypeOK
    BY TypeInit
<1>2. Membership /\ HostIndexed
    BY SignalingAssumption
    DEF SignalingAssumption, Init, Membership, MembersAreServed, HostIndexed
<1>3. Beliefs /\ EvictedAreDisconnected
    BY DEF Init, Beliefs, NoGhostPeers, ChannelsAreIsolated,
           EvictedAreDisconnected
<1>4. QED
    BY <1>1, <1>2, <1>3 DEF SafetyInv

THEOREM Safety == Spec => []SafetyInv
<1>1. SafetyInv /\ [Next]_vars => SafetyInv'
    BY TypeStep, MembershipStep, HostStep, BeliefsStep, EvictionStep
    DEF SafetyInv
<1>2. QED
    BY SafetyInit, <1>1, PTL DEF Spec

(***************************************************************************)
(* Capacity is inductive on its own: only Admit grows a set, and only      *)
(* below the cap.                                                          *)
(***************************************************************************)
LEMMA CapacityStep ==
  TypeOK /\ Capacity /\ [Next]_vars => Capacity'
<1> SUFFICES ASSUME TypeOK, Capacity, [Next]_vars
             PROVE  Capacity'
    OBVIOUS
<1> USE SignalingAssumption DEF SignalingAssumption, TypeOK, Capacity
<1>1. /\ IsFiniteSet(OpenRooms)
      /\ \A s \in Slugs : IsFiniteSet(peers[s])
    BY FS_Subset DEF OpenRooms
<1>2. ASSUME OpenRooms' \subseteq OpenRooms,
             \A s \in Slugs : peers'[s] \subseteq peers[s],
             \A s \in Slugs : peers'[s] # {} => s \in OpenRooms'
      PROVE  Capacity'
  <2>1. Cardinality(OpenRooms') <= Cardinality(OpenRooms)
      BY <1>1, <1>2, FS_Subset
  <2>2. \A s \in Slugs : Cardinality(peers'[s]) <= Cardinality(peers[s])
      BY <1>1, <1>2, FS_Subset
  <2>3. /\ Cardinality(OpenRooms) \in Nat /\ Cardinality(OpenRooms') \in Nat
        /\ \A s \in Slugs : Cardinality(peers[s]) \in Nat
                           /\ Cardinality(peers'[s]) \in Nat
      BY <1>1, <1>2, FS_Subset, FS_CardinalityType
  <2>4. QED
      BY <1>2, <2>1, <2>2, <2>3
<1>3. ASSUME NEW c \in Conns, Admit(c)
      PROVE  Capacity'
  <2> DEFINE s == slug[c]
  <2>1. OpenRooms' = KeptRooms \cup {s}
      BY <1>3 DEF Admit, OpenRooms, KeptRooms, StaleRooms
  <2>2. /\ KeptRooms \subseteq OpenRooms
        /\ IsFiniteSet(KeptRooms)
        /\ Cardinality(KeptRooms) \in Nat
        /\ Cardinality(KeptRooms) <= MaxRooms
      BY <1>1, FS_Subset, FS_CardinalityType DEF KeptRooms
  <2>3. Cardinality(OpenRooms') <= MaxRooms
    <3>1. CASE s \in KeptRooms
      <4>1. KeptRooms \cup {s} = KeptRooms
          BY <3>1
      <4>2. QED
          BY <2>1, <2>2, <4>1
    <3>2. CASE s \notin KeptRooms
      <4>1. Cardinality(KeptRooms) < MaxRooms
          BY <1>3, <3>2 DEF Admit, RoomAvailable
      <4>2. Cardinality(KeptRooms \cup {s}) = Cardinality(KeptRooms) + 1
          BY <2>2, <3>2, FS_AddElement
      <4>3. QED
          BY <2>1, <2>2, <4>1, <4>2
    <3>3. QED
        BY <3>1, <3>2
  <2>4. Cardinality(peers[s] \cup {c}) <= MaxPeers
    <3>1. /\ IsFiniteSet(peers[s])
          /\ Cardinality(peers[s]) \in Nat
          /\ Cardinality(peers[s]) < MaxPeers
        BY <1>1, <1>3, FS_CardinalityType DEF Admit, RoomFull
    <3>2. CASE c \in peers[s]
      <4>1. peers[s] \cup {c} = peers[s]
          BY <3>2
      <4>2. QED
          BY <3>1, <4>1
    <3>3. CASE c \notin peers[s]
      <4>1. Cardinality(peers[s] \cup {c}) = Cardinality(peers[s]) + 1
          BY <3>1, <3>3, FS_AddElement
      <4>2. QED
          BY <3>1, <4>1
    <3>4. QED
        BY <3>2, <3>3
  <2>5. peers' = [peers EXCEPT ![s] = @ \cup {c}]
      BY <1>3 DEF Admit
  <2>6. \A t \in Slugs : peers'[t] # {} => t \in OpenRooms'
      BY <2>1, <2>5 DEF KeptRooms, StaleRooms, OpenRooms
  <2>7. QED
      BY <2>3, <2>4, <2>5, <2>6
<1>4. ASSUME NEW c \in Conns, Refuse(c)
      PROVE  Capacity'
    BY <1>2, <1>4 DEF Refuse, OpenRooms, KeptRooms, StaleRooms
<1>5. ASSUME NEW c \in Conns, Leave(c)
      PROVE  Capacity'
    BY <1>2, <1>5 DEF Leave, OpenRooms, roomVars
<1>6. ASSUME NEW s \in Slugs, ReportCloseRoom(s)
      PROVE  Capacity'
    BY <1>2, <1>6 DEF ReportCloseRoom, OpenRooms
<1>7. CASE UNCHANGED <<by, peers>>
    BY <1>2, <1>7 DEF OpenRooms
<1>8. QED
    BY <1>3, <1>4, <1>5, <1>6, <1>7
    DEF Next, Handler, Report, Authenticate, Reject, ConnectRequest, Signal,
        RelayChunk, NotifyLeft, Disconnect, ReportDelete, ReportCloseSocket,
        ChannelExpires, RoomAges, SweepBecomesDue, roomVars, vars

(***************************************************************************)
(* MAX_ROOMS and MAX_PEERS_PER_ROOM hold whatever the sweep, the refusals  *)
(* and the reports do (get_or_create_room, register_peer).                 *)
(***************************************************************************)
THEOREM CapsHold == Spec => []Capacity
<1>1. Init => Capacity
  <2> SUFFICES ASSUME Init
               PROVE  Capacity
      OBVIOUS
  <2>1. OpenRooms = {} /\ \A s \in Slugs : peers[s] = {}
      BY DEF Init, OpenRooms
  <2>2. QED
      BY <2>1, FS_EmptySet, SignalingAssumption
      DEF Capacity, SignalingAssumption
<1>2. QED
    BY <1>1, CapacityStep, TypeCorrect, PTL DEF Spec

(***************************************************************************)
(* The host index names exactly the registered hosts: at most one per room *)
(* (register_peer, remove_peer, close_room).                               *)
(***************************************************************************)
THEOREM OneHostPerRoom == Spec => []HostIndexed
  BY Safety, PTL DEF SafetyInv

(***************************************************************************)
(* Members have a handler that will unregister them (handle_signaling's    *)
(* finally block).                                                         *)
(***************************************************************************)
THEOREM NoLeakedMembers == Spec => []MembersAreServed
<1>1. SafetyInv => MembersAreServed
    BY DEF SafetyInv, Membership
<1>2. QED
    BY <1>1, Safety, PTL

(***************************************************************************)
(* Members are told of every departure they could care about               *)
(* (broadcast_peer_left).                                                  *)
(***************************************************************************)
THEOREM DeparturesAreKnown == Spec => []NoGhostPeers
<1>1. SafetyInv => NoGhostPeers
    BY DEF SafetyInv, Beliefs
<1>2. QED
    BY <1>1, Safety, PTL

(***************************************************************************)
(* Nobody hears a peer of another channel: frames are relayed within the   *)
(* room of the sender's slug (send_to_peer).                               *)
(***************************************************************************)
THEOREM ChannelsStayApart == Spec => []ChannelsAreIsolated
<1>1. SafetyInv => ChannelsAreIsolated
    BY DEF SafetyInv, Beliefs
<1>2. QED
    BY <1>1, Safety, PTL

(***************************************************************************)
(* close_room closes the socket of every member it evicts.                 *)
(***************************************************************************)
THEOREM ReportsReachEveryMember == Spec => []EvictedAreDisconnected
  BY Safety, PTL DEF SafetyInv

(***************************************************************************)
(* An evicted peer hears nothing more (close_room pops the room before it  *)
(* closes sockets, and send_to_peer looks members up by slug).             *)
(***************************************************************************)
THEOREM EvictedPeersAreCutOff == Spec => EvictedHearNothing
<1>1. SafetyInv /\ [Next]_vars =>
        [\A c \in Conns : pc[c] = "serving" /\ c \notin peers[slug[c]]
                              => heard'[c] \subseteq heard[c]]_vars
  <2> SUFFICES ASSUME SafetyInv, Next, NEW c \in Conns,
                      pc[c] = "serving", c \notin peers[slug[c]]
               PROVE  heard'[c] \subseteq heard[c]
      OBVIOUS
  <2> USE DEF SafetyInv, TypeOK, Membership, MembersAreServed
  <2>1. \A d \in Conns : c \notin peers[slug[d]]
      OBVIOUS
  <2>2. ASSUME NEW d \in Conns,
               \/ Authenticate(d) \/ Reject(d) \/ Admit(d) \/ Refuse(d)
        PROVE  heard' = heard
      BY <2>2 DEF Authenticate, Reject, Admit, Refuse
  <2>3. ASSUME NEW d \in Conns, NEW to \in Conns,
               Signal(d, to) \/ RelayChunk(d, to)
        PROVE  heard'[c] = heard[c]
      BY <2>1, <2>3 DEF Signal, RelayChunk, PeerExists, Deliver
  <2>4. ASSUME NEW d \in Conns, ConnectRequest(d)
        PROVE  heard'[c] = heard[c]
      BY <2>1, <2>4 DEF ConnectRequest, PeerExists, Deliver
  <2>5. ASSUME NEW d \in Conns, Disconnect(d) \/ Leave(d)
        PROVE  heard'[c] \subseteq heard[c]
    <3>1. heard' = [heard EXCEPT ![d] = {}]
        BY <2>5 DEF Disconnect, Leave, CloseSocket
    <3>2. QED
        BY <3>1
  <2>6. ASSUME NEW d \in Conns, NEW to \in Conns, NotifyLeft(d, to)
        PROVE  heard'[c] \subseteq heard[c]
      BY <2>6 DEF NotifyLeft
  <2>7. ASSUME NEW s \in Slugs, NEW d \in Conns, ReportCloseSocket(s, d)
        PROVE  heard'[c] \subseteq heard[c]
      BY <2>7 DEF ReportCloseSocket, CloseSocket
  <2>8. ASSUME NEW s \in Slugs,
               \/ ReportCloseRoom(s) \/ ReportDelete(s)
               \/ ChannelExpires(s) \/ RoomAges(s)
        PROVE  heard' = heard
      BY <2>8 DEF ReportCloseRoom, ReportDelete, ChannelExpires, RoomAges
  <2>9. CASE SweepBecomesDue
      BY <2>9 DEF SweepBecomesDue
  <2>10. QED
      BY <2>2, <2>3, <2>4, <2>5, <2>6, <2>7, <2>8, <2>9
      DEF Next, Handler, Report
<1>2. QED
    BY <1>1, Safety, PTL DEF Spec, EvictedHearNothing

(***************************************************************************)
(* Nobody but a peer's own handler or a report takes it out of its room:   *)
(* the sweep and refused registrations only ever drop empty rooms          *)
(* (_cleanup_stale_rooms, register_peer's early returns).                  *)
(***************************************************************************)
THEOREM NobodyIsDropped == Spec => OnlyLeaversLeave
<1>1. SafetyInv /\ [Next]_vars =>
        [\A s \in Slugs : \A c \in peers[s] :
            \/ c \in peers'[s] /\ held[c] = by'[s]
            \/ pc'[c] \in {"leaving", "done"}
            \/ report'[s] # report[s]]_vars
  <2> SUFFICES ASSUME SafetyInv, Next, NEW s \in Slugs, NEW c \in peers[s],
                      report'[s] = report[s],
                      pc'[c] \notin {"leaving", "done"}
               PROVE  c \in peers'[s] /\ held[c] = by'[s]
      OBVIOUS
  <2> USE DEF SafetyInv, TypeOK, Membership, MembersAreServed
  <2>0. c \in Conns /\ pc[c] = "serving" /\ held[c] = by[s] /\ by[s] # NoPeer
      OBVIOUS
  <2>1. ASSUME NEW d \in Conns, Admit(d)
        PROVE  c \in peers'[s] /\ held[c] = by'[s]
      BY <2>0, <2>1 DEF Admit, KeptRooms, StaleRooms, OpenRooms
  <2>2. ASSUME NEW d \in Conns, Refuse(d)
        PROVE  c \in peers'[s] /\ held[c] = by'[s]
      BY <2>0, <2>2 DEF Refuse, StaleRooms
  <2>3. ASSUME NEW d \in Conns, Leave(d)
        PROVE  c \in peers'[s] /\ held[c] = by'[s]
      BY <2>0, <2>3 DEF Leave
  <2>4. ASSUME NEW t \in Slugs, ReportCloseRoom(t)
        PROVE  c \in peers'[s] /\ held[c] = by'[s]
    <3>1. s # t
        BY <2>4 DEF ReportCloseRoom
    <3>2. QED
        BY <2>0, <2>4, <3>1 DEF ReportCloseRoom
  <2>5. CASE UNCHANGED <<by, peers>>
      BY <2>0, <2>5
  <2>6. QED
      BY <2>1, <2>2, <2>3, <2>4, <2>5
      DEF Next, Handler, Report, Authenticate, Reject, ConnectRequest, Signal,
          RelayChunk, NotifyLeft, Disconnect, ReportDelete, ReportCloseSocket,
          ChannelExpires, RoomAges, SweepBecomesDue, roomVars
<1>2. QED
    BY <1>1, Safety, PTL DEF Spec, OnlyLeaversLeave
============================================================================
