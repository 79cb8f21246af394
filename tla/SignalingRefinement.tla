------------------------ MODULE SignalingRefinement ------------------------
(***************************************************************************)
(* The in-memory signaling server implements the RoomTransport protocol:   *)
(* each of its steps is one operation of the protocol or changes nothing   *)
(* the protocol talks about.                                               *)
(***************************************************************************)
EXTENDS SignalingProofs

(***************************************************************************)
(* The instance's Cardinality is the one of FiniteSets.                    *)
(***************************************************************************)
LEMMA SameCardinality == \A S : Transport!Cardinality(S) = Cardinality(S)
  BY DEF Cardinality, Transport!Cardinality

(***************************************************************************)
(* A fresh server is a protocol state without rooms (SignalingManager()).  *)
(***************************************************************************)
LEMMA InitRefines == Init => Transport!RTInit
  BY DEF Init, Transport!RTInit, OpenRooms

(***************************************************************************)
(* Rooms the sweep drops are open and empty, so it is invisible through    *)
(* the host index and the members.                                         *)
(***************************************************************************)
LEMMA StaleAreEmpty ==
  ASSUME SafetyInv
  PROVE  /\ StaleRooms \subseteq Transport!EmptyRooms
         /\ \A s \in Slugs : peers[s] = {} => host[s] = NoPeer
<1> USE DEF SafetyInv
<1>1. StaleRooms \subseteq Transport!EmptyRooms
    BY DEF StaleRooms, Transport!EmptyRooms
<1>2. \A s \in Slugs : peers[s] = {} => host[s] = NoPeer
    BY DEF TypeOK, HostIndexed
<1>3. QED
    BY <1>1, <1>2

(***************************************************************************)
(* register_peer returning OK is the protocol's registration, together     *)
(* with the sweep get_or_create_room ran on the way.                       *)
(***************************************************************************)
LEMMA AdmitRefines ==
  ASSUME SafetyInv, NEW c \in Conns, Admit(c)
  PROVE  Transport!RegisterPeer(slug[c], c)
<1> DEFINE s == slug[c]
<1> USE DEF SafetyInv
<1>1. s \in Slugs /\ c # NoPeer
    BY SignalingAssumption DEF SignalingAssumption, TypeOK
<1>2. /\ \A t \in Slugs : c \notin peers[t]
      /\ role[c] = "host" => host[s] = NoPeer
      /\ Cardinality(peers[s]) < MaxPeers
  <2>1. \A t \in Slugs : c \notin peers[t]
      BY DEF Admit, Membership, MembersAreServed
  <2>2. Cardinality(peers[s]) \in Nat
      BY <1>1, SignalingAssumption, FS_Subset, FS_CardinalityType
      DEF SignalingAssumption, TypeOK
  <2>3. QED
      BY <2>1, <2>2, SignalingAssumption
      DEF Admit, HostTaken, RoomFull, SignalingAssumption
<1>3. /\ OpenRooms \ StaleRooms = KeptRooms
      /\ OpenRooms' = KeptRooms \cup {s}
    BY <1>1 DEF Admit, OpenRooms, KeptRooms, StaleRooms
<1>4. \E dropped \in SUBSET Transport!EmptyRooms :
         /\ \/ s \in OpenRooms \ dropped
            \/ Cardinality(OpenRooms \ dropped) < MaxRooms
         /\ OpenRooms' = (OpenRooms \ dropped) \cup {s}
  <2>1. StaleRooms \in SUBSET Transport!EmptyRooms
      BY StaleAreEmpty
  <2>2. QED
      BY <1>3, <2>1 DEF Admit, RoomAvailable
<1>5. /\ peers' = [peers EXCEPT ![s] = @ \cup {c}]
      /\ host' = [host EXCEPT ![s] = IF role[c] = "host" THEN c ELSE @]
      /\ role' = role
    BY DEF Admit, connVars
<1>6. QED
    BY <1>2, <1>4, <1>5, SameCardinality DEF Transport!RegisterPeer

(***************************************************************************)
(* A refused registration may drop empty rooms and nothing else.           *)
(***************************************************************************)
LEMMA RefuseRefines ==
  ASSUME SafetyInv, NEW c \in Conns, Refuse(c)
  PROVE  Transport!DropEmptyRooms \/ UNCHANGED Transport!rtVars
<1> DEFINE s == slug[c]
           dropped == StaleRooms \cup
                      {t \in {s} : RoomAvailable(s) /\ peers[s] = {}}
           empty == dropped \cap OpenRooms
<1> USE DEF SafetyInv
<1>1. /\ by' = [t \in Slugs |-> IF t \in dropped THEN NoPeer ELSE by[t]]
      /\ host' = [t \in Slugs |-> IF t \in dropped THEN NoPeer ELSE host[t]]
      /\ peers' = peers /\ role' = role
    BY DEF Refuse, connVars
<1>2. empty \in SUBSET Transport!EmptyRooms
    BY DEF StaleRooms, Transport!EmptyRooms
<1>3. OpenRooms' = OpenRooms \ empty
    BY <1>1 DEF OpenRooms
<1>4. \A t \in Slugs : t \in dropped => host[t] = NoPeer
    BY StaleAreEmpty DEF StaleRooms
<1>5. host' = host
    BY <1>1, <1>4 DEF TypeOK
<1>6. QED
    BY <1>1, <1>2, <1>3, <1>5 DEF Transport!DropEmptyRooms

(***************************************************************************)
(* The finally block removes the peer from the room, or does nothing if a  *)
(* report closed it (remove_peer).                                         *)
(***************************************************************************)
LEMMA LeaveRefines ==
  ASSUME SafetyInv, NEW c \in Conns, Leave(c)
  PROVE  Transport!RemovePeer(slug[c], c) \/ UNCHANGED Transport!rtVars
<1> DEFINE s == slug[c]
<1> USE DEF SafetyInv
<1>1. s \in Slugs /\ c # NoPeer
    BY SignalingAssumption DEF SignalingAssumption, TypeOK
<1>2. /\ peers' = [peers EXCEPT ![s] = @ \ {c}]
      /\ host' = [host EXCEPT ![s] = IF @ = c THEN NoPeer ELSE @]
      /\ OpenRooms' = OpenRooms
      /\ role' = role
    BY DEF Leave, OpenRooms, connVars
<1>3. CASE c \in peers[s]
    BY <1>2, <1>3 DEF Transport!RemovePeer
<1>4. CASE c \notin peers[s]
  <2>1. host[s] # c
      BY <1>1, <1>4 DEF HostIndexed
  <2>2. peers' = peers /\ host' = host
      BY <1>1, <1>2, <1>4, <2>1 DEF TypeOK
  <2>3. QED
      BY <1>2, <2>2 DEF Transport!rtVars
<1>5. QED
    BY <1>3, <1>4

LEMMA StepRefines ==
  SafetyInv /\ [Next]_vars => [Transport!RTNext]_Transport!rtVars
<1> SUFFICES ASSUME SafetyInv, [Next]_vars
             PROVE  Transport!RTNext \/ UNCHANGED Transport!rtVars
    OBVIOUS
<1>1. \A c \in Conns : slug[c] \in Slugs
    BY DEF SafetyInv, TypeOK
<1>2. ASSUME NEW c \in Conns, Admit(c)
      PROVE  Transport!RTNext
    BY <1>1, <1>2, AdmitRefines DEF Transport!RTNext
<1>3. ASSUME NEW c \in Conns, Refuse(c)
      PROVE  Transport!RTNext \/ UNCHANGED Transport!rtVars
    BY <1>3, RefuseRefines DEF Transport!RTNext
<1>4. ASSUME NEW c \in Conns, Leave(c)
      PROVE  Transport!RTNext \/ UNCHANGED Transport!rtVars
    BY <1>1, <1>4, LeaveRefines DEF Transport!RTNext
<1>5. ASSUME NEW s \in Slugs, ReportCloseRoom(s)
      PROVE  Transport!RTNext
  <2>1. OpenRooms' = OpenRooms \ {s}
      BY <1>5 DEF ReportCloseRoom, OpenRooms, SafetyInv, TypeOK
  <2>2. Transport!CloseRoom(s)
      BY <1>5, <2>1 DEF ReportCloseRoom, connVars, Transport!CloseRoom
  <2>3. QED
      BY <2>2 DEF Transport!RTNext
<1>6. CASE UNCHANGED <<role, by, peers, host>>
    BY <1>6 DEF Transport!rtVars, OpenRooms
<1>7. QED
    BY <1>2, <1>3, <1>4, <1>5, <1>6
    DEF Next, Handler, Report, Authenticate, Reject, ConnectRequest, Signal,
        RelayChunk, NotifyLeft, Disconnect, ReportDelete, ReportCloseSocket,
        ChannelExpires, RoomAges, SweepBecomesDue, roomVars, connVars, vars

(***************************************************************************)
(* SignalingManager under handle_signaling keeps every promise of the      *)
(* RoomTransport protocol (signaling_transport.py).                        *)
(***************************************************************************)
THEOREM SignalingImplementsTransport == Spec => ImplementsRoomTransport
<1>1. QED
    BY InitRefines, StepRefines, Safety, PTL
    DEF Spec, ImplementsRoomTransport, Transport!RTSpec
============================================================================
