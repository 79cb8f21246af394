-------------------------- MODULE RedisRoomsProofs --------------------------
(***************************************************************************)
(* Machine-checked proofs about module RedisRooms, for any number of       *)
(* connections and workers, any cap and any TTL.                           *)
(***************************************************************************)
EXTENDS RedisRooms, FiniteSetTheorems, TLAPS

(***************************************************************************)
(* Type correctness                                                        *)
(***************************************************************************)

LEMMA TypeInit == Init => TypeOK
<1> SUFFICES ASSUME Init
             PROVE  TypeOK
    OBVIOUS
<1> USE RedisRoomsAssumption DEF RedisRoomsAssumption, Init
<1>1. Cardinality({}) = 0
    BY FS_EmptySet
<1>2. inbox \in [Conns -> Seq(Envelope)]
    OBVIOUS
<1>3. QED
    BY <1>1, <1>2 DEF TypeOK

\* The envelopes a handler sends.
LEMMA Envelopes ==
  ASSUME NEW c \in Conns
  PROVE  /\ Msg(c) \in Envelope /\ Msg(c) # CloseEnvelope
         /\ Left(c) \in Envelope /\ Left(c) # CloseEnvelope
         /\ Msg(c).kind = "msg" /\ Msg(c).from = c
         /\ Left(c).kind = "left" /\ Left(c).from = c
         /\ CloseEnvelope \in Envelope
  BY DEF Msg, Left, CloseEnvelope, Envelope

LEMMA DeliverType ==
  ASSUME TypeOK, NEW c \in Conns, NEW d \in Conns,
         NEW m \in Envelope, m # CloseEnvelope, Deliver(c, d, m)
  PROVE  inbox' \in [Conns -> Seq(Envelope)] /\ heard' \in [Conns -> SUBSET Conns]
<1>1. m.from \in Conns
    BY DEF Envelope
<1>t. inbox \in [Conns -> Seq(Envelope)] /\ heard \in [Conns -> SUBSET Conns]
    BY DEF TypeOK
<1>2. CASE Local(c, d) /\ Tell(d, m) /\ UNCHANGED inbox
  <2>1. heard' \in [Conns -> SUBSET Conns]
      BY <1>t, <1>1, <1>2 DEF Tell
  <2>2. QED
      BY <1>t, <1>2, <2>1
<1>3. CASE ~Local(c, d) /\ Publish(d, m) /\ UNCHANGED heard
  <2>1. Append(inbox[d], m) \in Seq(Envelope)
      BY <1>t
  <2>2. inbox' \in [Conns -> Seq(Envelope)]
      BY <1>t, <1>3, <2>1 DEF Publish
  <2>3. QED
      BY <1>t, <1>3, <2>2
<1>4. QED
    BY <1>2, <1>3 DEF Deliver

LEMMA TypeStep == TypeOK /\ [Next]_vars => TypeOK'
<1> SUFFICES ASSUME TypeOK, [Next]_vars
             PROVE  TypeOK'
    OBVIOUS
<1> USE RedisRoomsAssumption DEF RedisRoomsAssumption, TypeOK,
        redisVars, clientVars, closeVars, ghostVars
<1>a. IsFiniteSet(peers) /\ Cardinality(peers) \in Nat
    BY FS_Subset, FS_CardinalityType
<1>b. Cardinality({}) = 0
    BY FS_EmptySet
<1>1. ASSUME NEW c \in Conns, Register(c)
      PROVE  TypeOK'
  <2>a. Cardinality(peers) < MaxPeers
      BY <1>1, <1>a DEF Register, RoomFull
  <2>b. Cardinality(peers \cup {c}) \in {Cardinality(peers), Cardinality(peers) + 1}
      BY <1>a, FS_AddElement
  <2>1. Cardinality(peers \cup {c}) <= MaxPeers
      BY <1>a, <2>a, <2>b
  <2>2. peers' \in SUBSET Conns /\ peersTTL' \in 0 .. RoomTTL
        /\ (peers' = {} <=> peersTTL' = 0)
      BY <1>1 DEF Register, RestartedTTL
  <2>3. host' \in Conns \cup {NoPeer} /\ hostTTL' \in 0 .. RoomTTL
        /\ (host' = NoPeer <=> hostTTL' = 0)
      BY <1>1 DEF Register
  <2>4. QED
      BY <1>1, <2>1, <2>2, <2>3 DEF Register
<1>2. ASSUME NEW c \in Conns, Subscribe(c) \/ ListRemaining(c) \/ ReadHost(c)
      PROVE  TypeOK'
  <2>1. CASE Subscribe(c)
      BY <2>1 DEF Subscribe
  <2>2. CASE ListRemaining(c)
      BY <2>2 DEF ListRemaining, Remaining
  <2>3. CASE ReadHost(c)
      BY <2>3 DEF ReadHost
  <2>4. QED
      BY <1>2, <2>1, <2>2, <2>3
<1>3. ASSUME NEW c \in Conns, NEW d \in Conns, Send(c, d)
      PROVE  TypeOK'
  <2>1. inbox' \in [Conns -> Seq(Envelope)] /\ heard' \in [Conns -> SUBSET Conns]
      BY <1>3, DeliverType, Envelopes DEF Send
  <2>2. /\ sent' \in 0 .. MaxSends
        /\ UNCHANGED <<worker, pc, redisVars, owed, removal, closeVars,
                       ghostVars>>
      BY <1>3 DEF Send
  <2>3. QED
      BY <2>1, <2>2
<1>4. ASSUME NEW c \in Conns, RemovePeer(c)
      PROVE  TypeOK'
  <2>1. inbox' \in [Conns -> Seq(Envelope)]
      BY <1>4 DEF RemovePeer
  <2>2. QED
      BY <1>4, <2>1 DEF RemovePeer
<1>5. ASSUME NEW d \in Conns, DispatchMessage(d)
      PROVE  TypeOK'
  <2>1. Head(inbox[d]) \in Envelope /\ Tail(inbox[d]) \in Seq(Envelope)
      BY <1>5 DEF DispatchMessage
  <2>2. Head(inbox[d]).from \in Conns
      BY <1>5, <2>1 DEF DispatchMessage, Envelope
  <2>3. heard' \in [Conns -> SUBSET Conns]
      BY <1>5, <2>2 DEF DispatchMessage, Tell
  <2>4. QED
      BY <1>5, <2>1, <2>3 DEF DispatchMessage
<1>6. ASSUME NEW c \in Conns, NEW d \in Conns, TellLeft(c, d)
      PROVE  TypeOK'
  <2>1. inbox' \in [Conns -> Seq(Envelope)] /\ heard' \in [Conns -> SUBSET Conns]
      BY <1>6, DeliverType, Envelopes DEF TellLeft
  <2>2. QED
      BY <1>6, <2>1 DEF TellLeft
<1>7. ASSUME NEW c \in Conns, RemoveRow(c)
      PROVE  TypeOK'
  <2>1. peers' = peers \ {c}
      BY <1>7 DEF RemoveRow
  <2>2. Cardinality(peers') \in Nat /\ Cardinality(peers') <= Cardinality(peers)
      BY <1>a, <2>1, FS_Subset, FS_CardinalityType
  <2>3. Cardinality(peers') <= MaxPeers
      BY <1>a, <2>2
  <2>4. peers' \in SUBSET Conns /\ peersTTL' \in 0 .. RoomTTL
        /\ (peers' = {} <=> peersTTL' = 0)
      BY <1>7, <2>1 DEF RemoveRow
  <2>5. QED
      BY <1>7, <2>3, <2>4 DEF RemoveRow
<1>8. ASSUME NEW c \in Conns, RemoveHost(c)
      PROVE  TypeOK'
    BY <1>8 DEF RemoveHost
<1>9. CASE ListPeers
    BY <1>9 DEF ListPeers
<1>10. ASSUME NEW d \in Conns, PublishClose(d)
       PROVE  TypeOK'
    BY <1>10, Envelopes DEF PublishClose, Publish
<1>11. CASE DeleteRoom
    BY <1>11, <1>b DEF DeleteRoom, DeletedHost
<1>12. CASE Tick
    BY <1>12, <1>b DEF Tick, Countdown
<1>13. CASE UNCHANGED vars
    BY <1>13 DEF vars
<1>14. QED
    BY <1>1, <1>2, <1>3, <1>4, <1>5, <1>6, <1>7, <1>8, <1>9, <1>10, <1>11,
       <1>12, <1>13
    DEF Next, Handler, Subscriber, Removal, CloseRoom, Leave, DispatchClose

(***************************************************************************)
(* Whatever the workers do and in whichever order their commands reach     *)
(* Redis, the room holds at most MAX_PEERS_PER_ROOM peers and each key has *)
(* a clock as long as it exists.                                           *)
(***************************************************************************)
THEOREM TypeCorrect == Spec => []TypeOK
  BY TypeInit, TypeStep, PTL DEF Spec

----------------------------------------------------------------------------
(***************************************************************************)
(* The two keys and the processes that write them.  A removal runs only    *)
(* for a handler that has ended, so nobody deletes the row of a connection *)
(* that is still served; and a key outlives what depends on it: the hash   *)
(* the host string of a host that has a row, and the leases of its rows.   *)
(***************************************************************************)
Tasks ==
    \A c \in Conns :
        /\ pc[c] \in {"authed", "subscribing", "serving"} => removal[c] = "none"
        /\ inbox[c] # <<>> => pc[c] = "serving"

Clocks ==
    /\ host \in peers => hostTTL <= peersTTL
    /\ \A c \in Connected \ evicted : lease[c] <= peersTTL

KeysInv == TypeOK /\ Tasks /\ Clocks /\ HostIsAccountedFor /\ RowOutlivesLease

LEMMA KeysInit == Init => KeysInv
  BY TypeInit, RedisRoomsAssumption
  DEF Init, KeysInv, Tasks, Clocks, HostIsAccountedFor, RowOutlivesLease,
      Connected, RedisRoomsAssumption

\* Steps that leave both keys, the leases and the removal tasks alone.
LEMMA KeysUntouched ==
  ASSUME KeysInv, Tasks', TypeOK',
         UNCHANGED <<redisVars, ghostVars, removal>>,
         Connected' = Connected
  PROVE  KeysInv'
  BY DEF KeysInv, Clocks, HostIsAccountedFor, RowOutlivesLease, redisVars,
         ghostVars

LEMMA KeysStep == KeysInv /\ [Next]_vars => KeysInv'
<1> SUFFICES ASSUME KeysInv, [Next]_vars
             PROVE  KeysInv'
    OBVIOUS
<1>t. TypeOK /\ TypeOK'
    BY TypeStep DEF KeysInv
<1>p. /\ pc \in [Conns -> {"authed", "subscribing", "serving", "leaving", "gone"}]
      /\ removal \in [Conns -> {"none", "hdel", "get", "delete"}]
    BY <1>t DEF TypeOK
<1>q. /\ peersTTL \in 0 .. RoomTTL /\ hostTTL \in 0 .. RoomTTL
      /\ lease \in [Conns -> 0 .. RoomTTL]
      /\ peers = {} <=> peersTTL = 0
      /\ host = NoPeer <=> hostTTL = 0
    BY <1>t DEF TypeOK
<1> USE RedisRoomsAssumption DEF RedisRoomsAssumption
<1>1. ASSUME NEW c \in Conns, Register(c)
      PROVE  KeysInv'
  <2>1. Connected' = Connected \cup {c}
      BY <1>1, <1>t DEF Register, Connected, TypeOK
  <2>2. Tasks'
      BY <1>1, <1>t DEF Register, KeysInv, Tasks, TypeOK, clientVars
  <2>3. peersTTL' = RoomTTL
      BY <1>1 DEF Register, RestartedTTL
  <2>4. Clocks'
      BY <1>t, <2>3 DEF Clocks, TypeOK, Connected
  <2>5. HostIsAccountedFor'
      BY <1>1, <1>t DEF Register, KeysInv, HostIsAccountedFor, TypeOK
  <2>6. RowOutlivesLease'
      BY <1>1, <1>t, <2>1 DEF Register, KeysInv, RowOutlivesLease, TypeOK
  <2>7. QED
      BY <1>t, <2>2, <2>4, <2>5, <2>6 DEF KeysInv
<1>2. ASSUME NEW c \in Conns, Subscribe(c) \/ ListRemaining(c)
      PROVE  KeysInv'
  <2>1. Connected' = Connected
      BY <1>2, <1>t DEF Subscribe, ListRemaining, Connected, TypeOK
  <2>2. Tasks'
      BY <1>2, <1>p DEF Subscribe, ListRemaining, KeysInv, Tasks, clientVars
  <2>3. QED
      BY <1>2, <1>t, <2>1, <2>2, KeysUntouched
      DEF Subscribe, ListRemaining
<1>3. ASSUME NEW c \in Conns, NEW d \in Conns, NEW m \in Envelope,
             Deliver(c, d, m),
             UNCHANGED <<pc, redisVars, ghostVars, removal>>
      PROVE  KeysInv'
  <2>1. Connected' = Connected
      BY <1>3 DEF Connected
  <2>2. Tasks'
      BY <1>3, <1>t DEF Deliver, Publish, KeysInv, Tasks, TypeOK
  <2>3. QED
      BY <1>3, <1>t, <2>1, <2>2, KeysUntouched
<1>4. ASSUME NEW c \in Conns, pc[c] = "serving", RemovePeer(c)
      PROVE  KeysInv'
  <2>1. Connected' = Connected \ {c}
      BY <1>4, <1>t DEF RemovePeer, Connected, TypeOK
  <2>2. Tasks'
      BY <1>4, <1>t DEF RemovePeer, KeysInv, Tasks, TypeOK
  <2>3. Clocks' /\ RowOutlivesLease'
      BY <1>4, <1>t, <2>1 DEF RemovePeer, KeysInv, Clocks, RowOutlivesLease,
                              TypeOK, redisVars, Connected
  <2>4. HostIsAccountedFor'
      BY <1>4, <1>t DEF RemovePeer, KeysInv, HostIsAccountedFor, Tasks, TypeOK,
                        redisVars
  <2>5. QED
      BY <1>t, <2>2, <2>3, <2>4 DEF KeysInv
<1>5. ASSUME NEW d \in Conns, DispatchMessage(d)
      PROVE  KeysInv'
  <2>1. Connected' = Connected
      BY <1>5 DEF DispatchMessage, Connected
  <2>2. Tasks'
      BY <1>5, <1>t DEF DispatchMessage, KeysInv, Tasks, TypeOK
  <2>3. QED
      BY <1>5, <1>t, <2>1, <2>2, KeysUntouched DEF DispatchMessage
<1>6. ASSUME NEW c \in Conns, RemoveRow(c)
      PROVE  KeysInv'
  <2>1. Connected' = Connected /\ c \notin Connected
      BY <1>6, <1>t DEF RemoveRow, Connected, KeysInv, Tasks, TypeOK
  <2>2. Tasks'
      BY <1>6, <1>p DEF RemoveRow, KeysInv, Tasks, clientVars
  <2>3. peers' = peers \ {c} /\ (peers' # {} => peersTTL' = peersTTL)
      BY <1>6 DEF RemoveRow
  <2>4. RowOutlivesLease'
      BY <1>6, <2>1, <2>3 DEF RemoveRow, KeysInv, RowOutlivesLease, ghostVars
  <2>5. Clocks'
    <3>1. host' \in peers' => hostTTL' <= peersTTL'
        BY <1>6, <2>3 DEF RemoveRow, KeysInv, Clocks
    <3>2. ASSUME NEW d \in Connected' \ evicted'
          PROVE  lease'[d] <= peersTTL'
      <4>1. CASE lease'[d] = 0
          BY <1>t, <4>1 DEF TypeOK
      <4>2. CASE lease'[d] # 0
        <5>0. d \in Conns /\ lease'[d] > 0
            BY <1>t, <4>2 DEF TypeOK, Connected
        <5>1. d \in peers'
            BY <2>4, <5>0 DEF RowOutlivesLease
        <5>2. QED
            BY <1>6, <2>1, <2>3, <5>1 DEF RemoveRow, KeysInv, Clocks, ghostVars
      <4>3. QED
          BY <4>1, <4>2
    <3>3. QED
        BY <3>1, <3>2 DEF Clocks
  <2>6. HostIsAccountedFor'
      BY <1>6, <1>t, <2>3 DEF RemoveRow, KeysInv, HostIsAccountedFor, TypeOK
  <2>7. QED
      BY <1>t, <2>2, <2>4, <2>5, <2>6 DEF KeysInv
<1>7. ASSUME NEW c \in Conns, ReadHost(c)
      PROVE  KeysInv'
  <2>1. Connected' = Connected
      BY <1>7 DEF ReadHost, Connected
  <2>2. Tasks'
      BY <1>7, <1>p DEF ReadHost, KeysInv, Tasks, clientVars
  <2>3. Clocks' /\ RowOutlivesLease'
      BY <1>7, <2>1 DEF ReadHost, KeysInv, Clocks, RowOutlivesLease, redisVars,
                        ghostVars
  <2>4. HostIsAccountedFor'
      BY <1>7, <1>t DEF ReadHost, KeysInv, HostIsAccountedFor, TypeOK,
                        redisVars
  <2>5. QED
      BY <1>t, <2>2, <2>3, <2>4 DEF KeysInv
<1>8. ASSUME NEW c \in Conns, RemoveHost(c)
      PROVE  KeysInv'
  <2>1. Connected' = Connected
      BY <1>8 DEF RemoveHost, Connected
  <2>2. Tasks'
      BY <1>8, <1>p DEF RemoveHost, KeysInv, Tasks, clientVars
  <2>3. Clocks' /\ RowOutlivesLease'
      BY <1>8, <1>t, <2>1 DEF RemoveHost, KeysInv, Clocks, RowOutlivesLease,
                              ghostVars, TypeOK
  <2>4. HostIsAccountedFor'
      BY <1>8 DEF RemoveHost, HostIsAccountedFor
  <2>5. QED
      BY <1>t, <2>2, <2>3, <2>4 DEF KeysInv
<1>9. CASE ListPeers
  <2>1. Connected' = Connected /\ Tasks'
      BY <1>9 DEF ListPeers, Connected, KeysInv, Tasks, clientVars
  <2>2. QED
      BY <1>9, <1>t, <2>1, KeysUntouched DEF ListPeers
<1>10. ASSUME NEW d \in Conns, PublishClose(d)
       PROVE  KeysInv'
  <2>1. Connected' = Connected
      BY <1>10 DEF PublishClose, Connected
  <2>2. Tasks'
      BY <1>10, <1>t DEF PublishClose, Publish, KeysInv, Tasks, TypeOK
  <2>3. QED
      BY <1>10, <1>t, <2>1, <2>2, KeysUntouched DEF PublishClose
<1>11. CASE DeleteRoom
  <2>1. Connected' = Connected
      BY <1>11 DEF DeleteRoom, Connected
  <2>2. Tasks'
      BY <1>11 DEF DeleteRoom, KeysInv, Tasks, clientVars
  <2>3. \A d \in Connected' \ evicted' : lease'[d] = 0
      BY <1>11, <1>t, <2>1 DEF DeleteRoom, KeysInv, RowOutlivesLease, TypeOK,
                               Connected
  <2>4. Clocks' /\ RowOutlivesLease' /\ HostIsAccountedFor'
      BY <1>11, <1>t, <2>3 DEF DeleteRoom, DeletedHost, Clocks,
                         RowOutlivesLease, HostIsAccountedFor, TypeOK
  <2>5. QED
      BY <1>t, <2>2, <2>4 DEF KeysInv
<1>12. CASE Tick
  <2>1. Connected' = Connected
      BY <1>12 DEF Tick, Connected
  <2>2. Tasks'
      BY <1>12 DEF Tick, KeysInv, Tasks, clientVars
  <2>3. \A d \in Connected : d \notin evicted =>
            lease'[d] <= peersTTL' /\ (lease'[d] > 0 => lease[d] > 0 /\ peersTTL' > 0)
      BY <1>12, <1>q DEF Tick, Countdown, KeysInv, Clocks, Connected
  <2>4. RowOutlivesLease'
      BY <1>12, <1>t, <2>1, <2>3 DEF Tick, KeysInv, RowOutlivesLease
  <2>5. Clocks'
    <3>1. host' \in peers' => hostTTL' <= peersTTL'
        BY <1>12, <1>q DEF Tick, Countdown, KeysInv, Clocks
    <3>2. \A d \in Connected' \ evicted' : lease'[d] <= peersTTL'
        BY <1>12, <2>1, <2>3 DEF Tick
    <3>3. QED
        BY <3>1, <3>2 DEF Clocks
  <2>6. HostIsAccountedFor'
      BY <1>12, <1>t DEF Tick, Countdown, KeysInv, Clocks, HostIsAccountedFor,
                         TypeOK
  <2>7. QED
      BY <1>t, <2>2, <2>4, <2>5, <2>6 DEF KeysInv
<1>13. CASE UNCHANGED vars
  <2>1. Connected' = Connected /\ Tasks'
      BY <1>13 DEF vars, Connected, KeysInv, Tasks, clientVars
  <2>2. QED
      BY <1>13, <1>t, <2>1, KeysUntouched DEF vars
<1>14. ASSUME NEW c \in Conns, NEW d \in Conns, Send(c, d) \/ TellLeft(c, d)
       PROVE  KeysInv'
    BY <1>3, <1>14, Envelopes DEF Send, TellLeft
<1>15. ASSUME NEW c \in Conns, Leave(c) \/ DispatchClose(c)
       PROVE  KeysInv'
    BY <1>4, <1>15 DEF Leave, DispatchClose, KeysInv, Tasks
<1>16. QED
    BY <1>1, <1>2, <1>5, <1>6, <1>7, <1>8, <1>9, <1>10, <1>11, <1>12, <1>13,
       <1>14, <1>15
    DEF Next, Handler, Subscriber, Removal, CloseRoom

(***************************************************************************)
(* The host string names a host of the room or one whose removal is under  *)
(* way (or died) between its commands, however registrations, removals,    *)
(* reports and expiries interleave.                                        *)
(***************************************************************************)
THEOREM HostAccounted == Spec => []HostIsAccountedFor
  BY KeysInit, KeysStep, PTL DEF Spec, KeysInv

(***************************************************************************)
(* Every registration keeps its row for the room's TTL, unless the room is *)
(* closed by a report.                                                     *)
(***************************************************************************)
THEOREM RowsOutliveLeases == Spec => []RowOutlivesLease
  BY KeysInit, KeysStep, PTL DEF Spec, KeysInv

----------------------------------------------------------------------------
(***************************************************************************)
(* No ghost peers.  A departure of c is settled for d when c's handler     *)
(* has still to tell d, or the news waits in d's inbox behind position k.  *)
(* What d's client knows, and every message on its way to it, is settled;  *)
(* a worker uses one of its two ways to reach d, never both, so the news   *)
(* cannot overtake the message.                                            *)
(***************************************************************************)
Known(c, d) == c \in Connected \/ pc[c] = "leaving" \/ d \in owed[c]

WillHear(c, d, k) ==
    \E j \in 1 .. Len(inbox[d]) : j > k /\ inbox[d][j] = Left(c)

Settled(c, d, k) == Known(c, d) \/ WillHear(c, d, k)

Entitled == {d \in Connected \ evicted : lease[d] > 0}

HeardSettled == \A d \in Entitled : \A c \in heard[d] : Settled(c, d, 0)

QueuedSettled ==
    \A d \in Entitled, c \in Conns : \A i \in 1 .. Len(inbox[d]) :
        inbox[d][i] = Msg(c) => Settled(c, d, i)

OneWay ==
    /\ \A d \in Conns : \A c \in heard[d] :
          d \in Connected /\ (worker[c] # worker[d] => pc[d] = "serving")
    /\ \A d, c \in Conns : \A i \in 1 .. Len(inbox[d]) :
          inbox[d][i] = Msg(c) => worker[c] # worker[d]

GhostInv == HeardSettled /\ QueuedSettled /\ OneWay

LEMMA GhostInit == Init => GhostInv
  BY DEF Init, GhostInv, HeardSettled, QueuedSettled, OneWay, Entitled,
         Connected

\* An inbox keeps what it holds when an envelope joins it.
LEMMA Appended ==
  ASSUME NEW q \in Seq(Envelope), NEW m \in Envelope
  PROVE  /\ Append(q, m) \in Seq(Envelope)
         /\ Len(Append(q, m)) = Len(q) + 1
         /\ \A i \in 1 .. Len(q) : Append(q, m)[i] = q[i]
         /\ Append(q, m)[Len(q) + 1] = m
  OBVIOUS

\* An inbox moves up by one when its head is dispatched.
LEMMA Tailed ==
  ASSUME NEW q \in Seq(Envelope), q # <<>>
  PROVE  /\ Tail(q) \in Seq(Envelope)
         /\ Len(q) \in Nat \ {0}
         /\ Len(Tail(q)) = Len(q) - 1
         /\ \A i \in 1 .. Len(q) - 1 : Tail(q)[i] = q[i + 1]
         /\ Head(q) = q[1]
  OBVIOUS

(***************************************************************************)
(* A step that changes no inbox and no client, and does not lose a sender  *)
(* that still has somebody to tell.                                        *)
(***************************************************************************)
LEMMA GhostUntouched ==
  ASSUME GhostInv, UNCHANGED <<worker, inbox, heard>>, Connected' \subseteq Conns,
         Entitled' \subseteq Entitled,
         \A d \in Entitled' : \A c \in Conns : Known(c, d) => Known(c, d)',
         \A d \in Conns : heard[d] # {} => d \in Connected' /\ pc'[d] = pc[d],
         TypeOK
  PROVE  GhostInv'
<1>1. \A c, d, k : WillHear(c, d, k)' <=> WillHear(c, d, k)
    BY DEF WillHear, Left
<1>2. HeardSettled'
    BY <1>1 DEF GhostInv, HeardSettled, Settled, TypeOK, Entitled, Connected
<1>3. QueuedSettled'
    BY <1>1 DEF GhostInv, QueuedSettled, Settled, Msg
<1>4. OneWay'
    BY DEF GhostInv, OneWay, Msg
<1>5. QED
    BY <1>2, <1>3, <1>4 DEF GhostInv

\* m joins d's inbox; nothing settled becomes unsettled.
LEMMA PublishKeeps ==
  ASSUME TypeOK, NEW d \in Conns, NEW m \in Envelope,
         inbox' = [inbox EXCEPT ![d] = Append(@, m)]
  PROVE  /\ \A e \in Conns : \A i \in 1 .. Len(inbox[e]) :
               i \in 1 .. Len(inbox'[e]) /\ inbox'[e][i] = inbox[e][i]
         /\ \A e \in Conns : \A i \in 1 .. Len(inbox'[e]) :
               \/ i \in 1 .. Len(inbox[e])
               \/ e = d /\ i = Len(inbox[d]) + 1 /\ inbox'[e][i] = m
         /\ Len(inbox'[d]) = Len(inbox[d]) + 1
         /\ inbox'[d][Len(inbox[d]) + 1] = m
         /\ \A c, e \in Conns, k \in Nat : WillHear(c, e, k) => WillHear(c, e, k)'
<1>1. inbox[d] \in Seq(Envelope) /\ inbox'[d] = Append(inbox[d], m)
    BY DEF TypeOK
<1>2. \A e \in Conns : e # d => inbox'[e] = inbox[e]
    BY DEF TypeOK
<1>3. /\ Len(inbox'[d]) = Len(inbox[d]) + 1
      /\ \A i \in 1 .. Len(inbox[d]) : inbox'[d][i] = inbox[d][i]
      /\ inbox'[d][Len(inbox[d]) + 1] = m
    BY <1>1, Appended
<1>4. \A e \in Conns : Len(inbox[e]) \in Nat
    BY DEF TypeOK
<1>5. /\ \A e \in Conns : \A i \in 1 .. Len(inbox[e]) :
            i \in 1 .. Len(inbox'[e]) /\ inbox'[e][i] = inbox[e][i]
      /\ \A e \in Conns : \A i \in 1 .. Len(inbox'[e]) :
            \/ i \in 1 .. Len(inbox[e])
            \/ e = d /\ i = Len(inbox[d]) + 1 /\ inbox'[e][i] = m
    BY <1>2, <1>3, <1>4
<1>6. \A c, e \in Conns, k \in Nat : WillHear(c, e, k) => WillHear(c, e, k)'
    BY <1>5 DEF WillHear, Left
<1>7. QED
    BY <1>3, <1>5, <1>6

LEMMA GhostSend ==
  ASSUME KeysInv, GhostInv, NEW c \in Conns, NEW d \in Conns, Send(c, d)
  PROVE  GhostInv'
<1>t. TypeOK /\ Tasks
    BY DEF KeysInv
<1>1. /\ UNCHANGED <<worker, pc, owed, lease, evicted>>
      /\ Deliver(c, d, Msg(c))
      /\ pc[c] = "serving"
    BY DEF Send, ghostVars
<1>2. Connected' = Connected /\ Entitled' = Entitled /\ c \in Connected
    BY <1>1 DEF Connected, Entitled
<1>3. \A a, e : Known(a, e)' <=> Known(a, e)
    BY <1>1, <1>2 DEF Known
<1>4. CASE Local(c, d) /\ Tell(d, Msg(c)) /\ UNCHANGED inbox
  <2>1. heard' = [heard EXCEPT ![d] = @ \cup {c}]
      BY <1>4, Envelopes DEF Tell
  <2>2. \A a, e, k : WillHear(a, e, k)' <=> WillHear(a, e, k)
      BY <1>4 DEF WillHear, Left
  <2>3. HeardSettled'
      BY <1>t, <1>2, <1>3, <2>1, <2>2
      DEF GhostInv, HeardSettled, Settled, Known, TypeOK, Entitled, Connected
  <2>4. QueuedSettled'
      BY <1>2, <1>3, <1>4, <2>2 DEF GhostInv, QueuedSettled, Settled, Msg
  <2>5. OneWay'
      BY <1>t, <1>1, <1>2, <1>4, <2>1 DEF GhostInv, OneWay, Msg, Local, TypeOK
  <2>6. QED
      BY <2>3, <2>4, <2>5 DEF GhostInv
<1>5. CASE pc[d] # "serving" /\ UNCHANGED <<inbox, heard>>
    BY <1>t, <1>1, <1>2, <1>3, <1>5, GhostUntouched
    DEF GhostInv, OneWay, Connected
<1>6. CASE ~Local(c, d) /\ pc[d] = "serving" /\ UNCHANGED heard
           /\ inbox' = [inbox EXCEPT ![d] = Append(@, Msg(c))]
  <2>p. Msg(c) \in Envelope
      BY Envelopes
  <2>q. /\ \A e \in Conns : \A i \in 1 .. Len(inbox[e]) :
               i \in 1 .. Len(inbox'[e]) /\ inbox'[e][i] = inbox[e][i]
        /\ \A e \in Conns : \A i \in 1 .. Len(inbox'[e]) :
               \/ i \in 1 .. Len(inbox[e])
               \/ e = d /\ i = Len(inbox[d]) + 1 /\ inbox'[e][i] = Msg(c)
        /\ Len(inbox'[d]) = Len(inbox[d]) + 1
        /\ inbox'[d][Len(inbox[d]) + 1] = Msg(c)
        /\ \A a, e \in Conns, k \in Nat : WillHear(a, e, k) => WillHear(a, e, k)'
      BY <1>t, <1>6, <2>p, PublishKeeps
  <2>1. /\ \A e \in Conns : \A i \in 1 .. Len(inbox'[e]) :
               \/ i \in 1 .. Len(inbox[e]) /\ inbox'[e][i] = inbox[e][i]
               \/ e = d /\ inbox'[e][i] = Msg(c)
        /\ \A a, e \in Conns, k \in Nat : WillHear(a, e, k) => WillHear(a, e, k)'
      BY <2>q
  <2>2. HeardSettled'
      BY <1>t, <1>2, <1>3, <1>6, <2>1
      DEF GhostInv, HeardSettled, Settled, TypeOK, Entitled, Connected
  <2>3. \A a \in Conns : Msg(a)' = Msg(a) /\ (Msg(a) = Msg(c) => a = c)
      BY DEF Msg
  <2>4. QueuedSettled'
    <3> SUFFICES ASSUME NEW e \in Entitled', NEW a \in Conns,
                        NEW i \in 1 .. Len(inbox'[e]), inbox'[e][i] = Msg(a)
                 PROVE  Settled(a, e, i)'
        BY <2>3 DEF QueuedSettled
    <3>1. e \in Entitled /\ e \in Conns /\ i \in Nat
        BY <1>2 DEF Entitled, Connected
    <3>2. CASE i \in 1 .. Len(inbox[e]) /\ inbox'[e][i] = inbox[e][i]
        BY <1>3, <2>1, <3>1, <3>2 DEF GhostInv, QueuedSettled, Settled
    <3>3. CASE e = d /\ inbox'[e][i] = Msg(c)
        BY <1>2, <2>3, <3>3 DEF Settled, Known
    <3>4. QED
        BY <2>1, <3>1, <3>2, <3>3
  <2>5. worker[c] # worker[d]
      BY <1>6 DEF Local, Connected
  <2>6. OneWay'
    <3>1. \A e \in Conns : \A a \in heard'[e] :
             e \in Connected' /\ (worker'[a] # worker'[e] => pc'[e] = "serving")
        BY <1>1, <1>2, <1>6 DEF GhostInv, OneWay
    <3>2. \A e, a \in Conns : \A i \in 1 .. Len(inbox'[e]) :
             inbox'[e][i] = Msg(a) => worker'[a] # worker'[e]
        BY <1>1, <2>1, <2>3, <2>5 DEF GhostInv, OneWay
    <3>3. QED
        BY <2>3, <3>1, <3>2 DEF OneWay
  <2>7. QED
      BY <2>2, <2>4, <2>6 DEF GhostInv
<1>7. QED
    BY <1>1, <1>4, <1>5, <1>6 DEF Deliver, Publish

LEMMA GhostTellLeft ==
  ASSUME KeysInv, GhostInv, NEW c \in Conns, NEW d \in Conns, TellLeft(c, d)
  PROVE  GhostInv'
<1>t. TypeOK /\ Tasks
    BY DEF KeysInv
<1>1. /\ UNCHANGED <<worker, pc, lease, evicted>>
      /\ Deliver(c, d, Left(c))
      /\ owed' = [owed EXCEPT ![c] = @ \ {d}]
    BY DEF TellLeft, ghostVars
<1>2. Connected' = Connected /\ Entitled' = Entitled
    BY <1>1 DEF Connected, Entitled
<1>3. \A a, e \in Conns : a # c \/ e # d => (Known(a, e) => Known(a, e)')
    BY <1>t, <1>1, <1>2 DEF Known, TypeOK
<1>m. \A a \in Conns : Msg(a)' = Msg(a) /\ Left(a)' = Left(a) /\ Msg(a) # Left(c)
    BY DEF Msg, Left
<1>4. CASE Local(c, d) /\ Tell(d, Left(c)) /\ UNCHANGED inbox
  <2>1. heard' = [heard EXCEPT ![d] = @ \ {c}]
      BY <1>4, Envelopes DEF Tell
  <2>2. \A a, e, k : WillHear(a, e, k)' <=> WillHear(a, e, k)
      BY <1>4 DEF WillHear, Left
  <2>3. HeardSettled'
      BY <1>t, <1>2, <1>3, <2>1, <2>2
      DEF GhostInv, HeardSettled, Settled, TypeOK, Entitled, Connected
  <2>4. \A i \in 1 .. Len(inbox[d]) : inbox[d][i] # Msg(c)
      BY <1>4 DEF GhostInv, OneWay, Local
  <2>5. QueuedSettled'
      BY <1>2, <1>3, <1>4, <1>m, <2>2, <2>4
      DEF GhostInv, QueuedSettled, Settled, Entitled, Connected
  <2>6. OneWay'
      BY <1>t, <1>1, <1>2, <1>4, <1>m, <2>1 DEF GhostInv, OneWay, TypeOK
  <2>7. QED
      BY <2>3, <2>5, <2>6 DEF GhostInv
<1>5. CASE ~Local(c, d) /\ pc[d] # "serving" /\ UNCHANGED <<inbox, heard>>
  <2>1. d \in Connected => worker[c] # worker[d]
      BY <1>5 DEF Local
  <2>2. d \in Connected => c \notin heard[d] /\ inbox[d] = <<>>
      BY <1>t, <1>5, <2>1 DEF GhostInv, OneWay, Tasks
  <2>3. \A a, e, k : WillHear(a, e, k)' <=> WillHear(a, e, k)
      BY <1>5 DEF WillHear, Left
  <2>4. HeardSettled'
      BY <1>t, <1>2, <1>3, <1>5, <2>2, <2>3
      DEF GhostInv, HeardSettled, Settled, TypeOK, Entitled, Connected
  <2>5. QueuedSettled'
    <3> SUFFICES ASSUME NEW e \in Entitled', NEW a \in Conns,
                        NEW i \in 1 .. Len(inbox'[e]), inbox'[e][i] = Msg(a)
                 PROVE  Settled(a, e, i)'
        BY <1>m DEF QueuedSettled
    <3>1. e \in Entitled /\ e \in Conns /\ inbox'[e] = inbox[e]
        BY <1>2, <1>5 DEF Entitled, Connected
    <3>2. e # d
        BY <2>2, <3>1 DEF Entitled
    <3>3. QED
        BY <1>3, <2>3, <3>1, <3>2 DEF GhostInv, QueuedSettled, Settled
  <2>6. OneWay'
      BY <1>1, <1>2, <1>5, <1>m DEF GhostInv, OneWay
  <2>7. QED
      BY <2>4, <2>5, <2>6 DEF GhostInv
<1>6. CASE ~Local(c, d) /\ pc[d] = "serving" /\ UNCHANGED heard
           /\ inbox' = [inbox EXCEPT ![d] = Append(@, Left(c))]
  <2>p. Left(c) \in Envelope
      BY Envelopes
  <2>q. /\ \A e \in Conns : \A i \in 1 .. Len(inbox[e]) :
               i \in 1 .. Len(inbox'[e]) /\ inbox'[e][i] = inbox[e][i]
        /\ \A e \in Conns : \A i \in 1 .. Len(inbox'[e]) :
               \/ i \in 1 .. Len(inbox[e])
               \/ e = d /\ i = Len(inbox[d]) + 1 /\ inbox'[e][i] = Left(c)
        /\ Len(inbox'[d]) = Len(inbox[d]) + 1
        /\ inbox'[d][Len(inbox[d]) + 1] = Left(c)
        /\ \A a, e \in Conns, k \in Nat : WillHear(a, e, k) => WillHear(a, e, k)'
      BY <1>t, <1>6, <2>p, PublishKeeps
  <2>1. /\ \A e \in Conns : \A i \in 1 .. Len(inbox'[e]) :
               \/ i \in 1 .. Len(inbox[e]) /\ inbox'[e][i] = inbox[e][i]
               \/ e = d /\ inbox'[e][i] = Left(c)
        /\ \A a, e \in Conns, k \in Nat : WillHear(a, e, k) => WillHear(a, e, k)'
        /\ Len(inbox'[d]) = Len(inbox[d]) + 1
        /\ inbox'[d][Len(inbox[d]) + 1] = Left(c)
      BY <2>q
  <2>a. Len(inbox[d]) \in Nat
      BY <1>t DEF TypeOK
  <2>2. \A k \in 0 .. Len(inbox[d]) : WillHear(c, d, k)'
      BY <1>m, <2>1, <2>a DEF WillHear
  <2>3. HeardSettled'
    <3> SUFFICES ASSUME NEW e \in Entitled', NEW a \in heard'[e]
                 PROVE  Settled(a, e, 0)'
        BY DEF HeardSettled
    <3>1. e \in Entitled /\ e \in Conns /\ a \in heard[e] /\ a \in Conns
        BY <1>t, <1>2, <1>6 DEF Entitled, Connected, TypeOK
    <3>2. CASE a = c /\ e = d
        BY <2>2, <2>a, <3>2 DEF Settled
    <3>3. CASE a # c \/ e # d
        BY <1>3, <2>1, <3>1, <3>3 DEF GhostInv, HeardSettled, Settled
    <3>4. QED
        BY <3>2, <3>3
  <2>4. QueuedSettled'
    <3> SUFFICES ASSUME NEW e \in Entitled', NEW a \in Conns,
                        NEW i \in 1 .. Len(inbox'[e]), inbox'[e][i] = Msg(a)
                 PROVE  Settled(a, e, i)'
        BY <1>m DEF QueuedSettled
    <3>1. e \in Entitled /\ e \in Conns
        BY <1>2 DEF Entitled, Connected
    <3>2. i \in 1 .. Len(inbox[e]) /\ inbox[e][i] = Msg(a)
        BY <1>m, <2>1, <3>1
    <3>3. CASE a = c /\ e = d
        BY <2>2, <2>a, <3>2, <3>3 DEF Settled
    <3>4. CASE a # c \/ e # d
        BY <1>3, <2>1, <3>1, <3>2, <3>4 DEF GhostInv, QueuedSettled, Settled
    <3>5. QED
        BY <3>3, <3>4
  <2>5. OneWay'
    <3>1. \A e \in Conns : \A a \in heard'[e] :
             e \in Connected' /\ (worker'[a] # worker'[e] => pc'[e] = "serving")
        BY <1>1, <1>2, <1>6 DEF GhostInv, OneWay
    <3>2. \A e, a \in Conns : \A i \in 1 .. Len(inbox'[e]) :
             inbox'[e][i] = Msg(a) => worker'[a] # worker'[e]
        BY <1>1, <1>m, <2>1 DEF GhostInv, OneWay
    <3>3. QED
        BY <1>m, <3>1, <3>2 DEF OneWay
  <2>6. QED
      BY <2>3, <2>4, <2>5 DEF GhostInv
<1>7. QED
    BY <1>1, <1>4, <1>5, <1>6 DEF Deliver, Publish

LEMMA GhostDispatch ==
  ASSUME KeysInv, GhostInv, NEW d \in Conns, DispatchMessage(d)
  PROVE  GhostInv'
<1> DEFINE q == inbox[d]
           m == Head(inbox[d])
<1>t. TypeOK /\ Tasks
    BY DEF KeysInv
<1>1. /\ UNCHANGED <<worker, pc, owed, lease, evicted>>
      /\ q # <<>> /\ m # CloseEnvelope
      /\ inbox' = [inbox EXCEPT ![d] = Tail(@)]
      /\ Tell(d, m)
    BY DEF DispatchMessage, ghostVars
<1>2. Connected' = Connected /\ Entitled' = Entitled
    BY <1>1 DEF Connected, Entitled
<1>3. \A a, e : Known(a, e)' <=> Known(a, e)
    BY <1>1, <1>2 DEF Known
<1>4. q \in Seq(Envelope)
    BY <1>t DEF TypeOK
<1>5. /\ Len(q) \in Nat \ {0} /\ Len(inbox'[d]) = Len(q) - 1
      /\ \A i \in 1 .. Len(q) - 1 : inbox'[d][i] = q[i + 1]
      /\ m = q[1] /\ m \in Envelope
  <2>1. inbox'[d] = Tail(q)
      BY <1>t, <1>1 DEF TypeOK
  <2>2. Len(q) \in Nat \ {0} /\ Len(Tail(q)) = Len(q) - 1 /\ m = q[1]
        /\ \A i \in 1 .. Len(q) - 1 : Tail(q)[i] = q[i + 1]
      BY <1>1, <1>4, Tailed
  <2>3. QED
      BY <1>4, <2>1, <2>2
<1>6. \A e \in Conns : e # d => inbox'[e] = inbox[e] /\ heard'[e] = heard[e]
    BY <1>t, <1>1 DEF TypeOK, Tell
<1>n. \A a \in Conns : /\ Msg(a)' = Msg(a) /\ Left(a)' = Left(a)
                       /\ Msg(a).from = a /\ Msg(a).kind = "msg"
                       /\ Left(a).from = a /\ Left(a).kind = "left"
    BY DEF Msg, Left
<1>7. PICK a0 \in Conns : m = Msg(a0) \/ m = Left(a0)
    BY <1>1, <1>5 DEF Envelope, Msg, Left
<1>8. heard'[d] = IF m = Msg(a0) THEN heard[d] \cup {a0} ELSE heard[d] \ {a0}
  <2>1. heard'[d] = IF m.kind = "msg" THEN heard[d] \cup {m.from}
                                      ELSE heard[d] \ {m.from}
      BY <1>t, <1>1 DEF Tell, TypeOK
  <2>2. m.from = a0 /\ (m.kind = "msg" <=> m = Msg(a0))
      BY <1>7, <1>n, Zenon
  <2>3. QED
      BY <2>1, <2>2, Zenon
<1>9. \A a \in Conns, k \in Nat :
          k > 0 /\ WillHear(a, d, k) => WillHear(a, d, k - 1)'
  <2> SUFFICES ASSUME NEW a \in Conns, NEW k \in Nat, k > 0, WillHear(a, d, k)
               PROVE  WillHear(a, d, k - 1)'
      OBVIOUS
  <2>1. PICK j \in 1 .. Len(q) : j > k /\ q[j] = Left(a)
      BY DEF WillHear
  <2>2. j - 1 \in 1 .. Len(inbox'[d]) /\ j - 1 > k - 1 /\ inbox'[d][j - 1] = Left(a)
      BY <1>5, <2>1
  <2>3. QED
      BY <1>n, <2>2 DEF WillHear
<1>10. \A a \in Conns : WillHear(a, d, 0) /\ m # Left(a) => WillHear(a, d, 0)'
  <2> SUFFICES ASSUME NEW a \in Conns, WillHear(a, d, 0), m # Left(a)
               PROVE  WillHear(a, d, 0)'
      OBVIOUS
  <2>1. PICK j \in 1 .. Len(q) : q[j] = Left(a)
      BY DEF WillHear
  <2>2. j - 1 \in 1 .. Len(inbox'[d]) /\ j - 1 > 0 /\ inbox'[d][j - 1] = Left(a)
      BY <1>5, <2>1
  <2>3. QED
      BY <1>n, <2>2 DEF WillHear
<1>11. \A a, e \in Conns, k \in Nat :
           e # d /\ WillHear(a, e, k) => WillHear(a, e, k)'
    BY <1>6, <1>n DEF WillHear
<1>12. HeardSettled'
  <2> SUFFICES ASSUME NEW e \in Entitled', NEW a \in heard'[e]
               PROVE  Settled(a, e, 0)'
      BY DEF HeardSettled
  <2>1. e \in Entitled /\ e \in Conns
      BY <1>2 DEF Entitled, Connected
  <2>2. CASE e # d
      BY <1>t, <1>3, <1>6, <1>11, <2>1, <2>2
      DEF GhostInv, HeardSettled, Settled, TypeOK
  <2>3. CASE e = d /\ m = Msg(a0) /\ a = a0
    <3>1. Settled(a, d, 1)
        BY <1>5, <2>1, <2>3 DEF GhostInv, QueuedSettled
    <3>2. WillHear(a, d, 1) => WillHear(a, d, 0)'
      <4> SUFFICES ASSUME WillHear(a, d, 1)
                   PROVE  WillHear(a, d, 0)'
          OBVIOUS
      <4>1. PICK j \in 1 .. Len(q) : j > 1 /\ q[j] = Left(a)
          BY DEF WillHear
      <4>2. j - 1 \in 1 .. Len(inbox'[d]) /\ j - 1 > 0
            /\ inbox'[d][j - 1] = Left(a)
          BY <1>5, <4>1
      <4>3. QED
          BY <1>n, <2>3, <4>2 DEF WillHear
    <3>3. Settled(a, d, 0)'
        BY <1>3, <3>1, <3>2 DEF Settled
    <3>4. QED
        BY <2>3, <3>3
  <2>4. CASE e = d /\ ~(m = Msg(a0) /\ a = a0)
    <3>a. heard[d] \subseteq Conns /\ a \in heard'[d]
        BY <1>t, <2>4 DEF TypeOK
    <3>b. a \in heard[d]
        BY <1>8, <2>4, <3>a
    <3>c. a \in Conns
        BY <3>a, <3>b
    <3>d. ASSUME m = Left(a) PROVE FALSE
      <4>1. a = a0 /\ m # Msg(a0)
          BY <1>7, <1>n, <3>c, <3>d
      <4>2. a \notin heard'[d]
          BY <1>8, <4>1
      <4>3. QED
          BY <3>a, <4>2
    <3>1. a \in heard[d] /\ a \in Conns /\ m # Left(a)
        BY <3>b, <3>c, <3>d
    <3>2. Settled(a, d, 0)
        BY <2>1, <2>4, <3>1 DEF GhostInv, HeardSettled
    <3>3. QED
        BY <1>3, <1>10, <2>4, <3>1, <3>2 DEF Settled
  <2>5. QED
      BY <2>2, <2>3, <2>4
<1>13. QueuedSettled'
  <2> SUFFICES ASSUME NEW e \in Entitled', NEW a \in Conns,
                      NEW i \in 1 .. Len(inbox'[e]), inbox'[e][i] = Msg(a)
               PROVE  Settled(a, e, i)'
      BY <1>n DEF QueuedSettled
  <2>1. e \in Entitled /\ e \in Conns /\ i \in Nat
      BY <1>2 DEF Entitled, Connected
  <2>2. CASE e # d
      BY <1>3, <1>6, <1>11, <2>1, <2>2 DEF GhostInv, QueuedSettled, Settled
  <2>3. CASE e = d
    <3>1. i + 1 \in 1 .. Len(q) /\ q[i + 1] = Msg(a)
        BY <1>5, <2>3
    <3>2. Settled(a, d, i + 1)
        BY <2>1, <2>3, <3>1 DEF GhostInv, QueuedSettled
    <3>3. WillHear(a, d, i + 1) => WillHear(a, d, (i + 1) - 1)'
        BY <1>9, <2>1
    <3>4. (i + 1) - 1 = i
        BY <2>1
    <3>5. QED
        BY <1>3, <2>3, <3>2, <3>3, <3>4 DEF Settled
  <2>4. QED
      BY <2>2, <2>3
<1>14. OneWay'
  <2>1. \A e \in Conns : \A a \in heard'[e] :
            e \in Connected' /\ (worker'[a] # worker'[e] => pc'[e] = "serving")
    <3>1. pc[d] = "serving" /\ d \in Connected
        BY <1>t, <1>1 DEF Tasks, Connected
    <3> SUFFICES ASSUME NEW e \in Conns, NEW a \in heard'[e]
                 PROVE  /\ e \in Connected'
                        /\ worker'[a] # worker'[e] => pc'[e] = "serving"
        OBVIOUS
    <3>2. CASE e = d
        BY <1>1, <1>2, <3>1, <3>2
    <3>3. CASE e # d
        BY <1>1, <1>2, <1>6, <3>3 DEF GhostInv, OneWay
    <3>4. QED
        BY <3>2, <3>3
  <2>2. \A e, a \in Conns : \A i \in 1 .. Len(inbox'[e]) :
            inbox'[e][i] = Msg(a) => worker'[a] # worker'[e]
    <3> SUFFICES ASSUME NEW e \in Conns, NEW a \in Conns,
                        NEW i \in 1 .. Len(inbox'[e]), inbox'[e][i] = Msg(a)
                 PROVE  worker[a] # worker[e]
        BY <1>1
    <3>1. CASE e # d
        BY <1>6, <3>1 DEF GhostInv, OneWay
    <3>2. CASE e = d
      <4>1. i + 1 \in 1 .. Len(q) /\ q[i + 1] = Msg(a)
          BY <1>5, <3>2
      <4>2. QED
          BY <3>2, <4>1 DEF GhostInv, OneWay
    <3>3. QED
        BY <3>1, <3>2
  <2>3. QED
      BY <1>n, <2>1, <2>2 DEF OneWay
<1>15. QED
    BY <1>12, <1>13, <1>14 DEF GhostInv

LEMMA GhostRemovePeer ==
  ASSUME KeysInv, GhostInv, NEW c \in Conns, pc[c] = "serving", RemovePeer(c)
  PROVE  GhostInv'
<1>t. TypeOK
    BY DEF KeysInv
<1>1. /\ UNCHANGED <<worker, owed>>
      /\ pc' = [pc EXCEPT ![c] = "leaving"]
      /\ inbox' = [inbox EXCEPT ![c] = <<>>]
      /\ heard' = [heard EXCEPT ![c] = {}]
      /\ lease' = [lease EXCEPT ![c] = 0]
      /\ evicted' = evicted \ {c}
    BY DEF RemovePeer
<1>2. Connected' = Connected \ {c}
    BY <1>t, <1>1 DEF Connected, TypeOK
<1>3. Entitled' \subseteq Entitled \ {c}
    BY <1>t, <1>1, <1>2 DEF Entitled, Connected, TypeOK
<1>4. \A a, e \in Conns : Known(a, e) => Known(a, e)'
    BY <1>t, <1>1, <1>2 DEF Known, TypeOK
<1>5. \A e \in Conns : e # c => inbox'[e] = inbox[e] /\ heard'[e] = heard[e]
                                /\ pc'[e] = pc[e]
    BY <1>t, <1>1 DEF TypeOK
<1>6. inbox'[c] = <<>> /\ heard'[c] = {}
    BY <1>t, <1>1 DEF TypeOK
<1>n. \A a \in Conns : Msg(a)' = Msg(a) /\ Left(a)' = Left(a)
    BY DEF Msg, Left
<1>7. \A a, e \in Conns, k \in Nat :
          e # c /\ WillHear(a, e, k) => WillHear(a, e, k)'
    BY <1>5, <1>n DEF WillHear
<1>8. HeardSettled'
    BY <1>t, <1>3, <1>4, <1>5, <1>7
    DEF GhostInv, HeardSettled, Settled, TypeOK, Entitled, Connected
<1>9. QueuedSettled'
  <2> SUFFICES ASSUME NEW e \in Entitled', NEW a \in Conns,
                      NEW i \in 1 .. Len(inbox'[e]), inbox'[e][i] = Msg(a)
               PROVE  Settled(a, e, i)'
      BY <1>n DEF QueuedSettled
  <2>1. e \in Entitled /\ e \in Conns /\ e # c /\ i \in Nat
      BY <1>3 DEF Entitled, Connected
  <2>2. Settled(a, e, i)
      BY <1>5, <2>1 DEF GhostInv, QueuedSettled
  <2>3. QED
      BY <1>4, <1>7, <2>1, <2>2 DEF Settled
<1>10. OneWay'
  <2>1. \A e \in Conns : \A a \in heard'[e] :
            e \in Connected' /\ (worker'[a] # worker'[e] => pc'[e] = "serving")
      BY <1>1, <1>2, <1>5, <1>6 DEF GhostInv, OneWay
  <2>2. \A e, a \in Conns : \A i \in 1 .. Len(inbox'[e]) :
            inbox'[e][i] = Msg(a) => worker'[a] # worker'[e]
      BY <1>1, <1>5, <1>6 DEF GhostInv, OneWay
  <2>3. QED
      BY <1>n, <2>1, <2>2 DEF OneWay
<1>11. QED
    BY <1>8, <1>9, <1>10 DEF GhostInv

\* Whoever is entitled has a row, so HKEYS finds it.
LEMMA GhostListRemaining ==
  ASSUME KeysInv, GhostInv, NEW c \in Conns, ListRemaining(c)
  PROVE  GhostInv'
<1>t. TypeOK
    BY DEF KeysInv
<1>1. /\ UNCHANGED <<worker, lease, evicted, inbox, heard>>
      /\ pc[c] = "leaving"
      /\ pc' = [pc EXCEPT ![c] = "gone"]
      /\ owed' = [owed EXCEPT ![c] = peers \ {c}]
    BY DEF ListRemaining, Remaining, ghostVars, clientVars
<1>2. Connected' = Connected /\ Entitled' = Entitled /\ c \notin Connected
    BY <1>t, <1>1 DEF Connected, Entitled, TypeOK
<1>3. Entitled \subseteq peers \ {c}
    BY <1>2 DEF KeysInv, RowOutlivesLease, Entitled
<1>4. \A d \in Entitled' : \A a \in Conns : Known(a, d) => Known(a, d)'
    BY <1>t, <1>1, <1>2, <1>3 DEF Known, TypeOK
<1>5. \A d \in Conns : heard[d] # {} => d \in Connected' /\ pc'[d] = pc[d]
    BY <1>t, <1>1, <1>2 DEF GhostInv, OneWay, TypeOK
<1>6. QED
    BY <1>t, <1>1, <1>2, <1>4, <1>5, GhostUntouched DEF Connected

\* The processes that touch only the keys.
LEMMA GhostKeys ==
  ASSUME KeysInv, GhostInv,
         UNCHANGED <<worker, pc, inbox, heard, owed>>,
         evicted \subseteq evicted',
         \A d \in Conns : lease'[d] > 0 => lease[d] > 0
  PROVE  GhostInv'
<1>1. Connected' = Connected /\ Entitled' \subseteq Entitled
    BY DEF Connected, Entitled
<1>2. \A a, e : Known(a, e)' <=> Known(a, e)
    BY <1>1 DEF Known
<1>3. \A d \in Conns : heard[d] # {} => d \in Connected'
    BY <1>1 DEF GhostInv, OneWay
<1>4. QED
    BY <1>1, <1>2, <1>3, GhostUntouched DEF KeysInv, Connected

LEMMA GhostStep == KeysInv /\ GhostInv /\ [Next]_vars => GhostInv'
<1> SUFFICES ASSUME KeysInv, GhostInv, [Next]_vars
             PROVE  GhostInv'
    OBVIOUS
<1>t. TypeOK /\ Tasks
    BY DEF KeysInv
<1>1. ASSUME NEW c \in Conns, Register(c)
      PROVE  GhostInv'
  <2>1. /\ UNCHANGED <<worker, inbox, heard, owed, evicted>>
        /\ pc[c] = "authed"
        /\ pc' = [pc EXCEPT ![c] = "subscribing"]
        /\ lease' = [lease EXCEPT ![c] = RoomTTL]
      BY <1>1 DEF Register, clientVars
  <2>2. Connected' = Connected \cup {c} /\ c \notin Connected
      BY <1>t, <2>1 DEF Connected, TypeOK
  <2>3. heard[c] = {} /\ inbox[c] = <<>>
      BY <1>t, <2>1, <2>2 DEF GhostInv, OneWay, Tasks
  <2>4. \A a, e \in Conns : Known(a, e) => Known(a, e)'
      BY <1>t, <2>1, <2>2 DEF Known, TypeOK
  <2>5. \A e \in Entitled' : e # c => e \in Entitled
      BY <1>t, <2>1, <2>2 DEF Entitled, TypeOK, Connected
  <2>6. \A a, e, k : WillHear(a, e, k)' <=> WillHear(a, e, k)
      BY <2>1 DEF WillHear, Left
  <2>7. HeardSettled'
      BY <1>t, <2>1, <2>2, <2>3, <2>4, <2>5, <2>6
      DEF GhostInv, HeardSettled, Settled, TypeOK, Entitled, Connected
  <2>8. QueuedSettled'
    <3> SUFFICES ASSUME NEW e \in Entitled', NEW a \in Conns,
                        NEW i \in 1 .. Len(inbox[e]), inbox[e][i] = Msg(a)
                 PROVE  Settled(a, e, i)'
        BY <2>1 DEF QueuedSettled, Msg
    <3>1. e # c
        BY <2>3
    <3>2. e \in Entitled /\ e \in Conns
        BY <2>5, <3>1 DEF Entitled, Connected
    <3>3. QED
        BY <2>4, <2>6, <3>2 DEF GhostInv, QueuedSettled, Settled
  <2>9. OneWay'
      BY <1>t, <2>1, <2>2, <2>3 DEF GhostInv, OneWay, Msg, TypeOK
  <2>10. QED
      BY <2>7, <2>8, <2>9 DEF GhostInv
<1>2. ASSUME NEW c \in Conns, Subscribe(c)
      PROVE  GhostInv'
  <2>1. /\ UNCHANGED <<worker, inbox, heard, owed, lease, evicted>>
        /\ pc[c] = "subscribing"
        /\ pc' = [pc EXCEPT ![c] = "serving"]
      BY <1>2 DEF Subscribe, clientVars, ghostVars
  <2>2. Connected' = Connected /\ Entitled' = Entitled
      BY <1>t, <2>1 DEF Connected, Entitled, TypeOK
  <2>3. \A a, e \in Conns : Known(a, e) => Known(a, e)'
      BY <1>t, <2>1, <2>2 DEF Known, TypeOK
  <2>4. \A a, e, k : WillHear(a, e, k)' <=> WillHear(a, e, k)
      BY <2>1 DEF WillHear, Left
  <2>5. HeardSettled'
      BY <1>t, <2>1, <2>2, <2>3, <2>4
      DEF GhostInv, HeardSettled, Settled, TypeOK, Entitled, Connected
  <2>6. QueuedSettled'
      BY <2>1, <2>2, <2>3, <2>4
      DEF GhostInv, QueuedSettled, Settled, Msg, Entitled, Connected
  <2>7. OneWay'
      BY <1>t, <2>1, <2>2 DEF GhostInv, OneWay, Msg, TypeOK
  <2>8. QED
      BY <2>5, <2>6, <2>7 DEF GhostInv
<1>3. ASSUME NEW c \in Conns, NEW d \in Conns, Send(c, d) \/ TellLeft(c, d)
      PROVE  GhostInv'
    BY <1>3, GhostSend, GhostTellLeft
<1>4. ASSUME NEW c \in Conns, Leave(c) \/ DispatchClose(c)
      PROVE  GhostInv'
    BY <1>4, <1>t, GhostRemovePeer DEF Leave, DispatchClose, Tasks
<1>5. ASSUME NEW d \in Conns, DispatchMessage(d)
      PROVE  GhostInv'
    BY <1>5, GhostDispatch
<1>6. ASSUME NEW c \in Conns, ListRemaining(c)
      PROVE  GhostInv'
    BY <1>6, GhostListRemaining
<1>7. ASSUME NEW c \in Conns, RemoveRow(c) \/ ReadHost(c) \/ RemoveHost(c)
      PROVE  GhostInv'
    BY <1>7, GhostKeys
    DEF RemoveRow, ReadHost, RemoveHost, clientVars, ghostVars
<1>8. CASE ListPeers
    BY <1>8, GhostKeys DEF ListPeers, clientVars, ghostVars
<1>9. ASSUME NEW d \in Conns, PublishClose(d)
      PROVE  GhostInv'
  <2>1. CASE pc[d] # "serving"
      BY <1>9, <2>1, GhostKeys
      DEF PublishClose, Publish, ghostVars
  <2>2. CASE pc[d] = "serving"
    <3>1. /\ UNCHANGED <<worker, pc, heard, owed, lease, evicted>>
          /\ inbox' = [inbox EXCEPT ![d] = Append(@, CloseEnvelope)]
        BY <1>9, <2>2 DEF PublishClose, Publish, ghostVars
    <3>2. CloseEnvelope \in Envelope
        BY DEF Envelope
    <3>3. /\ \A e \in Conns : \A i \in 1 .. Len(inbox[e]) :
                 i \in 1 .. Len(inbox'[e]) /\ inbox'[e][i] = inbox[e][i]
          /\ \A e \in Conns : \A i \in 1 .. Len(inbox'[e]) :
                 \/ i \in 1 .. Len(inbox[e])
                 \/ /\ e = d /\ i = Len(inbox[d]) + 1
                    /\ inbox'[e][i] = CloseEnvelope
          /\ \A a, e \in Conns, k \in Nat : WillHear(a, e, k) => WillHear(a, e, k)'
        BY <1>t, <3>1, <3>2, PublishKeeps
    <3>4. \A a \in Conns : Msg(a)' = Msg(a) /\ Msg(a) # CloseEnvelope
        BY DEF Msg, CloseEnvelope
    <3>5. \A e \in Conns : \A a \in Conns : \A i \in 1 .. Len(inbox'[e]) :
              inbox'[e][i] = Msg(a)
                 => i \in 1 .. Len(inbox[e]) /\ inbox[e][i] = Msg(a)
        BY <3>3, <3>4
    <3>6. Connected' = Connected /\ Entitled' = Entitled
        BY <3>1 DEF Connected, Entitled
    <3>7. \A a, e : Known(a, e)' <=> Known(a, e)
        BY <3>1, <3>6 DEF Known
    <3>8. HeardSettled'
        BY <1>t, <3>1, <3>3, <3>6, <3>7
        DEF GhostInv, HeardSettled, Settled, TypeOK, Entitled, Connected
    <3>9. QueuedSettled'
      <4> SUFFICES ASSUME NEW e \in Entitled', NEW a \in Conns,
                          NEW i \in 1 .. Len(inbox'[e]), inbox'[e][i] = Msg(a)
                   PROVE  Settled(a, e, i)'
          BY <3>4 DEF QueuedSettled
      <4>1. e \in Entitled /\ e \in Conns /\ i \in Nat
          BY <3>6 DEF Entitled, Connected
      <4>2. Settled(a, e, i)
          BY <3>5, <4>1 DEF GhostInv, QueuedSettled
      <4>3. QED
          BY <3>3, <3>7, <4>1, <4>2 DEF Settled
    <3>10. OneWay'
      <4>1. \A e \in Conns : \A a \in heard'[e] :
                e \in Connected' /\ (worker'[a] # worker'[e] => pc'[e] = "serving")
          BY <3>1, <3>6 DEF GhostInv, OneWay
      <4>2. \A e, a \in Conns : \A i \in 1 .. Len(inbox'[e]) :
                inbox'[e][i] = Msg(a) => worker'[a] # worker'[e]
          BY <3>1, <3>5 DEF GhostInv, OneWay
      <4>3. QED
          BY <3>4, <4>1, <4>2 DEF OneWay
    <3>11. QED
        BY <3>8, <3>9, <3>10 DEF GhostInv
  <2>3. QED
      BY <2>1, <2>2
<1>10. CASE DeleteRoom
    BY <1>10, GhostKeys DEF DeleteRoom, clientVars
<1>11. CASE Tick
  <2>1. \A d \in Conns : lease'[d] > 0 => lease[d] > 0
      BY <1>11, <1>t DEF Tick, Countdown, TypeOK
  <2>2. QED
      BY <1>11, <2>1, GhostKeys DEF Tick, clientVars
<1>12. CASE UNCHANGED vars
    BY <1>12, GhostKeys DEF vars, clientVars, ghostVars
<1>13. QED
    BY <1>1, <1>2, <1>3, <1>4, <1>5, <1>6, <1>7, <1>8, <1>9, <1>10, <1>11,
       <1>12
    DEF Next, Handler, Subscriber, Removal, CloseRoom

(***************************************************************************)
(* No client believes in a ghost: broadcast_peer_left reaches everyone who *)
(* heard from the peer that left, over either path and in order, although  *)
(* the list of peers it reads is changed by other workers meanwhile.       *)
(***************************************************************************)
THEOREM NoGhosts == Spec => []NoGhostPeers
<1>1. KeysInv /\ GhostInv => NoGhostPeers
  <2> SUFFICES ASSUME KeysInv, GhostInv,
                      NEW d \in Connected \ evicted, NEW c \in heard[d], lease[d] > 0
               PROVE  \/ c \in Connected
                      \/ pc[c] = "leaving"
                      \/ d \in owed[c]
                      \/ \E i \in DOMAIN inbox[d] : inbox[d][i] = Left(c)
      BY DEF NoGhostPeers
  <2>1. Known(c, d) \/ WillHear(c, d, 0)
      BY DEF GhostInv, HeardSettled, Entitled, Settled
  <2>2. DOMAIN inbox[d] = 1 .. Len(inbox[d])
      BY DEF KeysInv, TypeOK, Connected
  <2>3. QED
      BY <2>1, <2>2 DEF Known, WillHear
<1>2. QED
    BY <1>1, KeysInit, KeysStep, GhostInit, GhostStep, PTL DEF Spec
=============================================================================
