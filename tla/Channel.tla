------------------------------ MODULE Channel ------------------------------
(***************************************************************************)
(* The life of one download-limited channel after its creation: the Redis  *)
(* keys ChannelRepository keeps for it (queries.py), the request handlers  *)
(* over them (actions.py) and its row in file_share_sessions, which they   *)
(* and the expiry job write (pg_repository.py, workers.py).                *)
(*                                                                         *)
(* Each Redis command, pipeline or script is atomic, and so is what a      *)
(* handler does to the row in its transaction; anything may run between    *)
(* two of them.  A handler that is never scheduled again has crashed.      *)
(* Handlers that only read, or end on an early return, change nothing.     *)
(***************************************************************************)
EXTENDS Naturals, FiniteSets

CONSTANTS
    Requests,         \* requests for this channel, with valid credentials
    MaxDownloads,     \* max_downloads; unlimited channels (0) are left out
    ChannelTTL,       \* TTL at creation: FILE_SHARING_(PAID_)CHANNEL_TTL
    RenewTTL,         \* TTL a renewal sets: FILE_SHARING_CHANNEL_TTL
    CounterFloor,     \* least TTL of a new download counter: 3600 s
    PendingTTL,       \* pending_ttl of create_channel: 120 s
    DestructionDelay  \* CHANNEL_DESTRUCTION_DELAY: 30 s

(***************************************************************************)
(* The settings default RenewTTL to 3600, the constant in                  *)
(* record_download_complete: a counter starts with at least a renewal.     *)
(***************************************************************************)
ASSUME ChannelAssumption ==
    /\ IsFiniteSet(Requests)
    /\ MaxDownloads \in Nat \ {0}
    /\ ChannelTTL \in Nat \ {0}
    /\ RenewTTL \in Nat \ {0}
    /\ CounterFloor \in Nat
    /\ RenewTTL <= CounterFloor
    /\ PendingTTL \in Nat
    /\ DestructionDelay \in Nat \ {0}

VARIABLES
    ttl,        \* ttl[k]: time the Redis key k has left; 0 when it is absent
    count,      \* value of the download_count key
    status,     \* FileShareSession.status
    downloads,  \* FileShareSession.download_count
    expiresIn,  \* time until FileShareSession.expires_at
    pc,         \* where each request's handler is
    seen,       \* seen[r]: what r's handler last read of a TTL
    claimed,    \* (history) download slots claimed so far
    asked       \* (history) requests the pending destruction comes from

redisVars == <<ttl, count>>
rowVars == <<status, downloads, expiresIn>>
vars == <<ttl, count, status, downloads, expiresIn, pc, seen, claimed, asked>>

Keys == {"channel", "pending_token", "reader_token", "download_count",
         "pending_destruction"}

\* create_channel's pipeline and PG row, committed before it answers.
Init ==
    /\ ttl = [k \in Keys |-> CASE k = "channel" -> ChannelTTL
                               [] k = "pending_token" -> PendingTTL
                               [] OTHER -> 0]
    /\ count = 0
    /\ status = "created"
    /\ downloads = 0
    /\ expiresIn = ChannelTTL
    /\ pc = [r \in Requests |-> "start"]
    /\ seen = [r \in Requests |-> 0]
    /\ claimed = 0
    /\ asked = {}

----------------------------------------------------------------------------
(* Redis and the handlers' control                                         *)

Exists(k) == ttl[k] > 0

Max2(a, b) == IF a >= b THEN a ELSE b

Step(r, from, to) ==
    /\ pc[r] = from
    /\ pc' = [pc EXCEPT ![r] = to]

\* DEL of every key that dies with the channel.
DeleteAll ==
    /\ ttl' = [k \in Keys |-> 0]
    /\ count' = 0
    /\ asked' = {}

----------------------------------------------------------------------------
(* set_reader_token                                                        *)

ReadTtlForToken(r) ==
    /\ Exists("channel")
    /\ Step(r, "start", "tokenWrite")
    /\ seen' = [seen EXCEPT ![r] = ttl["channel"]]
    /\ UNCHANGED <<redisVars, rowVars, claimed, asked>>

WriteToken(r) ==
    /\ Step(r, "tokenWrite", "done")
    /\ ttl' = [ttl EXCEPT !["reader_token"] = seen[r], !["pending_token"] = 0]
    /\ seen' = [seen EXCEPT ![r] = 0]
    /\ UNCHANGED <<count, rowVars, claimed, asked>>

----------------------------------------------------------------------------
(* renew_channel                                                           *)

\* The reader token is looked up before the pipeline that renews the keys.
ReadForRenewal(r) ==
    /\ Exists("channel")
    /\ Step(r, "start", "renewWrite")
    /\ seen' = [seen EXCEPT ![r] = IF Exists("reader_token") THEN 1 ELSE 0]
    /\ UNCHANGED <<redisVars, rowVars, claimed, asked>>

RenewedKeys(r) ==
    {"channel", "download_count"} \cup
        {k \in {"reader_token"} : seen[r] = 1}

\* (Fault) sets the channel again, whether it is still there or not.
RenewKeys_Set(r) ==
    ttl' = [k \in Keys |->
              IF k = "channel" \/ (k \in RenewedKeys(r) /\ Exists(k))
              THEN RenewTTL
              ELSE IF k = "pending_destruction" THEN 0 ELSE ttl[k]]

\* The pipeline also cancels a pending destruction.
RenewKeys(r) ==
    ttl' = [k \in Keys |->
              IF k \in RenewedKeys(r) /\ Exists(k) THEN RenewTTL
              ELSE IF k = "pending_destruction" THEN 0 ELSE ttl[k]]

WriteRenewal(r) ==
    /\ Step(r, "renewWrite", "renewRecord")
    /\ RenewKeys(r)
    /\ asked' = {}
    /\ seen' = [seen EXCEPT ![r] = 0]
    /\ UNCHANGED <<count, rowVars, claimed>>

\* (Fault) the row keeps the expiry it was created with.
RecordRenewal_Forgotten(r) ==
    /\ Step(r, "renewRecord", "done")
    /\ UNCHANGED <<redisVars, rowVars, seen, claimed, asked>>

RecordRenewal(r) ==
    /\ Step(r, "renewRecord", "done")
    /\ expiresIn' = RenewTTL
    /\ UNCHANGED <<redisVars, status, downloads, seen, claimed, asked>>

----------------------------------------------------------------------------
(* request_channel_destruction                                             *)

\* The first request only marks the channel.
MarkForDestruction(r) ==
    /\ Exists("channel")
    /\ ~Exists("pending_destruction")
    /\ Step(r, "start", "done")
    /\ ttl' = [ttl EXCEPT !["pending_destruction"] = DestructionDelay]
    /\ asked' = {r}
    /\ UNCHANGED <<count, rowVars, seen, claimed>>

\* A further one finds the mark and goes on to the second script.
FindMark(r) ==
    /\ Exists("channel")
    /\ Exists("pending_destruction")
    /\ Step(r, "start", "destroy")
    /\ UNCHANGED <<redisVars, rowVars, seen, claimed, asked>>

\* (Fault) trusts the mark found by the first script.
Confirmed_Stale == Exists("channel")

\* The second script looks again for both keys.
Confirmed == Exists("channel") /\ Exists("pending_destruction")

Destroy(r) ==
    /\ Confirmed
    /\ Step(r, "destroy", "destroyRecord")
    /\ DeleteAll
    /\ UNCHANGED <<rowVars, seen, claimed>>

RefuseDestroy(r) ==
    /\ ~Confirmed
    /\ Step(r, "destroy", "done")
    /\ UNCHANGED <<redisVars, rowVars, seen, claimed, asked>>

RecordDestroyed(r) ==
    /\ Step(r, "destroyRecord", "done")
    /\ status' = "destroyed"
    /\ UNCHANGED <<redisVars, downloads, expiresIn, seen, claimed, asked>>

----------------------------------------------------------------------------
(* record_download_complete                                                *)

\* What a downloader or reporter with a valid reader token needs.
Readable ==
    Exists("channel") /\ ~Exists("pending_token") /\ Exists("reader_token")

\* The checks, up to the TTL read that sizes the counter's own.
CheckDownload(r) ==
    /\ Readable
    /\ Step(r, "start", "claim")
    /\ seen' = [seen EXCEPT ![r] = ttl["channel"]]
    /\ UNCHANGED <<redisVars, rowVars, claimed, asked>>

\* (Fault) a new counter lives as long as the TTL that was read.
CounterTTL_NoFloor(r) == seen[r]

\* counter_ttl
CounterTTL(r) == Max2(seen[r], CounterFloor)

\* (Fault) compares before it counts the slot in question.
SlotAvailable_OffByOne == count <= MaxDownloads

SlotAvailable == count < MaxDownloads

\* ATOMIC_DOWNLOAD_INCR_LUA: only a new counter gets a TTL.
ClaimSlot(r) ==
    /\ SlotAvailable
    /\ Step(r, "claim", "downloadRecord")
    /\ count' = count + 1
    /\ ttl' = [ttl EXCEPT !["download_count"] =
                 IF count = 0 THEN CounterTTL(r) ELSE @]
    /\ claimed' = claimed + 1
    /\ seen' = [seen EXCEPT ![r] = 0]
    /\ UNCHANGED <<rowVars, asked>>

RefuseSlot(r) ==
    /\ ~SlotAvailable
    /\ Step(r, "claim", "done")
    /\ seen' = [seen EXCEPT ![r] = 0]
    /\ UNCHANGED <<redisVars, rowVars, claimed, asked>>

\* (Fault) a late handler writes the slot number it was given long before.
NewCount_Slot == count

\* increment_download_count: one UPDATE relative to the row.
NewCount == downloads + 1

\* _pg_record_download
RecordDownload(r) ==
    /\ Step(r, "downloadRecord", "done")
    /\ downloads' = NewCount
    /\ status' = IF NewCount >= MaxDownloads THEN "completed"
                 ELSE IF status = "created" THEN "active"
                 ELSE status
    /\ UNCHANGED <<redisVars, expiresIn, seen, claimed, asked>>

----------------------------------------------------------------------------
(* report_channel                                                          *)

CheckReport(r) ==
    /\ Readable
    /\ Step(r, "start", "report")
    /\ UNCHANGED <<redisVars, rowVars, seen, claimed, asked>>

\* delete_channel, when the signaling room has been closed.
ReportDelete(r) ==
    /\ Step(r, "report", "reportRecord")
    /\ DeleteAll
    /\ UNCHANGED <<rowVars, seen, claimed>>

RecordReport(r) ==
    /\ Step(r, "reportRecord", "done")
    /\ status' = "reported"
    /\ UNCHANGED <<redisVars, downloads, expiresIn, seen, claimed, asked>>

----------------------------------------------------------------------------
(* Failure, the expiry job and time                                        *)

\* _pg_dual_write: the database refuses, and the row stays as it was.
RecordFails(r) ==
    /\ \/ Step(r, "downloadRecord", "downloadLost")
       \/ Step(r, "renewRecord", "renewLost")
       \/ Step(r, "destroyRecord", "done")
       \/ Step(r, "reportRecord", "done")
    /\ UNCHANGED <<redisVars, rowVars, seen, claimed, asked>>

\* (Fault) takes any session whose time is over.
Expirable_Any == status # "expired"

Expirable == status \in {"created", "active"}

\* expire_active_sessions
ExpireSession ==
    /\ expiresIn = 0
    /\ Expirable
    /\ status' = "expired"
    /\ UNCHANGED <<redisVars, downloads, expiresIn, pc, seen, claimed, asked>>

Tick ==
    /\ ttl' = [k \in Keys |-> IF Exists(k) THEN ttl[k] - 1 ELSE 0]
    /\ count' = IF ttl["download_count"] = 1 THEN 0 ELSE count
    /\ asked' = IF ttl["pending_destruction"] = 1 THEN {} ELSE asked
    /\ expiresIn' = IF expiresIn > 0 THEN expiresIn - 1 ELSE 0
    /\ UNCHANGED <<status, downloads, pc, seen, claimed>>

----------------------------------------------------------------------------

Handler(r) ==
    \/ ReadTtlForToken(r) \/ WriteToken(r)
    \/ ReadForRenewal(r) \/ WriteRenewal(r) \/ RecordRenewal(r)
    \/ MarkForDestruction(r) \/ FindMark(r) \/ Destroy(r) \/ RefuseDestroy(r)
    \/ RecordDestroyed(r)
    \/ CheckDownload(r) \/ ClaimSlot(r) \/ RefuseSlot(r) \/ RecordDownload(r)
    \/ CheckReport(r) \/ ReportDelete(r) \/ RecordReport(r)
    \/ RecordFails(r)

Next ==
    \/ \E r \in Requests : Handler(r)
    \/ ExpireSession
    \/ Tick

Spec == Init /\ [][Next]_vars

----------------------------------------------------------------------------
(* Properties                                                              *)

\* State of the right shape, the counter never over the limit.
TypeOK ==
    /\ ttl \in [Keys -> Nat]
    /\ count \in 0 .. MaxDownloads
    /\ status \in {"created", "active", "completed", "expired", "destroyed",
                   "reported"}
    /\ downloads \in Nat
    /\ expiresIn \in Nat
    /\ pc \in [Requests ->
         {"start", "tokenWrite", "renewWrite", "renewRecord", "destroy",
          "destroyRecord", "claim", "downloadRecord", "report",
          "reportRecord", "downloadLost", "renewLost", "done"}]
    /\ seen \in [Requests -> Nat]
    /\ claimed \in Nat
    /\ asked \in SUBSET Requests

(***************************************************************************)
(* While the channel lives its counter knows every slot ever claimed, so   *)
(* the limit holds: the counter never expires before the channel, though   *)
(* its TTL comes from a stale read and renewals pass it by until it exists *)
(* (record_download_complete, renew_channel).                              *)
(***************************************************************************)
LimitHolds ==
    Exists("channel") => count = claimed /\ claimed <= MaxDownloads

(***************************************************************************)
(* A channel is destroyed only when another request, made since the last   *)
(* renewal and within the delay, has marked it (the two scripts of         *)
(* request_channel_destruction).                                           *)
(***************************************************************************)
TwoRequestsDestroy ==
    [][\A r \in Requests :
         pc[r] = "destroy" /\ pc'[r] = "destroyRecord" => asked \ {r} # {}]_vars

(***************************************************************************)
(* Handlers in flight never bring back a channel that was destroyed,       *)
(* reported or expired under them (EXPIRE, not SETEX, in renew_channel).   *)
(***************************************************************************)
GoneStaysGone == [][~Exists("channel") => ~Exists("channel")']_vars

(***************************************************************************)
(* The row counts each claimed slot exactly once, in whatever order the    *)
(* handlers reach the database; only a failed write loses one              *)
(* (_pg_record_download).                                                  *)
(***************************************************************************)
EverySlotRecorded ==
    claimed = downloads +
        Cardinality({r \in Requests : pc[r] \in {"downloadRecord",
                                                 "downloadLost"}})

(***************************************************************************)
(* A session whose downloads are used up never shows as open or expired:   *)
(* neither the expiry job nor a late handler moves it back.                *)
(***************************************************************************)
FullIsClosed ==
    downloads >= MaxDownloads => status \in {"completed", "destroyed",
                                             "reported"}

(***************************************************************************)
(* The expiry job gives up only sessions whose channel is gone, unless a   *)
(* renewal has not reached the row (its write pending or failed).          *)
(***************************************************************************)
ExpiredIsGone ==
    [][status # "expired" /\ status' = "expired" =>
         \/ ~Exists("channel")
         \/ \E r \in Requests : pc[r] \in {"renewRecord", "renewLost"}]_vars

(***************************************************************************)
(* queries.py:511 tells the owner of a marked channel that it "will be     *)
(* destroyed in 30 seconds unless cancelled by the owner".                 *)
(***************************************************************************)
UncancelledMarkDestroys ==
    [][Exists("pending_destruction") /\ ~Exists("pending_destruction")'
         /\ UNCHANGED pc => ~Exists("channel")']_vars

(***************************************************************************)
(* api.py:1069: a renewal "extends the channel's expiration time".         *)
(***************************************************************************)
RenewalExtends ==
    [][\A r \in Requests :
         pc[r] = "renewWrite" /\ pc'[r] = "renewRecord" =>
             ttl["channel"] <= ttl'["channel"]]_vars
============================================================================
