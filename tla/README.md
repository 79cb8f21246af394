# Rapidly in TLA+

Models, model checks and machine-checked proofs of the parts of Rapidly where
concurrency decides whether the product works: the peer-to-peer file-sharing
service of the server (`src/server/rapidly/sharing/file_sharing/`) with its
payments, the two browsers that transfer a file, and the outgoing webhooks with
the jobs that deliver them. The inventory below covers the whole repository and
says what is modelled and what is left out.

Contents: [1 Inventory](#1-inventory) · [2 Modules](#2-modules) ·
[3 Signaling](#3-signaling-in-memory-backend) ·
[4 RedisRooms](#4-redisrooms-redis-backend) ·
[5 Channel](#5-channel-life-of-a-channel) ·
[6 Payments](#6-payments-tokens-and-one-time-secrets) ·
[7 Transfer](#7-transfer-uploader-and-downloader) ·
[8 Webhooks](#8-webhooks-events-and-jobs) · [9 Runs](#9-runs-and-bounds) ·
[10 Fairness](#10-fairness) · [11 Proofs](#11-proofs) ·
[12 Findings and observations](#12-findings-and-observations) ·
[13 Not modelled](#13-what-is-not-modelled)

Paths below are relative to the repository's root, which is `src/` in
`PROJECT.json`; *FS* stands for `server/rapidly/sharing/file_sharing`.

## 1 Inventory

Rapidly is a file-sharing platform. A Python server (FastAPI, PostgreSQL, Redis,
Dramatiq workers) brokers WebRTC connections between browsers, sells access to
shares through Stripe, and runs a back office; a TypeScript web client moves
the files.

### Components with behaviour of their own

| component | state | operations | interacts with |
|---|---|---|---|
| Signaling server, in-memory backend (`FS/signaling.py`) | rooms by slug, each with peers, host index, relay byte count, age; one coroutine per WebSocket | authenticate, register, relay signaling and binary frames, unregister, announce departures, sweep stale rooms, close a room | channel keys (validators), report endpoint |
| Signaling server, Redis backend (`FS/signaling_redis_transport.py`) | per room a peers hash and a host string with TTLs; per worker a socket table, subscriptions, removal tasks | the same protocol, each operation several Redis commands, pub/sub between workers | Lua scripts, other workers |
| Channel lifecycle (`FS/queries.py`, `FS/actions.py`, `redis_scripts.py`, `FS/pg_repository.py`, `FS/workers.py`) | five Redis keys with TTLs, one row of `file_share_sessions` | create, reader token, renew, two-phase destroy, record a download, report, expire | every public endpoint, expiry job, signaling |
| Checkout and payment tokens | token set and checkout token in Redis, payment row | create a Stripe checkout, webhook, claim a token once, spend it | Stripe, jobs, channel |
| One-time secrets and files | one key per secret | store, peek, consume once | checkout |
| Share counters | live counters, one-time seed marker, cached total | increment, seed from PostgreSQL, read | channel creation |
| Background jobs (`worker/`) | queue of a request, Redis queue, message hashes | collect, flush when the request ends, run, retry | all |
| Job debouncing | owner and executed flags of a key | claim, check, mark | jobs |
| Outgoing webhooks (`messaging/webhook/`) | events, deliveries, endpoint's enabled flag | enqueue, deliver, retry, order, redeliver, disable on a failure streak, archive | jobs |
| External events | event row, `handled_at` | insert once, enqueue, handle under lock | Stripe, jobs |
| Web client: peer connection (`clients/apps/web/src/utils/p2p`) | queue of candidates, fragment sets, data channel buffer | negotiate, send, fragment, reassemble, close | signaling, uploader, downloader |
| Web client: uploader and downloader | transfers, chunks acknowledged, resume store | request, stream, acknowledge, resume, complete | peer connection, channel |

### Components without hard behaviour

Login, OAuth2 (Authlib), memberships, billing accounts, catalog, customers,
workspaces, projects, analytics, notifications, the back office, observability
and the clients of outside services are CRUD or a single outgoing call inside
one database transaction. The web pages, the mobile app, the UI packages, the
generated API client, migrations and infrastructure hold no protocol.
`PROJECT.json` lists each with its reason.

### What is hard, and what makes a component correct

| component | hard behaviour | correct when |
|---|---|---|
| in-memory signaling | handlers suspend between check and use; a room can be closed, swept or replaced under a handler; departures are announced one await at a time | the host index is exact; no member is leaked or dropped; every departure becomes known; a report reaches every member; caps hold; whoever joined eventually leaves |
| Redis signaling | an operation is several commands; workers crash, removals stop half-way, keys expire separately; envelopes for a peer not yet subscribed are lost | the host string names nobody unaccounted for; a fresh registration is findable; no client believes in a ghost; a close reaches everyone |
| channel | TTLs read before a concurrent renewal; scripts run on marks found earlier; Redis first and the database later, perhaps not at all | the download limit survives renewals; destruction is confirmed; nothing revives a dead channel; the row counts each slot once and its status never moves back |
| checkout, secrets | overlapping checkouts that share a Stripe session, failures between Stripe, Redis and PostgreSQL, two readers | a session that was offered can be claimed, a claimed token opens its item, a secret has one reader |
| counters | seed marker before the baseline, cache filled from stale reads | the total counts each share once |
| jobs, debounce, webhooks | work lost between commit and flush, at-least-once execution, retries that roll back, order across retries | nothing committed is forgotten, deliveries keep order, an endpoint is disabled only on a real streak |
| uploader and downloader | pauses and resumes that leave two chunk loops running, chunks decrypted while the user pauses or stops, connections that drop in mid-file | a stream holds its file's chunks in order and once, Done is counted of a whole download, a started download settles |
| peer connection | candidates before the description, interleaved fragments, back-pressure | messages arrive whole, once, in order |

`PROJECT.json` lists every hazard at its line, with the properties that would
catch it, or the reason no property does yet.

## 2 Modules

| module | what it is |
|---|---|
| `RoomTransport` | abstract specification: what the protocol of `FS/signaling_transport.py` promises, every operation atomic |
| `Signaling` | the in-memory server: `SignalingManager`, the coroutine `handle_signaling`, and the report endpoint's part in it |
| `SignalingProofs` | its invariants, proved |
| `SignalingRefinement` | proof that `Signaling` implements `RoomTransport` |
| `RedisRooms` | one room of the Redis backend across workers, command by command |
| `RedisRoomsProofs` | its invariants, proved |
| `Channel` | one download-limited channel: Redis keys, handlers, row, expiry job |
| `ChannelProofs` | its invariants and action properties, proved |
| `Payments` | checkout, claim and use of payment tokens for channels and secrets, one-time reading |
| `PaymentsProofs` | its invariants, proved |
| `Transfer` | one file transfer between an uploading and a downloading browser |
| `TransferProofs` | its invariants, proved |
| `Webhooks` | the events of a webhook endpoint, and the jobs that deliver them |
| `WebhooksProofs` | its invariants and its action property, proved |
| `MCSignaling`, `MCRedisRooms`, `MCChannel`, `MCPayments`, `MCTransfer`, `MCWebhooks` | symmetry and instances for TLC |

`Signaling` instantiates `RoomTransport`; the channel appears in `Signaling` as
the one fact it depends on (its Redis record is live or gone), and the room
appears in `Channel` as a step that precedes `ReportDelete`; a channel appears in
`Payments` as a key that is there, is renewed, or is gone, and the data channel
of `Transfer` is what the peer connection promises: ordered and reliable until
it closes. Definitions whose name ends in a fault (`RoomFull_OffByOne`) are plausible bugs; no behaviour
uses them, and each shows that a property notices the bug when it is put in
place of the real definition.

## 3 Signaling (in-memory backend)

One asyncio event loop runs all handlers, so a step is the code between two
awaits that really suspend. `handle_signaling` becomes the program counter
`pc[c]`:

| code | model |
|---|---|
| waiting for the auth frame and the validators' Redis reads | `pc = "auth"`; `Authenticate` needs a live channel, `Reject` is every refusal or timeout |
| between the validators and `register_peer` | `"authed"`; `Admit`, or `Refuse` (server full, host taken, room full) |
| `get_or_create_room` with its throttled sweep | `StaleRooms`, `KeptRooms`, `RoomAvailable`, inside `Admit` and `Refuse` |
| the relay loop | `"serving"`; `Signal`, `ConnectRequest`, `RelayChunk` |
| the `finally` block | `Leave` (up to the first send), then one `NotifyLeft` per await |
| `Room` objects | `by[s]` is the connection whose registration created the object; `held[c]` is the reference a handler keeps, so a room re-created under the same slug is another object |
| `Room.peers`, `Room.host_id`, `Room.relay_bytes` | `peers[s]`, `host[s]`, `relayed[r]` |
| age and sweep throttle | `idle[s]`, `sweepDue`, set by time passing (`RoomAges`, `SweepBecomesDue`) |
| `report_channel`: `close_room`, its sockets, `delete_channel` | `ReportCloseRoom`, `ReportCloseSocket`, `ReportDelete` |

`heard[c]` records what `c`'s client knows: peers whose messages reached it and
whose departure it has not been told. It turns "peer-left reaches whoever
needs it" into an invariant. A frame the client sent before it disconnected is
still processed, so a handler may act after its socket is closed.

Abstracted: the kinds of signaling messages (they differ in payload only), the
throttles over time windows (they end the loop, which `Leave` may do at any
time), the bodies of the validators (credentials are valid or the connection is
rejected). A send to a slow peer is taken to finish or fail.

## 4 RedisRooms (Redis backend)

One room, whose peers' handlers run on any worker. A step is one Redis command
or script with what the worker does from its reply to the next await:

| code | model |
|---|---|
| `ATOMIC_REGISTER_PEER_LUA`, then the local socket table | `Register` (HOST_TAKEN and ROOM_FULL end the handler) |
| `SUBSCRIBE` | `Subscribe`; envelopes published before it are lost |
| `send_to_peer`: local socket or `PUBLISH` | `Send`, `Deliver`, `Publish` |
| `_run_subscriber`, `_dispatch_pubsub_message` | `DispatchMessage`, `DispatchClose` on `inbox[d]` |
| `remove_peer`: local part, and the task it schedules | `Leave`/`RemovePeer`; the task is `removal[c]`: HDEL, GET, DELETE (`RemoveRow`, `ReadHost`, `RemoveHost`) |
| `broadcast_peer_left`: HKEYS, then one delivery per peer | `ListRemaining`, `TellLeft`, beside the removal task |
| `close_room`: HKEYS, publishes, DELETE of both keys | `ListPeers`, `PublishClose`, `DeleteRoom` |
| EXPIRE and key expiry | `peersTTL`, `hostTTL`, `Tick` |

No process is obliged to take its next step. A crashed worker, a removal task
ended by a `RedisError`, a failed subscription and a refused handler are all
processes that never step again, so every invariant holds across them.

Choices: a subscribed worker's pub/sub connection does not break and no PUBLISH
of a broadcast fails (the code logs either and goes on, and a departure is
lost); HEXISTS and PUBLISH of one message are one step, since in between
only the loss of that message can happen; UNSUBSCRIBE is left out, since an
envelope without a local socket is dropped anyway; a connection's lifetime is
not bounded, which only adds behaviours. Relay byte counters are per worker and
belong to the in-memory model. `RedisRoomTransport` does not yet offer
`check_single_worker` and `multi_worker_detected`, which `handle_signaling`
calls on the manager; the model assumes a caller that skips them.

`lease[c]` and `evicted` are history variables: how much of one room TTL is
left since `c` registered, and which running handlers `close_room` took the row
of. The properties promise something only to registrations within the TTL,
because that is all EXPIRE gives: a room with no registration for a whole TTL
disappears under its connected peers.

## 5 Channel (life of a channel)

State: the TTL of each of the five keys, the counter's value, three columns of
the row, and per request the program counter and the TTL it last read. Time is
discrete: `Tick` ages every key and `expires_at` together.

| code | model |
|---|---|
| `create_channel` | `Init` |
| `set_reader_token` | `ReadTtlForToken`, `WriteToken` |
| `renew_channel` (repository, then row) | `ReadForRenewal`, `WriteRenewal`, `RecordRenewal` |
| `request_channel_destruction`, two scripts | `MarkForDestruction`; `FindMark`, then `Destroy` or `RefuseDestroy`; `RecordDestroyed` |
| `record_download_complete`, `_pg_record_download` | `CheckDownload`, `ClaimSlot` or `RefuseSlot`, `RecordDownload` |
| `report_channel` | `CheckReport`, `ReportDelete`, `RecordReport` |
| `_pg_dual_write` swallowing an error | `RecordFails` |
| `expire_active_sessions` | `ExpireSession` |

A command, pipeline or script is atomic, and so is a transaction on the row.
The reads of a handler are merged into the last one when only that one matters.
Requests that only read or end early change nothing and are left out. A request
that never steps again has crashed.


## 6 Payments (tokens and one-time secrets)

A buyer checks out an item (a paid channel or a paid secret), pays at Stripe,
exchanges the checkout session for a token, which becomes a cookie, and opens
the item with it. A buyer is the fingerprint of an address, with one browser.

| code | model |
|---|---|
| `create_checkout`, `create_secret_checkout` | `BeginCheckout` (checks, new token, TTL read), `StoreToken`, `CallStripe`, `StoreMapping`, and for channels `RecordPayment`; a checkout is a record in `checkouts` with its place `at` |
| the idempotency key of the Stripe call | `Session(c)`: item and buyer |
| the unique index on the checkout session in `file_share_payments` | the guard of `RecordPayment` |
| an exception or a death of the process at any of these points | `FailCheckout`, which takes nothing back |
| `claim_checkout_payment_token`, `claim_secret_checkout_payment_token` | `BeginClaim` (checks), then GETDEL of the mapping: `Claim`, or `ClaimInVain` when nothing is left or the answer is lost |
| cookies `rapidly_pt`, `rapidly_spt` | `cookies[b]`: one per browser for channels and one for secrets, replaced by the next claim |
| `fetch_secret_or_file` | `BeginFetch`, `Validate`, `Fetch` (GETDEL) |
| TTLs | `Expire`, `MappingExpires`, `RenewChannel`; `TokensLapse` when a renewed channel outlives its token set, which the renewal does not touch |

A claim asks Stripe whether a channel's session is paid, goes on if Stripe fails
to answer, and does not ask for a secret's, so payment is not a precondition of a
claim in the model. `spent` and `lapsed` are history: sessions whose mapping was
taken or expired, tokens whose set the channel outlived.

## 7 Transfer (uploader and downloader)

The hooks `useUploaderConnections.ts` (one connection) and `useDownloader.ts` on
the two ends of one data channel. A step is the code between two awaits.

| code | model |
|---|---|
| messages of the two ends | `toUploader`, `toDownloader`, sequences; `Fail` and closes cut them off |
| `connectionStatus`, `activeFileName`, `sendingPaused` of a connection | `status`, `sendingFile`, `sendingPaused` |
| the uploader's cases of a message's type | `HandleRequestInfo`, `HandlePassword` and `HandleVerdict` (after the await on the server), `HandleStart`, `HandlePause`, `HandleDone` |
| `sendInfoMessage` | `Composes` makes the connection Ready and counts an Info in `composing`; `SendInfo` sends it, after the key commitments and the encryption |
| `sendNextChunkAsync`, scheduled by every Start | an element of `loops`, in `BeginChunk`, `EncryptedChunk`, `SendChunk`, one per await; after a pause and a resume two loops may run |
| password attempts and finished downloads of the other connections | `attempts`, `others` |
| the downloader's cases of a message's type | `HandlePasswordRequired`, `HandleInfo` and `OpenInfo` (after the awaits on decryption and commitments; `opening` counts them), `HandleChunk`, `HandleError` |
| `chunkChain` and `processChunk` | `chain`; `CheckChunk` up to the decryption, `WriteChunk` after it, with `startNextFileOrFinish` |
| `startDownload`, pause, resume, stop buttons | `StartDownload`, `PauseDownload`, `ResumeDownload`, `StopDownload` and `StopCloses` |
| `downloadPromise` | `Settle` |
| a read error, a buffer that does not drain, the network, an idle timer | `ChunkFails`, `Fail`, seen later by `SeeClose`, `SeeDisconnect` |

Progress is counted in chunks, and the size check in bytes: chunks weigh
`FullChunk`, the last one of a file `LastChunk[f]`. The code allows the overhead
of encryption and 1024 bytes more than the declared size, so repeats of a small
last chunk pass the check; such a chunk weighs 0. Acknowledgements and pings only
move progress bars and idle timers; encryption and hashing are the awaits they
cause. Both ends have the right key: metadata that cannot be decrypted, or whose
commitments do not match, is left out.

## 8 Webhooks (events and jobs)

Events of one endpoint, numbered by `created_at`, from the request that inserts
the row to the delivery, and back to the endpoint's enabled flag.

| code | model |
|---|---|
| the request: insert, commit or roll back, flush of its jobs | `Send`, `CommitRequest`, `RollBackRequest`, `FlushRequest`; `LoseJob` when the process dies before the flush, or between its HSET and its RPUSH |
| `webhook_event.send` up to the POST, with every early return | `BeginSend`: skipped, archived, already succeeded, waiting for earlier events (`Blocked`), or off to the POST |
| the POST and what follows | `Answer` or `AnswerAndRetry` (Retry rolls the delivery back); `SaveAccepted`, `SaveRefused`, `SaveUnresolved`, one transaction; `FlushSend` |
| dramatiq's retries: the copy with one retry more is enqueued, and the original acknowledged in a later command | `Requeued` in `BeginSend`, `AnswerAndRetry` and `Break`; then the task is `acking` until `Ack` |
| dramatiq's redelivery | `Crash` gives a dead worker's job to another one, also between the copy and the acknowledgement; `Double` leaves a job with its worker and gives it to another one too (a lapsed heartbeat, or a delayed job moved back by a worker that dies) |
| `webhook_event.failed` | `BeginFailed` (`Notices` reads the streak), `Disable`; `BreakFailed` when preparing the mails raises, `DropFailed` when the retries are used up |
| the user and the nightly job | `UpdateEndpoint`, `Redeliver`, `Archive` |
| the minute `is_latest_event` looks back | `aged`, set in order by `Age` |

A worker writes only columns that differ from what it read (SQLAlchemy's unit of
work), so a task remembers `seen` and `unskips`. `Due` says that a job on its
last retry finds every earlier event more than a minute old: with
`WEBHOOK_MAX_RETRIES` of 10 and a back-off that starts at two seconds and
doubles, the pauses before it add up to far more than a minute. An event may have
several jobs; `nr` tells them apart. `tried`, `late`, `lost`, `unheard` and
`repeated` are history variables that the properties use: `lost` holds the
events with a job that went down before its flush or broke at its last retry,
`repeated` those that were redelivered or had two jobs at once. A job that
changes nothing is acknowledged at once, since a repeat of it changes nothing
either. `webhook_event.success` only checks its event and is left out.

## 9 Runs and bounds

| run | question | instance |
|---|---|---|
| `signaling_room` | are the room index, departures and reports right when three connections contend for a room of two? also the refinement of `RoomTransport` | 3 connections of any role, 1 slug, 1 relay frame; 330 thousand states |
| `signaling_liveness` | do caps and isolation hold while the sweep recycles rooms, is every admitted peer eventually gone and announced, and every started report completed? | 2 connections, 2 slugs, 1 room slot, no symmetry; 333 thousand states |
| `signaling_late_admission` | (violation) does a reported room stay empty? | 2 connections |
| `redis_rooms` | do the keys, departures and expiry of a Redis room stay consistent across workers? | 3 connections (2 hosts, 1 guest) on 2 workers in every placement, room of 2, TTL of 2 ticks, 1 message; 3.1 million states |
| `redis_close` | (violation) does a close reach every peer? | 2 connections, no message |
| `channel` | do the limit, the two-phase destruction and the row survive races, stale TTLs, failures and expiry? | 5 requests of any kind, 2 slots, TTLs 4 (created), 3 (renewed), 3 (counter floor), 2 (pending), 1 (destruction); 578 thousand states |
| `channel_destruction` | (violation) does an uncancelled mark destroy? | 2 requests, 1 slot |
| `channel_renewal` | (violation) does a renewal extend? | 2 requests, 1 slot |
| `payments` | are tokens honoured, offered sessions claimable and secrets read once when checkouts overlap and fail? | 1 channel, 1 paid and 1 free secret, 2 buyers, 2 checkouts, 1 renewal; 1.4 million states |
| `transfer` | do streams hold their files, is Done true, is a Start accepted, does a download settle? | files of 2 and 1 chunks, a password of 2 attempts, download limit 1, 1 pause; 745 thousand states |
| `transfer_truncated` | (violation) is a download that the page calls complete complete? | no password, no pause |
| `webhooks` | is nothing forgotten, is order kept, is a streak noticed, does success last, does every event settle? | 2 events, 2 workers, 1 retry, a streak of 2, 1 incident (a redelivery or switch by the user, a lost, broken, doubled or dropped job, or a dead worker); 879 thousand states |

Why these bounds are enough to meet the interesting cases. A room of two and
three connections has a refused peer, two hosts racing, and a member that stays
while another leaves and a third takes the place. One relay frame reaches the
cap. Two slugs and one room slot force the sweep to free a room for the other
channel. In Redis, two hosts race for the host string and one guest watches;
two ticks of TTL let one registration age while another restarts the clock; the
one message may travel locally or over pub/sub, before or after a departure.
For the channel, five requests are one more than any property needs to fail
(two downloads racing a renewal and a destruction), and the TTLs are ordered as
the real ones of a paid channel: 30 s, 120 s, 3600 s twice, 86400 s. For
payments, two checkouts are those of one buyer that share a session, or of two
that share a token set; a third (16 million states, checked once without the
free secret) showed nothing new. In a transfer the first file has a chunk after which the
download may be paused, with both loops alive, and the second shows the passage
to the next file; two guesses reach the lockout. The first file ends in a small
chunk, whose repeats the size check lets pass, and the second is one full chunk,
whose repeat it refuses. Two events are enough to wait
for each other, to be tried out of order and to make a streak; one retry is both
the first and the last. One incident is enough for each exception a property
makes; for any number of them there are the theorems. Deadlock is checked only where the clock can always tick
(Redis and channel); in the other runs all actors may have finished.

The proved invariants hold for every instance (section 11), so for them the
bounds only matter for showing, by the faults, that the properties can fail.
For the liveness properties and the violations, the runs are all there is.

## 10 Fairness

*Signaling.* Ready tasks run: weak fairness of `Admit`, `Refuse` and each
`NotifyLeft`. `AUTH_TIMEOUT_SECONDS` ends the wait for the auth message: weak
fairness of `Reject`. `MAX_CONNECTION_LIFETIME` ends the relay loop even of a
silent connection: weak fairness of `Leave`. The coroutine of a report is not
abandoned once started: weak fairness of `ReportCloseSocket` and `ReportDelete`.
No client has to connect, send or disconnect, and no report has to be filed.

*Transfer.* Each page keeps running its event loop (weak fairness of `Uploader`
and of `Downloader`, as wholes), and a user who pauses resumes some day
(`ResumeDownload`; a download paused for ever does not settle, as the code
intends). Nobody has to start a download, and the network may do as it likes.

*Webhooks.* Requests end, workers do not sit idle while there is a job, and time
passes: weak fairness of `Requests`, `Work` and `Ageing`. An outage of the
endpoint is bounded by the retries, faults and user actions by `MaxIncidents`.

## 11 Proofs

TLAPS checks the following for every value of the constants, from the named
assumption of each module: `SignalingAssumption` (finite sets of connections and
slugs, natural caps, room for one peer), `RedisRoomsAssumption` (finitely many
connections, hosts among them, a positive TTL), `ChannelAssumption` (positive
TTLs, at least one slot, and `RenewTTL <= CounterFloor`: the default of
`FILE_SHARING_CHANNEL_TTL` is 3600, the constant in `record_download_complete`;
a deployment that sets it higher loses `LimitHolds`), `PaymentsAssumption`
(channels, paid and free secrets are different things), `TransferAssumption` (a
share has a file, and a file has a chunk) and `WebhooksAssumption` (at least one
worker, one retry, and a streak of one).

**SignalingProofs.** `SafetyInv` is the conjunction of `TypeOK`, `Membership`
(each member has a serving handler that holds its room's object, and a serving
handler outside a room is one a report evicted), `HostIndexed`, `Beliefs` (what
clients heard comes from their own slug, and from serving handlers or ones that
owe them a notice) and `EvictedAreDisconnected`. The conjuncts need each other:
the host index is exact only because each peer is in the room of its slug, and
nobody believes in ghosts only because whoever is served is a member or
evicted, and the evicted are disconnected before a new room could mislead them.
From `SafetyInv` follow `OneHostPerRoom`, `NoLeakedMembers`,
`DeparturesAreKnown`, `ChannelsStayApart`, `ReportsReachEveryMember` and the
action properties `EvictedPeersAreCutOff` and `NobodyIsDropped`. `CapsHold` is
inductive with the types, by cardinality arguments over the sweep.

**SignalingRefinement.** With `open <- OpenRooms`, `members <- peers` and
`hostOf <- host`, initial states map to initial states and every step is one
operation of `RoomTransport` or a stutter: `Admit` registers, `Leave` removes,
`ReportCloseRoom` closes, `Refuse` drops empty rooms.

**RedisRoomsProofs.** `KeysInv` adds to `TypeOK` where removals can be
(`Tasks`: only a handler that has left has one) and how the clocks relate
(`Clocks`: no lease and no registered host's string outlasts the peers hash). It gives `HostAccounted` and
`RowsOutliveLeases`. `NoGhosts` needs more: an envelope on its way counts. For
every entitled client, whoever it heard from, and whoever has a message at
place *i* of its inbox, is still known to it, or a departure notice waits
behind that place (`HeardSettled`, `QueuedSettled`); and whatever a client hears
from a peer comes one way only (`OneWay`): over pub/sub, and so only once it is
subscribed, exactly when another worker serves that peer. So a notice cannot
overtake a message. `GhostInv` is inductive relative to `KeysInv`: when a peer
lists whom to notify, every entitled client has a row, by `RowOutlivesLease`.

**ChannelProofs.** `DownloadsAreLimited` rests on `CounterOutlives`: an existing
counter has at least the channel's remaining time, and to a handler about to
claim a slot the channel has at most what it has read, or at most a renewal,
which the floor covers. `DestructionIsConfirmed` rests
on `MarkHasAsker`; `ExpiryIsNotPremature` on `RowOutlives` (the row's expiry is
never before the channel's, but for a renewal that has not reached it);
`SlotsReachTheRow` counts handlers between claim and write. `DeadChannelsStayDead`
and `FullSessionsAreClosed` are inductive with the types.

**PaymentsProofs.** `OnceOnly` is inductive once it adds that a secret that is
still there has not been handed out. `ClaimableOffers` follows a mapping from
`StoreMapping` to its claim or expiry (`Offers`: a checkout that is recording its
payment has stored one). `HonouredTokens` follows a token the whole way
(`Honoured`): in a checkout past `StoreToken`, in a mapping or in a cookie it
opens its item for its buyer, because the token set only grows until the item,
or a TTL older than the last renewal, goes.

**TransferProofs.** `TypeCorrect` needs `verdicts <= attempts`: at most as many
verdicts are awaited as wrong passwords were counted. `WrittenPrefix`,
`InOrderFiles` and `DeliveredWhenDone` come from one invariant, `SafeInv`: files
before the active one are whole and later ones empty (`InTurn`); what is
expected is what an open stream holds, and is short of the file's end
(`Accounted`); the chunk being decrypted is the next one of the active file
(`DecryptsNext`); only a stop or a close ends the stream of an incomplete file
(`ClosedIsComplete`); a Done on its way, or counted, is of a complete download
(`SaidDone`). None of it says what the uploader sends: the downloader's own
checks are enough, whatever two chunk loops do.

`StartsAreAccepted` is about the uploader, and about downloads that nobody
pauses: `Unpaused` is inductive as long as `pauses = 0`. One token passes round
the two pages (`OneToken`): a Start on its way, the chunk loop it makes, the last
chunk of the file on its way, the same chunk in the chain or under decryption,
and the Start of the next file; there is never a second one, and none before the
download is started. While the token is not a chunk loop, no file is being sent,
the status is not `Uploading`, and once an Info has been promised, sent, received
or read (`Informed`) it is not one of those before a password either (`Prepared`,
`Greeting`). A `Paused` status can then
only come from `stopDownload`, after which no Start follows (`StopsLast`: the
Pause is behind every Start in the channel). With a pause the invariant is
false, as it should be: two loops may run (section 12).

**WebhooksProofs.** `NoEventForgotten` rests on `KeepInv`, which adds `Settled`: a
worker that will write no verdict has read one, and a verdict is never taken
back, so a job that ends at `FlushSend` leaves its event decided. The other point
is that `Blocked` cannot use up the last retry: by `Due` all earlier events are
aged then. `EventsInOrder` follows what `is_latest_event` has let through
(`OrderInv`): each earlier event that is stored has been tried, is aged, or was
committed late (`EarlierFirst`), since a delivery is recorded only after its
event was tried (`AnsweredIsTried`). `DeliveredStays` is an action property of
`FinalInv`: an event outside `repeated` has one job in one place (`OneJob`: the
request's buffer, the queue, or a worker that has not finished it), so no task
between its read and its write has missed a delivery (`Undelivered`). A job that
is over and not yet acknowledged writes nothing more; when its worker dies it
comes back, and if its copy is still there the event has two jobs and goes into
`repeated`. If the copy has been worked off meanwhile, or there was none, what
comes back is again the only job, and reads the verdict before it does anything.
`StreaksAreNoticed` combines the first two with `Noticed`: while an enabled
endpoint has a full streak, one of its events is on its way to
`webhook_event.failed`, as a job, in a worker about to disable, or in an attempt
that has not seen it succeed. A failure that completes the streak puts its own
event there, and no step that takes it away leaves the streak and the enabled
flag as they are (`OldEvent`: an event that completes behind the newest ones changes
nothing about them).

The attempt to prove `StreaksAreNoticed` for any number of crashes showed that it
was false for two, which the run's bound of one had hidden: a worker that dies
after it has saved a failure, and a repeat of the job that breaks at its last
retry, leave a failure nobody will look at. `Break` records that in `unheard`,
as it does in `lost`, and so does `DropFailed`; section 12 has what the code does.

Only model-checked: liveness (which the prover does not reach:
`EveryPeerLeaves`, `ReportCompletes`, `DownloadSettles`, `UndisturbedCompletes`,
`EventSettles`) and the five violations. All the other properties of the passing
runs are stated by a theorem.

## 12 Findings and observations

Where the code and words of the repository disagree, shown by a violation run:

1. **A reported channel gets a live room** (`signaling_late_admission`). A
   connection past `_authenticate` registers without looking at the channel
   again, so it re-creates the room after the report; `FS/actions.py:1272`
   deletes the channel "so the uploader cannot reconnect".
2. **A close misses a peer between registration and subscription**
   (`redis_close`). The row is visible before the SUBSCRIBE, so a close
   published in between reaches nobody; `specs/redis-signaling-transport.md:125`
   says `close_room` disconnects every peer across workers.
3. **A destruction mark lapses** (`channel_destruction`). The first request only
   sets a 30-second key; `FS/queries.py:511` announces that the channel "will
   be destroyed in 30 seconds unless cancelled".
4. **A renewal shortens a paid channel** (`channel_renewal`). Created with 24
   hours, it is renewed to one; `FS/api.py:1069` says the endpoint extends the
   expiration time.
5. **A truncated download is reported as complete** (`transfer_truncated`). When
   the connection drops in mid-file, `onClose` closes the streams like finished
   ones, so the promise resolves; `useDownloader.ts:1182` then deletes the resume
   progress "on successful completion".

Met while modelling, and visible in the models' actions, without a run of
their own:

- *Transfer.* A pause that arrives while the old chunk loop is between two
  awaits lets two loops run after the resume; the downloader's "out-of-order
  data", or the uploader's "Only one file transfer at a time", then ends the
  connection. A chunk dropped by a pause during its decryption has been counted
  in `totalBytesReceived`, and is counted again when it is sent once more, so
  the size check may end the transfer. A late verdict on a wrong password
  overwrites the status and brings the password page back.
- *Webhooks.* `Retry` rolls back the failed delivery, although the `finally`
  clause says "Either way, save the delivery", so an event being retried has no
  delivery and holds up later ones for a minute. A name that does not resolve is
  a permanent failure without a `webhook_event.failed` job, and does not get the
  streak looked at. A worker that dies after the copy for a retry is enqueued and
  before the original is acknowledged, or whose heartbeat lapses, leaves two jobs
  of one event: both may pass the succeeded check (`workers.py:128`), and the
  failure of one then overwrites the success of the other. `SuccessIsFinal`
  excepts such events (without the exception TLC shows it), and since nothing in
  the repository promises more, there is no violation run. A request's process
  that dies before the flush, or between its two commands, leaves an event that
  no job delivers until the user asks for it (`lost`). Jobs of a request that was
  rolled back are flushed all the same. A worker that dies between saving a failure and flushing its
  `webhook_event.failed` job leaves that to the repeat of its own job; if the
  repeat breaks at the last retry, nobody looks at the streak until the next
  failure. After the user has re-enabled an endpoint, the kept streak disables it
  again at the first failure.
- *Payments.* A second checkout of a channel by the same buyer, while Stripe
  remembers the idempotency key, gets the same session; the unique index refuses
  the payment row and the request fails, though the return page invites the
  buyer to try again. A renewed channel outlives its payment tokens, since
  `queries.py:421` does not extend the token set.

## 13 What is not modelled

- *Signaling and channel*: unlimited channels (their counter refuses nobody), the
  password-attempt counter, checksums and slug generation; rate limits and
  throttles over time windows, which may end a connection at any moment of the
  model; a second concurrent report of one channel; sockets so slow that a send
  never returns.
- *Redis signaling*: more than one room (rooms share no key), and one race that is
  only listed as a hazard. `RemoveHost` deletes the host string after it was
  read; if a close or expiry freed it meanwhile and a new host registered, its
  string is deleted and a second host may enter. `HostIsAccountedFor` bounds
  whom the string may name, and deliberately does not claim that a host keeps it.
- *Payments*: saved cards; paid files, which the API does not
  let anyone buy; the storefront index.
- *Transfer*: the resume store across page loads, the relay fallback, zip output,
  a wrong encryption key, several downloaders beyond their effect on the shared
  counters.
- *Webhooks and jobs*: creating and deleting endpoints, signatures, payload
  formats; the retries of a `webhook_event.failed` job, which `DropFailed` may cut
  short at any time; the scheduler, bulk flushes and delays asked for by the caller.
- *Candidates for the next modules*: the share counters (seed marker, cache filled
  from stale reads), debounced jobs (owner and executed flags), external events
  (insert once, handle under a lock), and the peer connection below `Transfer`
  (fragments, back-pressure, candidates). Their hazards are in `PROJECT.json`.
- Components without hard behaviour (section 1). They are most of the
  repository's lines: single-transaction CRUD, back-office pages, presentation
  and migrations, where a model would restate the code.
