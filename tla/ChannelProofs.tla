--------------------------- MODULE ChannelProofs ---------------------------
(***************************************************************************)
(* Machine-checked proofs about module Channel, for any number of          *)
(* requests, any download limit and any TTLs with RenewTTL <= CounterFloor.*)
(***************************************************************************)
EXTENDS Channel, FiniteSetTheorems, TLAPS

(***************************************************************************)
(* The state is well formed and the counter never exceeds the limit.       *)
(***************************************************************************)
LEMMA TypeInit == Init => TypeOK
  BY ChannelAssumption DEF ChannelAssumption, Init, TypeOK, Keys

LEMMA TypeStep == TypeOK /\ [Next]_vars => TypeOK'
<1> SUFFICES ASSUME TypeOK, [Next]_vars
             PROVE  TypeOK'
    OBVIOUS
<1> USE ChannelAssumption
    DEF ChannelAssumption, TypeOK, Keys, Exists, Step, redisVars, rowVars
<1>1. ASSUME NEW r \in Requests, ReadTtlForToken(r) \/ WriteToken(r)
      PROVE  TypeOK'
    BY <1>1 DEF ReadTtlForToken, WriteToken
<1>2. ASSUME NEW r \in Requests, ReadForRenewal(r) \/ RecordRenewal(r)
      PROVE  TypeOK'
    BY <1>2 DEF ReadForRenewal, RecordRenewal
<1>3. ASSUME NEW r \in Requests, WriteRenewal(r)
      PROVE  TypeOK'
  <2>1. ttl' \in [Keys -> Nat]
      BY <1>3 DEF WriteRenewal, RenewKeys
  <2>2. QED
      BY <1>3, <2>1 DEF WriteRenewal
<1>4. ASSUME NEW r \in Requests, MarkForDestruction(r) \/ FindMark(r)
      PROVE  TypeOK'
    BY <1>4 DEF MarkForDestruction, FindMark
<1>5. ASSUME NEW r \in Requests, Destroy(r) \/ ReportDelete(r)
      PROVE  TypeOK'
    BY <1>5 DEF Destroy, ReportDelete, DeleteAll
<1>6. ASSUME NEW r \in Requests, RefuseDestroy(r) \/ RecordDestroyed(r)
      PROVE  TypeOK'
    BY <1>6 DEF RefuseDestroy, RecordDestroyed
<1>7. ASSUME NEW r \in Requests, CheckDownload(r) \/ RefuseSlot(r)
      PROVE  TypeOK'
    BY <1>7 DEF CheckDownload, RefuseSlot
<1>8. ASSUME NEW r \in Requests, ClaimSlot(r)
      PROVE  TypeOK'
  <2>1. CounterTTL(r) \in Nat
      BY DEF CounterTTL, Max2
  <2>2. count' \in 0 .. MaxDownloads
      BY <1>8 DEF ClaimSlot, SlotAvailable
  <2>3. QED
      BY <1>8, <2>1, <2>2 DEF ClaimSlot
<1>9. ASSUME NEW r \in Requests, RecordDownload(r)
      PROVE  TypeOK'
    BY <1>9 DEF RecordDownload, NewCount
<1>10. ASSUME NEW r \in Requests, CheckReport(r) \/ RecordReport(r)
       PROVE  TypeOK'
    BY <1>10 DEF CheckReport, RecordReport
<1>11. ASSUME NEW r \in Requests, RecordFails(r)
       PROVE  TypeOK'
    BY <1>11 DEF RecordFails
<1>12. CASE ExpireSession
    BY <1>12 DEF ExpireSession
<1>13. CASE Tick
    BY <1>13 DEF Tick
<1>14. CASE UNCHANGED vars
    BY <1>14 DEF vars
<1>15. QED
    BY <1>1, <1>2, <1>3, <1>4, <1>5, <1>6, <1>7, <1>8, <1>9, <1>10, <1>11,
       <1>12, <1>13, <1>14 DEF Next, Handler

(***************************************************************************)
(* The keys and the row stay well formed, and record_download_complete     *)
(* never counts past max_downloads.                                        *)
(***************************************************************************)
THEOREM TypeCorrect == Spec => []TypeOK
  BY TypeInit, TypeStep, PTL DEF Spec

----------------------------------------------------------------------------
(***************************************************************************)
(* Why the counter outlives the channel.  A handler about to claim a slot  *)
(* read a TTL at least as long as the channel's, unless a renewal came in  *)
(* between, and then the channel has no more than RenewTTL left; the floor *)
(* on a new counter's TTL covers that case.                                *)
(***************************************************************************)
CounterOutlives ==
    /\ Exists("channel") => /\ count = claimed
                            /\ count > 0 => ttl["download_count"] >= ttl["channel"]
    /\ \A r \in Requests :
          pc[r] = "claim" => \/ ttl["channel"] <= seen[r]
                             \/ ttl["channel"] <= RenewTTL

LEMMA CounterStep ==
  TypeOK /\ CounterOutlives /\ [Next]_vars => CounterOutlives'
<1> SUFFICES ASSUME TypeOK, CounterOutlives, [Next]_vars
             PROVE  CounterOutlives'
    OBVIOUS
<1> USE ChannelAssumption
    DEF ChannelAssumption, TypeOK, CounterOutlives, Keys, Exists, Step,
        redisVars, rowVars
<1>1. ASSUME NEW r \in Requests, ReadTtlForToken(r) \/ WriteToken(r)
      PROVE  CounterOutlives'
    BY <1>1 DEF ReadTtlForToken, WriteToken
<1>2. ASSUME NEW r \in Requests, ReadForRenewal(r) \/ RecordRenewal(r)
      PROVE  CounterOutlives'
    BY <1>2 DEF ReadForRenewal, RecordRenewal
<1>3. ASSUME NEW r \in Requests, WriteRenewal(r)
      PROVE  CounterOutlives'
  <2>1. /\ ttl'["channel"] = IF ttl["channel"] > 0 THEN RenewTTL ELSE 0
        /\ ttl["download_count"] > 0 => ttl'["download_count"] = RenewTTL
      BY <1>3 DEF WriteRenewal, RenewKeys, RenewedKeys
  <2>2. \A q \in Requests :
           pc'[q] = "claim" => pc[q] = "claim" /\ seen'[q] = seen[q]
      BY <1>3 DEF WriteRenewal
  <2>3. count' = count /\ claimed' = claimed
      BY <1>3 DEF WriteRenewal
  <2>4. QED
      BY <2>1, <2>2, <2>3
<1>4. ASSUME NEW r \in Requests, MarkForDestruction(r) \/ FindMark(r)
      PROVE  CounterOutlives'
    BY <1>4 DEF MarkForDestruction, FindMark
<1>5. ASSUME NEW r \in Requests, Destroy(r) \/ ReportDelete(r)
      PROVE  CounterOutlives'
    BY <1>5 DEF Destroy, ReportDelete, DeleteAll
<1>6. ASSUME NEW r \in Requests, RefuseDestroy(r) \/ RecordDestroyed(r)
      PROVE  CounterOutlives'
    BY <1>6 DEF RefuseDestroy, RecordDestroyed
<1>7. ASSUME NEW r \in Requests, CheckDownload(r) \/ RefuseSlot(r)
      PROVE  CounterOutlives'
    BY <1>7 DEF CheckDownload, RefuseSlot
<1>8. ASSUME NEW r \in Requests, ClaimSlot(r)
      PROVE  CounterOutlives'
  <2>1. CounterTTL(r) \in Nat /\ CounterTTL(r) >= ttl["channel"]
      BY <1>8 DEF ClaimSlot, CounterTTL, Max2
  <2>2. QED
      BY <1>8, <2>1 DEF ClaimSlot
<1>9. ASSUME NEW r \in Requests, RecordDownload(r)
      PROVE  CounterOutlives'
    BY <1>9 DEF RecordDownload
<1>10. ASSUME NEW r \in Requests, CheckReport(r) \/ RecordReport(r)
       PROVE  CounterOutlives'
    BY <1>10 DEF CheckReport, RecordReport
<1>11. ASSUME NEW r \in Requests, RecordFails(r)
       PROVE  CounterOutlives'
    BY <1>11 DEF RecordFails
<1>12. CASE ExpireSession
    BY <1>12 DEF ExpireSession
<1>13. CASE Tick
    BY <1>13 DEF Tick
<1>14. CASE UNCHANGED vars
    BY <1>14 DEF vars
<1>15. QED
    BY <1>1, <1>2, <1>3, <1>4, <1>5, <1>6, <1>7, <1>8, <1>9, <1>10, <1>11,
       <1>12, <1>13, <1>14 DEF Next, Handler

(***************************************************************************)
(* The download limit holds while the channel lives: the TTL that          *)
(* record_download_complete gives the counter, and what renew_channel      *)
(* makes of it, never let the counter expire first.                        *)
(***************************************************************************)
THEOREM DownloadsAreLimited == Spec => []LimitHolds
<1>1. Init => CounterOutlives
    BY ChannelAssumption
       DEF ChannelAssumption, Init, CounterOutlives, Keys, Exists
<1>2. TypeOK /\ CounterOutlives => LimitHolds
    BY DEF TypeOK, CounterOutlives, LimitHolds
<1>3. QED
    BY <1>1, <1>2, TypeCorrect, CounterStep, PTL DEF Spec

----------------------------------------------------------------------------
(***************************************************************************)
(* A mark in place comes from a request that has finished, so whoever      *)
(* confirms it is another one.                                             *)
(***************************************************************************)
MarkHasAsker ==
    /\ Exists("pending_destruction") => asked # {}
    /\ \A r \in asked : pc[r] = "done"

LEMMA MarkStep == TypeOK /\ MarkHasAsker /\ [Next]_vars => MarkHasAsker'
<1> SUFFICES ASSUME TypeOK, MarkHasAsker, [Next]_vars
             PROVE  MarkHasAsker'
    OBVIOUS
<1> USE ChannelAssumption
    DEF ChannelAssumption, TypeOK, MarkHasAsker, Keys, Exists, Step,
        redisVars, rowVars
<1>1. ASSUME NEW r \in Requests, ReadTtlForToken(r) \/ WriteToken(r)
      PROVE  MarkHasAsker'
    BY <1>1 DEF ReadTtlForToken, WriteToken
<1>2. ASSUME NEW r \in Requests,
             ReadForRenewal(r) \/ WriteRenewal(r) \/ RecordRenewal(r)
      PROVE  MarkHasAsker'
    BY <1>2 DEF ReadForRenewal, WriteRenewal, RenewKeys, RenewedKeys,
                RecordRenewal
<1>3. ASSUME NEW r \in Requests, MarkForDestruction(r) \/ FindMark(r)
      PROVE  MarkHasAsker'
    BY <1>3 DEF MarkForDestruction, FindMark
<1>4. ASSUME NEW r \in Requests, Destroy(r) \/ ReportDelete(r)
      PROVE  MarkHasAsker'
    BY <1>4 DEF Destroy, ReportDelete, DeleteAll
<1>5. ASSUME NEW r \in Requests, RefuseDestroy(r) \/ RecordDestroyed(r)
      PROVE  MarkHasAsker'
    BY <1>5 DEF RefuseDestroy, RecordDestroyed
<1>6. ASSUME NEW r \in Requests,
             CheckDownload(r) \/ ClaimSlot(r) \/ RefuseSlot(r)
      PROVE  MarkHasAsker'
    BY <1>6 DEF CheckDownload, ClaimSlot, RefuseSlot
<1>7. ASSUME NEW r \in Requests,
             RecordDownload(r) \/ CheckReport(r) \/ RecordReport(r)
      PROVE  MarkHasAsker'
    BY <1>7 DEF RecordDownload, CheckReport, RecordReport
<1>8. ASSUME NEW r \in Requests, RecordFails(r)
      PROVE  MarkHasAsker'
    BY <1>8 DEF RecordFails
<1>9. CASE ExpireSession
    BY <1>9 DEF ExpireSession
<1>10. CASE Tick
    BY <1>10 DEF Tick
<1>11. CASE UNCHANGED vars
    BY <1>11 DEF vars
<1>12. QED
    BY <1>1, <1>2, <1>3, <1>4, <1>5, <1>6, <1>7, <1>8, <1>9, <1>10, <1>11
       DEF Next, Handler

LEMMA DestroyingStep ==
  ASSUME TypeOK, [Next]_vars, NEW r \in Requests,
         pc[r] = "destroy", pc'[r] = "destroyRecord"
  PROVE  Destroy(r)
<1> USE DEF TypeOK, Step
<1>1. ASSUME NEW q \in Requests, Handler(q)
      PROVE  Destroy(r)
  <2>1. q = r
      BY <1>1 DEF Handler, ReadTtlForToken, WriteToken, ReadForRenewal,
         WriteRenewal, RecordRenewal, MarkForDestruction, FindMark, Destroy,
         RefuseDestroy, RecordDestroyed, CheckDownload, ClaimSlot, RefuseSlot,
         RecordDownload, CheckReport, ReportDelete, RecordReport, RecordFails
  <2>2. QED
      BY <1>1, <2>1 DEF Handler, ReadTtlForToken, WriteToken, ReadForRenewal,
         WriteRenewal, RecordRenewal, MarkForDestruction, FindMark, Destroy,
         RefuseDestroy, RecordDestroyed, CheckDownload, ClaimSlot, RefuseSlot,
         RecordDownload, CheckReport, ReportDelete, RecordReport, RecordFails
<1>2. QED
    BY <1>1 DEF Next, ExpireSession, Tick, vars

(***************************************************************************)
(* request_channel_destruction destroys only on a mark that no renewal has *)
(* cancelled and that came from another request.                           *)
(***************************************************************************)
THEOREM DestructionIsConfirmed == Spec => TwoRequestsDestroy
<1>1. Init => MarkHasAsker
    BY DEF Init, MarkHasAsker, Keys, Exists
<1>2. ASSUME TypeOK, MarkHasAsker, [Next]_vars, NEW r \in Requests,
             pc[r] = "destroy", pc'[r] = "destroyRecord"
      PROVE  asked \ {r} # {}
  <2>1. Exists("pending_destruction")
      BY <1>2, DestroyingStep DEF Destroy, Confirmed
  <2>2. PICK q \in asked : pc[q] = "done"
      BY <1>2, <2>1 DEF MarkHasAsker
  <2>3. QED
      BY <1>2, <2>2
<1>3. TypeOK /\ MarkHasAsker /\ [Next]_vars =>
        [\A r \in Requests :
           pc[r] = "destroy" /\ pc'[r] = "destroyRecord"
               => asked \ {r} # {}]_vars
    BY <1>2
<1>4. QED
    BY <1>1, <1>3, TypeCorrect, MarkStep, PTL DEF Spec, TwoRequestsDestroy

----------------------------------------------------------------------------
(***************************************************************************)
(* No handler in flight (renew_channel, set_reader_token, ...) brings a    *)
(* channel back.                                                           *)
(***************************************************************************)
THEOREM DeadChannelsStayDead == Spec => GoneStaysGone
<1>1. ASSUME TypeOK, [Next]_vars, ~Exists("channel")
      PROVE  ~Exists("channel")'
  <2> USE <1>1, ChannelAssumption
      DEF ChannelAssumption, TypeOK, Keys, Exists, redisVars
  <2>1. ASSUME NEW r \in Requests, Handler(r)
        PROVE  ~Exists("channel")'
      BY <2>1 DEF Handler, ReadTtlForToken, WriteToken, ReadForRenewal,
         WriteRenewal, RenewKeys, RecordRenewal, MarkForDestruction, FindMark,
         Destroy, DeleteAll, RefuseDestroy, RecordDestroyed, CheckDownload,
         ClaimSlot, RefuseSlot, RecordDownload, CheckReport, ReportDelete,
         RecordReport, RecordFails
  <2>2. QED
      BY <2>1 DEF Next, ExpireSession, Tick, vars
<1>2. TypeOK /\ [Next]_vars => [~Exists("channel") => ~Exists("channel")']_vars
    BY <1>1
<1>3. QED
    BY <1>2, TypeCorrect, PTL DEF Spec, GoneStaysGone

----------------------------------------------------------------------------
(***************************************************************************)
(* The row never expires before the channel, except while a renewal has    *)
(* renewed the keys but not (or never) the row; such a renewal left the    *)
(* channel at most RenewTTL, which is what it will write into the row.     *)
(***************************************************************************)
Unrecorded == \E r \in Requests : pc[r] \in {"renewRecord", "renewLost"}

RowOutlives ==
    /\ Unrecorded \/ ttl["channel"] <= expiresIn
    /\ \A r \in Requests :
          pc[r] = "renewRecord" => ttl["channel"] <= RenewTTL

LEMMA RowStep == TypeOK /\ RowOutlives /\ [Next]_vars => RowOutlives'
<1> SUFFICES ASSUME TypeOK, RowOutlives, [Next]_vars
             PROVE  RowOutlives'
    OBVIOUS
<1> USE ChannelAssumption
    DEF ChannelAssumption, TypeOK, RowOutlives, Unrecorded, Keys, Exists, Step,
        redisVars, rowVars
<1>1. ASSUME NEW r \in Requests, ReadTtlForToken(r) \/ WriteToken(r)
      PROVE  RowOutlives'
    BY <1>1 DEF ReadTtlForToken, WriteToken
<1>2. ASSUME NEW r \in Requests, ReadForRenewal(r) \/ RecordRenewal(r)
      PROVE  RowOutlives'
    BY <1>2 DEF ReadForRenewal, RecordRenewal
<1>3. ASSUME NEW r \in Requests, WriteRenewal(r)
      PROVE  RowOutlives'
  <2>1. ttl'["channel"] <= RenewTTL
      BY <1>3 DEF WriteRenewal, RenewKeys, RenewedKeys
  <2>2. pc'[r] = "renewRecord"
      BY <1>3 DEF WriteRenewal
  <2>3. QED
      BY <2>1, <2>2
<1>4. ASSUME NEW r \in Requests, MarkForDestruction(r) \/ FindMark(r)
      PROVE  RowOutlives'
    BY <1>4 DEF MarkForDestruction, FindMark
<1>5. ASSUME NEW r \in Requests, Destroy(r) \/ ReportDelete(r)
      PROVE  RowOutlives'
    BY <1>5 DEF Destroy, ReportDelete, DeleteAll
<1>6. ASSUME NEW r \in Requests, RefuseDestroy(r) \/ RecordDestroyed(r)
      PROVE  RowOutlives'
    BY <1>6 DEF RefuseDestroy, RecordDestroyed
<1>7. ASSUME NEW r \in Requests,
             CheckDownload(r) \/ ClaimSlot(r) \/ RefuseSlot(r)
      PROVE  RowOutlives'
    BY <1>7 DEF CheckDownload, ClaimSlot, RefuseSlot
<1>8. ASSUME NEW r \in Requests,
             RecordDownload(r) \/ CheckReport(r) \/ RecordReport(r)
      PROVE  RowOutlives'
    BY <1>8 DEF RecordDownload, CheckReport, RecordReport
<1>9. ASSUME NEW r \in Requests, RecordFails(r)
      PROVE  RowOutlives'
    BY <1>9 DEF RecordFails
<1>10. CASE ExpireSession
    BY <1>10 DEF ExpireSession
<1>11. CASE Tick
    BY <1>11 DEF Tick
<1>12. CASE UNCHANGED vars
    BY <1>12 DEF vars
<1>13. QED
    BY <1>1, <1>2, <1>3, <1>4, <1>5, <1>6, <1>7, <1>8, <1>9, <1>10, <1>11,
       <1>12 DEF Next, Handler

LEMMA ExpiringStep ==
  ASSUME TypeOK, [Next]_vars, status # "expired", status' = "expired"
  PROVE  ExpireSession
<1>1. ASSUME NEW r \in Requests, Handler(r)
      PROVE  FALSE
    BY <1>1 DEF TypeOK, rowVars, Handler, ReadTtlForToken, WriteToken,
       ReadForRenewal, WriteRenewal, RecordRenewal, MarkForDestruction,
       FindMark, Destroy, RefuseDestroy, RecordDestroyed, CheckDownload,
       ClaimSlot, RefuseSlot, RecordDownload, CheckReport, ReportDelete,
       RecordReport, RecordFails
<1>2. QED
    BY <1>1 DEF Next, Tick, vars

(***************************************************************************)
(* expire_active_sessions gives up only sessions whose channel is gone, or *)
(* whose renewal has not reached the row.                                  *)
(***************************************************************************)
THEOREM ExpiryIsNotPremature == Spec => ExpiredIsGone
<1>1. Init => RowOutlives
    BY ChannelAssumption
       DEF ChannelAssumption, Init, RowOutlives, Unrecorded, Keys
<1>2. ASSUME TypeOK, RowOutlives, [Next]_vars,
             status # "expired", status' = "expired"
      PROVE  ~Exists("channel") \/ Unrecorded
    BY <1>2, ExpiringStep
       DEF ExpireSession, RowOutlives, Exists, TypeOK, Keys
<1>3. TypeOK /\ RowOutlives /\ [Next]_vars =>
        [status # "expired" /\ status' = "expired" =>
           ~Exists("channel") \/ Unrecorded]_vars
    BY <1>2
<1>4. QED
    BY <1>1, <1>3, TypeCorrect, RowStep, PTL
       DEF Spec, ExpiredIsGone, Unrecorded

----------------------------------------------------------------------------
(***************************************************************************)
(* Slots and rows: the handlers between the two are counted one by one.    *)
(***************************************************************************)
Unwritten ==
    {r \in Requests : pc[r] \in {"downloadRecord", "downloadLost"}}

LEMMA UnwrittenFinite ==
  IsFiniteSet(Unwritten) /\ Cardinality(Unwritten) \in Nat
<1>1. Unwritten \subseteq Requests
    BY DEF Unwritten
<1>2. QED
    BY <1>1, ChannelAssumption, FS_Subset, FS_CardinalityType
       DEF ChannelAssumption

LEMMA SlotsStep ==
  TypeOK /\ EverySlotRecorded /\ [Next]_vars => EverySlotRecorded'
<1> SUFFICES ASSUME TypeOK, EverySlotRecorded, [Next]_vars
             PROVE  EverySlotRecorded'
    OBVIOUS
<1> USE DEF TypeOK, Step, redisVars, rowVars
<1>1. claimed = downloads + Cardinality(Unwritten)
    BY DEF EverySlotRecorded, Unwritten
<1>2. SUFFICES claimed' = downloads' + Cardinality(Unwritten')
    BY DEF EverySlotRecorded, Unwritten
<1>3. ASSUME claimed' = claimed, downloads' = downloads,
             Unwritten' = Unwritten
      PROVE  claimed' = downloads' + Cardinality(Unwritten')
    BY <1>1, <1>3
<1>4. ASSUME NEW r \in Requests,
             \/ ReadTtlForToken(r) \/ WriteToken(r)
             \/ ReadForRenewal(r) \/ WriteRenewal(r) \/ RecordRenewal(r)
             \/ MarkForDestruction(r) \/ FindMark(r)
             \/ Destroy(r) \/ RefuseDestroy(r) \/ RecordDestroyed(r)
             \/ CheckDownload(r) \/ RefuseSlot(r)
             \/ CheckReport(r) \/ ReportDelete(r) \/ RecordReport(r)
             \/ RecordFails(r)
      PROVE  claimed' = downloads' + Cardinality(Unwritten')
  <2>1. claimed' = claimed /\ downloads' = downloads
      BY <1>4 DEF ReadTtlForToken, WriteToken, ReadForRenewal, WriteRenewal,
         RecordRenewal, MarkForDestruction, FindMark, Destroy, RefuseDestroy,
         RecordDestroyed, CheckDownload, RefuseSlot, CheckReport,
         ReportDelete, RecordReport, RecordFails
  <2>2. Unwritten' = Unwritten
      BY <1>4 DEF Unwritten, ReadTtlForToken, WriteToken, ReadForRenewal,
         WriteRenewal, RecordRenewal, MarkForDestruction, FindMark, Destroy,
         RefuseDestroy, RecordDestroyed, CheckDownload, RefuseSlot,
         CheckReport, ReportDelete, RecordReport, RecordFails
  <2>3. QED
      BY <2>1, <2>2, <1>3
<1>5. ASSUME NEW r \in Requests, ClaimSlot(r)
      PROVE  claimed' = downloads' + Cardinality(Unwritten')
  <2>1. /\ r \notin Unwritten
        /\ Unwritten' = Unwritten \cup {r}
      BY <1>5 DEF ClaimSlot, Unwritten
  <2>2. Cardinality(Unwritten') = Cardinality(Unwritten) + 1
      BY <2>1, UnwrittenFinite, FS_AddElement
  <2>3. claimed' = claimed + 1 /\ downloads' = downloads
      BY <1>5 DEF ClaimSlot
  <2>4. QED
      BY <1>1, <2>2, <2>3, UnwrittenFinite
<1>6. ASSUME NEW r \in Requests, RecordDownload(r)
      PROVE  claimed' = downloads' + Cardinality(Unwritten')
  <2>1. /\ r \in Unwritten
        /\ Unwritten' = Unwritten \ {r}
      BY <1>6 DEF RecordDownload, Unwritten
  <2>2. Cardinality(Unwritten') = Cardinality(Unwritten) - 1
      BY <2>1, UnwrittenFinite, FS_RemoveElement
  <2>3. claimed' = claimed /\ downloads' = downloads + 1
      BY <1>6 DEF RecordDownload, NewCount
  <2>4. QED
      BY <1>1, <2>2, <2>3, UnwrittenFinite
<1>7. CASE ExpireSession \/ Tick \/ UNCHANGED vars
  <2>1. claimed' = claimed /\ downloads' = downloads /\ pc' = pc
      BY <1>7 DEF ExpireSession, Tick, vars
  <2>2. QED
      BY <2>1, <1>3 DEF Unwritten
<1>8. QED
    BY <1>4, <1>5, <1>6, <1>7 DEF Next, Handler

(***************************************************************************)
(* Every slot record_download_complete claimed is in the row, or its       *)
(* handler still holds or has lost the write (_pg_record_download).        *)
(***************************************************************************)
THEOREM SlotsReachTheRow == Spec => []EverySlotRecorded
<1>1. Init => EverySlotRecorded
  <2> SUFFICES ASSUME Init
               PROVE  EverySlotRecorded
      OBVIOUS
  <2>1. {r \in Requests : pc[r] \in {"downloadRecord", "downloadLost"}} = {}
      BY DEF Init
  <2>2. claimed = 0 /\ downloads = 0
      BY DEF Init
  <2>3. QED
      BY <2>1, <2>2, FS_EmptySet DEF EverySlotRecorded
<1>2. QED
    BY <1>1, TypeCorrect, SlotsStep, PTL DEF Spec

(***************************************************************************)
(* A session whose downloads are used up stays closed: neither             *)
(* expire_active_sessions nor a late _pg_record_download reopens it.       *)
(***************************************************************************)
THEOREM FullSessionsAreClosed == Spec => []FullIsClosed
<1>1. Init => FullIsClosed
    BY ChannelAssumption DEF ChannelAssumption, Init, FullIsClosed
<1>2. TypeOK /\ FullIsClosed /\ [Next]_vars => FullIsClosed'
  <2> SUFFICES ASSUME TypeOK, FullIsClosed, [Next]_vars
               PROVE  FullIsClosed'
      OBVIOUS
  <2> USE ChannelAssumption
      DEF ChannelAssumption, TypeOK, FullIsClosed, rowVars
  <2>1. ASSUME NEW r \in Requests, RecordDownload(r)
        PROVE  FullIsClosed'
      BY <2>1 DEF RecordDownload, NewCount
  <2>2. ASSUME NEW r \in Requests, Handler(r), ~RecordDownload(r)
        PROVE  FullIsClosed'
      BY <2>2 DEF Handler, ReadTtlForToken, WriteToken, ReadForRenewal,
         WriteRenewal, RecordRenewal, MarkForDestruction, FindMark, Destroy,
         RefuseDestroy, RecordDestroyed, CheckDownload, ClaimSlot, RefuseSlot,
         CheckReport, ReportDelete, RecordReport, RecordFails
  <2>3. CASE ExpireSession
      BY <2>3 DEF ExpireSession, Expirable
  <2>4. CASE Tick \/ UNCHANGED vars
      BY <2>4 DEF Tick, vars
  <2>5. QED
      BY <2>1, <2>2, <2>3, <2>4 DEF Next
<1>3. QED
    BY <1>1, <1>2, TypeCorrect, PTL DEF Spec
============================================================================
