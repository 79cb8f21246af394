--------------------------- MODULE WebhooksProofs ---------------------------
(***************************************************************************)
(* Type correctness of Webhooks, and that no event is forgotten, attempts  *)
(* keep the order, a delivered event stays delivered and a streak of       *)
(* failures is looked at, for any number of events, workers, retries and   *)
(* crashes.                                                                *)
(***************************************************************************)
EXTENDS Webhooks, FiniteSetTheorems, TLAPS

LEMMA Constants ==
    /\ MaxRunning \in Nat /\ MaxRetries \in Nat \ {0} /\ Threshold \in Nat
    /\ LastEvent \in Nat /\ MaxIncidents \in Nat
    /\ Events = 1..LastEvent
BY WebhooksAssumption DEF WebhooksAssumption, Events

----------------------------------------------------------------------------
(* Types                                                                   *)

LEMMA JobType ==
    ASSUME NEW e \in Events, NEW nr \in 0..MaxIncidents, NEW redeliver \in BOOLEAN
    PROVE  Job(e, nr, redeliver) \in Jobs
BY Constants DEF Job, Jobs

LEMMA IncidentType ==
    ASSUME TypeOK, Incident
    PROVE  Fresh \in 0..MaxIncidents /\ incidents' \in 0..MaxIncidents
BY Constants DEF TypeOK, Incident, Fresh

LEMMA CopyType ==
    ASSUME TypeOK, Incident, NEW j \in Jobs
    PROVE  [j EXCEPT !.nr = Fresh] \in Jobs
BY IncidentType DEF Jobs

LEMMA RequeuedType ==
    ASSUME NEW j \in Jobs
    PROVE  Requeued(j) \subseteq Jobs
<1>1. j.retries < MaxRetries => j.retries + 1 \in 0..MaxRetries
  BY Constants DEF Jobs
<1>2. j.retries < MaxRetries => [j EXCEPT !.retries = @ + 1] \in Jobs
  BY <1>1 DEF Jobs
<1>. QED
  BY <1>2 DEF Requeued

LEMMA TaskType ==
    ASSUME TypeOK, NEW at \in Stages, NEW j \in Jobs
    PROVE  Task(at, j) \in Tasks
<1>1. j.event \in Events
  BY DEF Jobs
<1>2. verdict[j.event] \in Verdicts
  BY <1>1 DEF TypeOK
<1>. QED
  BY <1>2 DEF Task, Tasks, Outcomes

LEMMA AcknowledgesType ==
    ASSUME TypeOK, NEW j \in Jobs, NEW at \in Stages
    PROVE  /\ Over(at, j) \in Tasks
           /\ \A t \in running :
                 t.job = j /\ Acknowledges(t, at) => running' \subseteq Tasks
<1>1. Over(at, j) \in Tasks
  BY DEF Over, Tasks, Outcomes, Verdicts
<1>. QED
  BY <1>1 DEF Acknowledges, TypeOK

LEMMA StagesAre ==
    /\ {"posting", "saving", "flushing", "disabling", "acking", "closing"} = Stages
    /\ {"posting", "saving", "flushing"} = Sending
BY DEF Stages, Sending

LEMMA MovesType ==
    ASSUME running \subseteq Tasks, NEW t \in running, NEW at \in Stages,
           NEW outcome \in Outcomes, Moves(t, at, outcome)
    PROVE  running' \subseteq Tasks
<1>1. [t EXCEPT !.at = at, !.outcome = outcome] \in Tasks
  BY DEF Tasks
<1>. QED
  BY <1>1 DEF Moves

LEMMA TaskTypes ==
    ASSUME TypeOK, NEW t \in running
    PROVE  /\ t \in Tasks /\ t.job \in Jobs /\ t.job.event \in Events
           /\ t.job.retries \in 0..MaxRetries
           /\ t.outcome \in Outcomes /\ t.seen \in Verdicts
<1>1. t \in Tasks
  BY DEF TypeOK
<1>2. t.job \in Jobs /\ t.outcome \in Outcomes /\ t.seen \in Verdicts
  BY <1>1 DEF Tasks
<1>. QED
  BY <1>1, <1>2 DEF Jobs

LEMMA TypeInitially == Init => TypeOK
<1>. SUFFICES ASSUME Init PROVE TypeOK
  OBVIOUS
<1>1. 0 \in 0..MaxIncidents
  BY Constants
<1>. QED
  BY <1>1 DEF Init, TypeOK, Verdicts

LEMMA RequestsKeepTypes ==
    ASSUME TypeOK, NEW e \in Events,
           CommitRequest(e) \/ RollBackRequest(e) \/ FlushRequest(e)
             \/ LoseJob(e) \/ Age(e) \/ Send(e)
    PROVE  TypeOK'
<1>1. CASE CommitRequest(e)
  BY <1>1 DEF TypeOK, CommitRequest, eventVars, incidentVars
<1>2. CASE RollBackRequest(e)
  BY <1>2 DEF TypeOK, RollBackRequest, eventVars, incidentVars
<1>3. CASE FlushRequest(e)
  <2>0. 0 \in 0..MaxIncidents
    BY Constants
  <2>1. Job(e, 0, FALSE) \in Jobs
    BY <2>0, JobType
  <2>2. queue' \subseteq Jobs /\ unflushed' \subseteq Events
    BY <1>3, <2>1 DEF TypeOK, FlushRequest
  <2>3. UNCHANGED <<enabled, row, verdict, skipped, late, recorded, archived,
                    aged, failures, running, incidents, repeated, tried, lost,
                    unheard>>
    BY <1>3 DEF FlushRequest, rowVars, eventVars, incidentVars
  <2>. QED
    BY <2>2, <2>3 DEF TypeOK
<1>4. CASE LoseJob(e)
  <2>1. incidents' \in 0..MaxIncidents
    BY <1>4, IncidentType DEF LoseJob
  <2>. QED
    BY <1>4, <2>1 DEF TypeOK, LoseJob, rowVars, eventVars
<1>5. CASE Age(e)
  BY <1>5 DEF TypeOK, Age, rowVars, eventVars, incidentVars
<1>6. CASE Send(e)
  BY <1>6 DEF TypeOK, Send, eventVars, incidentVars
<1>. QED
  BY <1>1, <1>2, <1>3, <1>4, <1>5, <1>6

LEMMA BeginSendKeepsTypes ==
    ASSUME TypeOK, NEW j \in queue, BeginSend(j)
    PROVE  TypeOK'
<1>1. j \in Jobs /\ j.event \in Events
  BY DEF TypeOK, Jobs
<1>2. queue' \subseteq Jobs
  <2>1. Requeued(j) \subseteq Jobs
    BY <1>1, RequeuedType
  <2>2. queue' \subseteq queue \cup Requeued(j)
    BY DEF BeginSend
  <2>. QED
    BY <2>1, <2>2 DEF TypeOK
<1>3. running' \subseteq Tasks
  <2>1. Task("posting", j) \in Tasks /\ Over("acking", j) \in Tasks
    BY <1>1, TaskType, AcknowledgesType, StagesAre
  <2>2. running' \subseteq running \cup {Task("posting", j), Over("acking", j)}
    BY DEF BeginSend, Begins
  <2>. QED
    BY <2>1, <2>2 DEF TypeOK
<1>4. skipped' \subseteq Events
  BY <1>1 DEF TypeOK, BeginSend
<1>. QED
  BY <1>2, <1>3, <1>4 DEF TypeOK, BeginSend, rowVars, incidentVars

LEMMA TriesType ==
    ASSUME TypeOK, NEW e \in Events, Tries(e)
    PROVE  tried' \in Seq(Events)
BY DEF TypeOK, Tries

LEMMA SaveEventType ==
    ASSUME TypeOK, NEW t \in running, NEW v \in Verdicts, SaveEvent(t, v)
    PROVE  /\ verdict' \in [Events -> Verdicts]
           /\ skipped' \subseteq Events
           /\ recorded' \subseteq Events
BY TaskTypes DEF TypeOK, SaveEvent

LEMMA SendingKeepsTypes ==
    ASSUME TypeOK, NEW t \in running,
           \/ \E outcome \in Outcomes \ {"none"} : Answer(t, outcome)
           \/ AnswerAndRetry(t) \/ EndSend(t) \/ FlushSend(t) \/ Ack(t)
    PROVE  TypeOK'
<1>0. running \subseteq Tasks /\ queue \subseteq Jobs
  BY DEF TypeOK
<1>1. ASSUME NEW outcome \in Outcomes \ {"none"}, Answer(t, outcome)
      PROVE  TypeOK'
  <2>1. running' \subseteq Tasks
    BY <1>0, <1>1, MovesType, StagesAre DEF Answer
  <2>2. tried' \in Seq(Events)
    BY <1>1, TaskTypes, TriesType DEF Answer
  <2>. QED
    BY <1>1, <2>1, <2>2 DEF TypeOK, Answer, rowVars, eventVars, incidentVars
<1>2. CASE AnswerAndRetry(t)
  <2>1. queue' \subseteq Jobs
    BY <1>0, <1>2, TaskTypes, RequeuedType DEF AnswerAndRetry
  <2>2. tried' \in Seq(Events)
    BY <1>2, TaskTypes, TriesType DEF AnswerAndRetry
  <2>3. running' \subseteq Tasks
    BY <1>2, TaskTypes, AcknowledgesType, StagesAre DEF AnswerAndRetry
  <2>. QED
    BY <1>2, <2>1, <2>2, <2>3 DEF TypeOK, AnswerAndRetry, rowVars, eventVars, incidentVars
<1>3. CASE EndSend(t)
  <2>1. /\ running' \subseteq Tasks
        /\ verdict' \in [Events -> Verdicts]
        /\ skipped' \subseteq Events
        /\ recorded' \subseteq Events
        /\ unheard' \subseteq Events
    <3>0. unheard \subseteq Events
      BY DEF TypeOK
    <3>1. CASE SaveAccepted(t)
      BY <1>0, <3>0, <3>1, MovesType, SaveEventType, TaskTypes,
         StagesAre DEF SaveAccepted, Verdicts
    <3>2. CASE SaveUnresolved(t)
      BY <1>0, <3>0, <3>2, MovesType, SaveEventType, TaskTypes,
         StagesAre DEF SaveUnresolved, Verdicts
    <3>3. CASE SaveRefused(t)
      BY <1>0, <3>0, <3>3, MovesType, SaveEventType, TaskTypes,
         StagesAre DEF SaveRefused, Verdicts
    <3>. QED
      BY <1>3, <3>1, <3>2, <3>3 DEF EndSend
  <2>. QED
    BY <1>3, <2>1 DEF TypeOK, EndSend, rowVars, incidentVars
<1>4. CASE FlushSend(t)
  <2>1. failures' \subseteq Jobs
    BY <1>4, TaskTypes DEF TypeOK, FlushSend
  <2>2. running' \subseteq Tasks
    BY <1>4, TaskTypes, AcknowledgesType, StagesAre DEF FlushSend
  <2>. QED
    BY <1>4, <2>1, <2>2 DEF TypeOK, FlushSend, rowVars, eventVars, incidentVars
<1>5. CASE Ack(t)
  BY <1>5 DEF TypeOK, Ack, rowVars, eventVars, incidentVars
<1>. QED
  BY <1>1, <1>2, <1>3, <1>4, <1>5

LEMMA FaultsKeepTypes ==
    ASSUME TypeOK, NEW t \in running, Break(t) \/ Crash(t) \/ BreakFailed(t)
    PROVE  TypeOK'
<1>0. t.job \in Jobs /\ t.job.event \in Events
  BY TaskTypes
<1>1. incidents' \in 0..MaxIncidents
  BY IncidentType DEF Break, Crash, BreakFailed
<1>2. CASE Break(t)
  <2>1. queue' \subseteq Jobs
    BY <1>0, <1>2, RequeuedType DEF TypeOK, Break
  <2>2. lost' \subseteq Events /\ unheard' \subseteq Events
    BY <1>0, <1>2 DEF TypeOK, Break
  <2>3. running' \subseteq Tasks
    BY <1>0, <1>2, AcknowledgesType, StagesAre DEF Break
  <2>. QED
    BY <1>1, <1>2, <2>1, <2>2, <2>3 DEF TypeOK, Break, rowVars, eventVars
<1>3. CASE Crash(t)
  <2>1. GivenBack(t) \in Jobs
    BY <1>0, <1>3, CopyType DEF Crash, GivenBack
  <2>2. queue' \subseteq Jobs /\ failures' \subseteq Jobs
    BY <1>3, <2>1 DEF TypeOK, Crash
  <2>3. repeated' \subseteq Events /\ running' \subseteq Tasks
    BY <1>0, <1>3 DEF TypeOK, Crash
  <2>. QED
    BY <1>1, <1>3, <2>2, <2>3 DEF TypeOK, Crash, rowVars, eventVars
<1>4. CASE BreakFailed(t)
  <2>1. running' \subseteq Tasks
    BY <1>0, <1>4, AcknowledgesType, StagesAre DEF BreakFailed
  <2>. QED
    BY <1>0, <1>1, <1>4, <2>1 DEF TypeOK, BreakFailed, rowVars, eventVars
<1>. QED
  BY <1>2, <1>3, <1>4

LEMMA UnacknowledgedType ==
    ASSUME TypeOK, NEW j \in Unacknowledged
    PROVE  j \in Jobs /\ j.event \in Events
<1>1. j \in Jobs
  BY TaskTypes DEF Unacknowledged, TypeOK
<1>. QED
  BY <1>1 DEF Jobs

LEMMA DoubleKeepsTypes ==
    ASSUME TypeOK,
           \/ \E j \in Unacknowledged : Double(j)
           \/ \E j \in failures : DropFailed(j)
    PROVE  TypeOK'
<1>1. ASSUME NEW j \in Unacknowledged, Double(j) PROVE TypeOK'
  <2>1. [j EXCEPT !.nr = Fresh] \in Jobs /\ incidents' \in 0..MaxIncidents
    BY <1>1, UnacknowledgedType, CopyType, IncidentType DEF Double
  <2>2. repeated' \subseteq Events
    BY <1>1, UnacknowledgedType DEF Double, TypeOK
  <2>. QED
    BY <1>1, <2>1, <2>2 DEF TypeOK, Double, rowVars, eventVars
<1>2. ASSUME NEW j \in failures, DropFailed(j) PROVE TypeOK'
  <2>1. j.event \in Events /\ incidents' \in 0..MaxIncidents
    BY <1>2, IncidentType DEF DropFailed, TypeOK, Jobs
  <2>. QED
    BY <1>2, <2>1 DEF TypeOK, DropFailed, rowVars, eventVars
<1>. QED
  BY <1>1, <1>2

LEMMA FailedKeepsTypes ==
    ASSUME TypeOK,
           \/ \E j \in failures : BeginFailed(j)
           \/ \E t \in running : Disable(t)
    PROVE  TypeOK'
<1>1. ASSUME NEW j \in failures, BeginFailed(j) PROVE TypeOK'
  <2>1. j \in Jobs
    BY DEF TypeOK
  <2>2. Task("disabling", j) \in Tasks
    BY <2>1, TaskType, StagesAre
  <2>3. running' \subseteq Tasks
    <3>1. running' \subseteq running \cup {Task("disabling", j)}
      BY <1>1 DEF BeginFailed, Begins
    <3>. QED
      BY <2>2, <3>1 DEF TypeOK
  <2>4. failures' \subseteq Jobs
    BY <1>1 DEF TypeOK, BeginFailed
  <2>5. UNCHANGED <<enabled, row, late, verdict, skipped, recorded, archived,
                    aged, unflushed, queue, incidents, repeated, tried, lost,
                    unheard>>
    BY <1>1 DEF BeginFailed, rowVars, eventVars, incidentVars
  <2>. QED
    BY <2>3, <2>4, <2>5 DEF TypeOK
<1>2. ASSUME NEW t \in running, Disable(t) PROVE TypeOK'
  <2>1. Stored \ Completed \subseteq Events
    BY DEF Stored
  <2>2. enabled' \in BOOLEAN /\ skipped' \subseteq Events /\ running' \subseteq Tasks
    BY <1>2, <2>1, TaskTypes, AcknowledgesType, StagesAre DEF TypeOK, Disable
  <2>3. UNCHANGED <<row, late, verdict, recorded, archived, aged, unflushed,
                    queue, failures, incidents, repeated, tried, lost, unheard>>
    BY <1>2 DEF Disable, rowVars, incidentVars
  <2>. QED
    BY <2>2, <2>3 DEF TypeOK
<1>. QED
  BY <1>1, <1>2

LEMMA UserKeepsTypes ==
    ASSUME TypeOK,
           \/ UpdateEndpoint
           \/ \E e \in Events : Redeliver(e) \/ Archive(e)
    PROVE  TypeOK'
<1>1. CASE UpdateEndpoint
  <2>1. incidents' \in 0..MaxIncidents
    BY <1>1, IncidentType DEF UpdateEndpoint
  <2>. QED
    BY <1>1, <2>1 DEF TypeOK, UpdateEndpoint, rowVars, eventVars
<1>2. ASSUME NEW e \in Events, Redeliver(e) PROVE TypeOK'
  <2>1. Fresh \in 0..MaxIncidents /\ incidents' \in 0..MaxIncidents
    BY <1>2, IncidentType DEF Redeliver
  <2>2. Job(e, Fresh, TRUE) \in Jobs
    BY <2>1, JobType
  <2>3. queue' \subseteq Jobs /\ repeated' \subseteq Events
    BY <1>2, <2>2 DEF TypeOK, Redeliver
  <2>4. UNCHANGED <<enabled, row, verdict, skipped, late, recorded, archived,
                    aged, unflushed, failures, running, tried, lost, unheard>>
    BY <1>2 DEF Redeliver, rowVars, eventVars
  <2>. QED
    BY <2>1, <2>3, <2>4 DEF TypeOK
<1>3. ASSUME NEW e \in Events, Archive(e) PROVE TypeOK'
  BY <1>3 DEF TypeOK, Archive, rowVars, eventVars, incidentVars
<1>. QED
  BY <1>1, <1>2, <1>3

LEMMA TypeStep == TypeOK /\ [Next]_vars => TypeOK'
<1>1. TypeOK /\ UNCHANGED vars => TypeOK'
  BY DEF TypeOK, vars, rowVars, eventVars, incidentVars
<1>2. TypeOK /\ Next => TypeOK'
  BY RequestsKeepTypes, BeginSendKeepsTypes, SendingKeepsTypes, FaultsKeepTypes,
     DoubleKeepsTypes, FailedKeepsTypes, UserKeepsTypes
     DEF Next, Requests, Work, Ageing, User, Faults
<1>. QED
  BY <1>1, <1>2

\* The state keeps its types; in particular no job is put back more often than
\* it may be retried (can_retry, Retries).
THEOREM TypeCorrect == Spec => []TypeOK
BY TypeInitially, TypeStep, PTL DEF Spec

----------------------------------------------------------------------------
(* No event is forgotten.  A job is used up only when its event is decided, *)
(* skipped or archived.  The two points of interest: a job on its last retry *)
(* never finds its event waiting for another one, because the pause before  *)
(* it outlasts the minute (Due), and a worker that writes no verdict has    *)
(* read one, which nobody takes back (Settled).                             *)

Settled ==
    \A t \in running :
        t.seen # "unknown" \/ t.at = "flushing" => verdict[t.job.event] # "unknown"

Pending(e) ==
    /\ e \in Stored \ (skipped \cup archived \cup unflushed \cup lost)
    /\ verdict[e] = "unknown"

KeepInv == TypeOK /\ Settled /\ \A e \in Events : Pending(e) => HasJob(e)

LEMMA KeepIsNothingForgotten == KeepInv => NothingForgotten
BY DEF KeepInv, Pending, HasJob, NothingForgotten, Stored

LEMMA KeepInitially == Init => KeepInv
BY TypeInitially DEF Init, KeepInv, Settled, Pending, Stored

LEMMA SavedIsDecided ==
    ASSUME TypeOK, Settled, NEW t \in running, NEW v \in Verdicts \ {"unknown"},
           SaveEvent(t, v)
    PROVE  /\ verdict'[t.job.event] # "unknown"
           /\ \A d \in Events : verdict[d] # "unknown" => verdict'[d] # "unknown"
           /\ \A d \in Events \ {t.job.event} :
                 verdict'[d] = verdict[d] /\ (d \in skipped <=> d \in skipped')
<1>1. t.job.event \in Events /\ verdict \in [Events -> Verdicts]
  BY TaskTypes DEF TypeOK
<1>2. CASE v = t.seen
  BY <1>1, <1>2 DEF SaveEvent, Settled
<1>3. CASE v # t.seen
  BY <1>1, <1>3 DEF SaveEvent
<1>. QED
  BY <1>2, <1>3

LEMMA Decided ==
    ASSUME TypeOK, Settled, NEW t \in running, EndSend(t)
    PROVE  /\ verdict'[t.job.event] # "unknown"
           /\ \A d \in Events : verdict[d] # "unknown" => verdict'[d] # "unknown"
           /\ \A d \in Events \ {t.job.event} :
                 verdict'[d] = verdict[d] /\ (d \in skipped <=> d \in skipped')
           /\ Moves(t, "flushing", t.outcome)
<1>1. CASE SaveAccepted(t)
  BY <1>1, SavedIsDecided DEF SaveAccepted, Verdicts
<1>2. CASE SaveUnresolved(t)
  BY <1>2, SavedIsDecided DEF SaveUnresolved, Verdicts
<1>3. CASE SaveRefused(t)
  BY <1>3, SavedIsDecided DEF SaveRefused, Verdicts
<1>. QED
  BY <1>1, <1>2, <1>3 DEF EndSend

LEMMA MovedJob ==
    ASSUME TypeOK, NEW t \in running, NEW at, NEW outcome, Moves(t, at, outcome)
    PROVE  \E u \in running' :
             /\ u.at = at /\ u.job = t.job /\ u.seen = t.seen
             /\ u.outcome = outcome
             /\ running' = (running \ {t}) \cup {u}
<1>1. t \in Tasks
  BY DEF TypeOK
<1>2. /\ [t EXCEPT !.at = at, !.outcome = outcome].at = at
      /\ [t EXCEPT !.at = at, !.outcome = outcome].outcome = outcome
  BY <1>1 DEF Tasks
<1>3. /\ [t EXCEPT !.at = at, !.outcome = outcome].job = t.job
      /\ [t EXCEPT !.at = at, !.outcome = outcome].seen = t.seen
  BY <1>1 DEF Tasks
<1>. QED
  BY <1>2, <1>3 DEF Moves

\* A job that is over: it is no longer handled, and reads nothing.
LEMMA OverJob ==
    ASSUME NEW at \in {"acking", "closing"}, NEW j
    PROVE  /\ Over(at, j).at = at /\ Over(at, j).job = j
           /\ Over(at, j).seen = "unknown" /\ Over(at, j).outcome = "none"
           /\ at \notin Sending
BY DEF Over, Sending

LEMMA OverKeeps ==
    ASSUME Settled, UNCHANGED verdict, NEW t \in running,
           NEW at \in {"acking", "closing"},
           Acknowledges(t, at) \/ running' = running \ {t}
    PROVE  /\ Settled'
           /\ \A e : Handled(e) /\ (t.at \in Sending => t.job.event # e) => Handled(e)'
<1>1. running \ {t} \subseteq running' /\ running' \subseteq running \cup {Over(at, t.job)}
  BY DEF Acknowledges
<1>. QED
  BY <1>1, OverJob DEF Settled, Handled

\* The requests, the user and the clock.
LEMMA RequestsKeep ==
    ASSUME KeepInv, NEW e \in Events,
           \/ CommitRequest(e) \/ RollBackRequest(e) \/ FlushRequest(e)
           \/ LoseJob(e) \/ Age(e) \/ Send(e) \/ Redeliver(e) \/ Archive(e)
           \/ UpdateEndpoint
    PROVE  Settled' /\ \A d \in Events : Pending(d)' => HasJob(d)'
<1>0. row \in [Events -> {"none", "open", "stored", "gone"}]
  BY DEF KeepInv, TypeOK
<1>1. running' = running /\ verdict' = verdict /\ skipped' = skipped
  BY DEF CommitRequest, RollBackRequest, FlushRequest, LoseJob, Age, Send,
         Redeliver, Archive, UpdateEndpoint, eventVars
<1>2. Settled'
  BY <1>1 DEF KeepInv, Settled
<1>3. Job(e, 0, FALSE).event = e
  BY DEF Job
<1>4. queue \subseteq queue' /\ archived \subseteq archived' /\ lost \subseteq lost'
  BY DEF CommitRequest, RollBackRequest, FlushRequest, LoseJob, Age, Send,
         Redeliver, Archive, UpdateEndpoint, eventVars
<1>5. ASSUME NEW d \in Events, Pending(d)' PROVE Pending(d) \/ HasJob(d)'
  <2>1. CASE CommitRequest(e)
    BY <1>0, <1>1, <1>5, <2>1 DEF Pending, Stored, CommitRequest
  <2>2. CASE RollBackRequest(e)
    BY <1>0, <1>1, <1>5, <2>2 DEF Pending, Stored, RollBackRequest
  <2>3. CASE FlushRequest(e)
    BY <1>1, <1>3, <1>5, <2>3 DEF Pending, Stored, FlushRequest, HasJob, rowVars
  <2>4. CASE LoseJob(e)
    BY <1>1, <1>5, <2>4 DEF Pending, Stored, LoseJob, rowVars
  <2>5. CASE Age(e) \/ Redeliver(e) \/ Archive(e) \/ UpdateEndpoint
    BY <1>1, <1>5, <2>5 DEF Pending, Stored, Age, Redeliver, Archive,
       UpdateEndpoint, rowVars
  <2>6. CASE Send(e)
    BY <1>0, <1>1, <1>5, <2>6 DEF Pending, Stored, Send
  <2>. QED
    BY <2>1, <2>2, <2>3, <2>4, <2>5, <2>6
<1>6. ASSUME NEW d \in Events, HasJob(d) PROVE HasJob(d)'
  BY <1>1, <1>4, <1>6 DEF HasJob, Handled
<1>. QED
  BY <1>2, <1>5, <1>6 DEF KeepInv

LEMMA BeginSendKeeps ==
    ASSUME KeepInv, NEW j \in queue, BeginSend(j)
    PROVE  Settled' /\ \A d \in Events : Pending(d)' => HasJob(d)'
<1>0. /\ j \in Jobs /\ j.event \in Events /\ j.retries \in 0..MaxRetries
      /\ row' = row /\ verdict' = verdict /\ archived' = archived
      /\ unflushed' = unflushed /\ lost' = lost
  BY DEF KeepInv, TypeOK, Jobs, BeginSend, rowVars
<1>1. /\ Task("posting", j).job = j /\ Task("posting", j).at = "posting"
      /\ Task("posting", j).seen = verdict[j.event]
  BY DEF Task
<1>2. running' = running \/ Begins("posting", j)
      \/ running' = running \cup {Over("acking", j)}
  BY DEF BeginSend
<1>3. Settled'
  BY <1>0, <1>1, <1>2, OverJob DEF KeepInv, Settled, Begins
<1>4. running \subseteq running' /\ queue \ {j} \subseteq queue'
      /\ skipped \subseteq skipped'
  BY <1>2 DEF BeginSend, Begins
<1>5. ASSUME j.retries < MaxRetries, queue' = (queue \ {j}) \cup Requeued(j)
      PROVE  HasJob(j.event)'
  <2>1. [j EXCEPT !.retries = @ + 1].event = j.event
    BY <1>0 DEF Jobs
  <2>. QED
    BY <1>5, <2>1 DEF Requeued, HasJob
<1>6. Blocked(j.event) => j.retries < MaxRetries
  <2>1. Blocked(j.event) => \E d \in 1..(j.event - 1) : d \notin aged
    BY <1>0, Constants DEF Blocked, Stored
  <2>2. j.retries = MaxRetries => \A d \in 1..(j.event - 1) : d \in aged
    BY DEF BeginSend, Due
  <2>. QED
    BY <1>0, <2>1, <2>2, Constants
<1>7. ASSUME NEW d \in Events, Pending(d)' PROVE HasJob(d)'
  <2>1. Pending(d) /\ d \in Stored /\ d \notin skipped' /\ d \notin archived
        /\ verdict[d] = "unknown"
    BY <1>0, <1>4, <1>7 DEF Pending, Stored
  <2>2. CASE d # j.event
    BY <1>4, <2>1, <2>2 DEF KeepInv, HasJob, Handled
  <2>3. CASE d = j.event
    <3>1. d \in Stored /\ d \notin archived /\ ~HasSucceeded(j)
      BY <2>1, <2>3 DEF HasSucceeded
    <3>2. \/ Blocked(j.event) /\ queue' = (queue \ {j}) \cup Requeued(j)
          \/ Begins("posting", j)
      BY <2>1, <2>3, <3>1 DEF BeginSend
    <3>3. CASE Begins("posting", j)
      BY <1>1, <2>3, <3>3 DEF Begins, HasJob, Handled, Sending
    <3>. QED
      BY <1>5, <1>6, <2>3, <3>2, <3>3
  <2>. QED
    BY <2>2, <2>3
<1>. QED
  BY <1>3, <1>7

LEMMA SendingKeeps ==
    ASSUME KeepInv, NEW t \in running,
           \/ \E outcome \in Outcomes \ {"none"} : Answer(t, outcome)
           \/ AnswerAndRetry(t) \/ EndSend(t) \/ FlushSend(t) \/ Ack(t)
    PROVE  Settled' /\ \A d \in Events : Pending(d)' => HasJob(d)'
<1>0. /\ TypeOK /\ Settled /\ t.job \in Jobs /\ t.job.event \in Events
      /\ \A u \in running : u.job.event \in Events
      /\ \A d \in Events : Pending(d) => HasJob(d)
  BY TaskTypes DEF KeepInv
<1>1. ASSUME NEW outcome \in Outcomes \ {"none"}, Answer(t, outcome)
      PROVE  Settled' /\ \A d \in Events : Pending(d)' => HasJob(d)'
  <2>1. PICK u \in running' :
          /\ u.at = "saving" /\ u.job = t.job /\ u.seen = t.seen
          /\ running' = (running \ {t}) \cup {u}
    BY <1>0, <1>1, MovedJob DEF Answer
  <2>2. UNCHANGED <<row, verdict, skipped, archived, unflushed, lost, queue>>
    BY <1>1 DEF Answer, rowVars, eventVars
  <2>3. \A d \in Events : Pending(d)' => Pending(d)
    BY <2>2 DEF Pending, Stored
  <2>4. \A d \in Events : HasJob(d) => HasJob(d)'
    BY <2>1, <2>2 DEF HasJob, Handled, Sending
  <2>5. Settled'
    BY <1>0, <2>1, <2>2 DEF Settled
  <2>. QED
    BY <1>0, <2>3, <2>4, <2>5
<1>2. CASE AnswerAndRetry(t)
  <2>1. UNCHANGED <<row, verdict, skipped, archived, unflushed, lost>>
    BY <1>2 DEF AnswerAndRetry, rowVars, eventVars
  <2>2. /\ Acknowledges(t, "acking") /\ queue \subseteq queue'
        /\ \E j \in queue' : j.event = t.job.event
    <3>1. [t.job EXCEPT !.retries = @ + 1].event = t.job.event
      BY <1>0 DEF Jobs
    <3>. QED
      BY <1>2, <3>1 DEF AnswerAndRetry, Requeued
  <2>3. \A d \in Events : Pending(d)' => Pending(d)
    BY <2>1 DEF Pending, Stored
  <2>5. /\ Settled'
        /\ \A d : Handled(d) /\ d # t.job.event => Handled(d)'
    BY <1>0, <2>1, <2>2, OverKeeps
  <2>4. \A d \in Events : HasJob(d) => HasJob(d)'
    BY <2>2, <2>5 DEF HasJob
  <2>. QED
    BY <1>0, <2>3, <2>4, <2>5
<1>3. CASE EndSend(t)
  <2>1. /\ verdict'[t.job.event] # "unknown"
        /\ \A d \in Events : verdict[d] # "unknown" => verdict'[d] # "unknown"
        /\ \A d \in Events \ {t.job.event} :
              verdict'[d] = verdict[d] /\ (d \in skipped <=> d \in skipped')
        /\ Moves(t, "flushing", t.outcome)
    BY <1>0, <1>3, Decided
  <2>2. PICK u \in running' :
          /\ u.at = "flushing" /\ u.job = t.job /\ u.seen = t.seen
          /\ running' = (running \ {t}) \cup {u}
    BY <1>0, <2>1, MovedJob
  <2>3. UNCHANGED <<row, archived, unflushed, lost, queue>>
    BY <1>3 DEF EndSend, rowVars
  <2>4. \A d \in Events : Pending(d)' => Pending(d) /\ d # t.job.event
    BY <2>1, <2>3 DEF Pending, Stored
  <2>5. \A d \in Events : HasJob(d) => HasJob(d)'
    BY <2>2, <2>3 DEF HasJob, Handled, Sending
  <2>6. Settled'
    BY <1>0, <2>1, <2>2 DEF Settled
  <2>. QED
    BY <1>0, <2>4, <2>5, <2>6
<1>4. CASE FlushSend(t)
  <2>1. UNCHANGED <<row, verdict, skipped, archived, unflushed, lost, queue>>
    BY <1>4 DEF FlushSend, rowVars, eventVars
  <2>2. Acknowledges(t, "acking") /\ verdict[t.job.event] # "unknown"
    BY <1>0, <1>4 DEF FlushSend, Settled
  <2>3. \A d \in Events : Pending(d)' => Pending(d) /\ d # t.job.event
    BY <2>1, <2>2 DEF Pending, Stored
  <2>4. /\ Settled'
        /\ \A d : Handled(d) /\ d # t.job.event => Handled(d)'
    BY <1>0, <2>1, <2>2, OverKeeps
  <2>5. \A d \in Events : HasJob(d) /\ d # t.job.event => HasJob(d)'
    BY <2>1, <2>4 DEF HasJob
  <2>. QED
    BY <1>0, <2>3, <2>4, <2>5
<1>5. CASE Ack(t)
  <2>1. /\ UNCHANGED <<row, verdict, skipped, archived, unflushed, lost, queue>>
        /\ running' = running \ {t} /\ t.at \notin Sending
    BY <1>5 DEF Ack, rowVars, eventVars, Sending
  <2>2. \A d \in Events : Pending(d)' => Pending(d)
    BY <2>1 DEF Pending, Stored
  <2>3. Settled' /\ \A d : Handled(d) => Handled(d)'
    BY <1>0, <2>1, OverKeeps
  <2>4. \A d \in Events : HasJob(d) => HasJob(d)'
    BY <2>1, <2>3 DEF HasJob
  <2>. QED
    BY <1>0, <2>2, <2>3, <2>4
<1>. QED
  BY <1>1, <1>2, <1>3, <1>4, <1>5

LEMMA FaultsKeep ==
    ASSUME KeepInv, NEW t \in running, Break(t) \/ Crash(t)
    PROVE  Settled' /\ \A d \in Events : Pending(d)' => HasJob(d)'
<1>0. /\ Settled /\ t.job \in Jobs /\ t.job.retries \in 0..MaxRetries
      /\ \A d \in Events : Pending(d) => HasJob(d)
  BY TaskTypes DEF KeepInv
<1>1. /\ UNCHANGED <<row, verdict, skipped, archived, unflushed>>
      /\ queue \subseteq queue' /\ lost \subseteq lost'
  BY DEF Break, Crash, rowVars, eventVars
<1>2. Settled' /\ \A e : Handled(e) /\ (t.at \in Sending => t.job.event # e) => Handled(e)'
  <2>1. Acknowledges(t, "acking") \/ running' = running \ {t}
    BY DEF Break, Crash
  <2>. QED
    BY <1>0, <1>1, <2>1, OverKeeps
<1>3. t.at \in Sending =>
        t.job.event \in lost' \/ \E j \in queue' : j.event = t.job.event
  <2>1. CASE Break(t)
    <3>1. [t.job EXCEPT !.retries = @ + 1].event = t.job.event
      BY <1>0 DEF Jobs
    <3>2. CASE t.job.retries < MaxRetries
      BY <2>1, <3>1, <3>2 DEF Break, Requeued
    <3>3. CASE t.job.retries = MaxRetries
      BY <2>1, <3>3 DEF Break
    <3>. QED
      BY <1>0, <3>2, <3>3, Constants
  <2>2. CASE Crash(t)
    BY <2>2 DEF Crash, GivenBack, Sending
  <2>. QED
    BY <2>1, <2>2
<1>4. ASSUME NEW d \in Events, Pending(d)' PROVE HasJob(d)'
  <2>1. Pending(d) /\ d \notin lost'
    BY <1>1, <1>4 DEF Pending, Stored
  <2>2. HasJob(d)
    BY <1>0, <2>1
  <2>. QED
    BY <1>1, <1>2, <1>3, <2>1, <2>2 DEF HasJob
<1>. QED
  BY <1>2, <1>4

LEMMA FailedKeeps ==
    ASSUME KeepInv,
           \/ \E j \in failures : BeginFailed(j)
           \/ \E t \in running : Disable(t) \/ BreakFailed(t)
           \/ \E j \in Unacknowledged : Double(j)
           \/ \E j \in failures : DropFailed(j)
    PROVE  Settled' /\ \A d \in Events : Pending(d)' => HasJob(d)'
<1>0. Settled /\ \A d \in Events : Pending(d) => HasJob(d)
  BY DEF KeepInv
<1>1. ASSUME NEW j \in failures, BeginFailed(j)
      PROVE  Settled' /\ \A d \in Events : Pending(d)' => HasJob(d)'
  <2>1. UNCHANGED <<row, verdict, skipped, archived, unflushed, lost, queue>>
    BY <1>1 DEF BeginFailed, rowVars, eventVars
  <2>2. running' = running \/ Begins("disabling", j)
    BY <1>1 DEF BeginFailed
  <2>3. /\ Task("disabling", j).job = j /\ Task("disabling", j).at = "disabling"
        /\ Task("disabling", j).seen = verdict[j.event]
    BY DEF Task
  <2>4. Settled'
    BY <1>0, <2>1, <2>2, <2>3 DEF Settled, Begins
  <2>5. \A d \in Events : HasJob(d) => HasJob(d)'
    BY <2>1, <2>2 DEF HasJob, Handled, Begins
  <2>6. \A d \in Events : Pending(d)' => Pending(d)
    BY <2>1 DEF Pending, Stored
  <2>. QED
    BY <1>0, <2>4, <2>5, <2>6
<1>2. ASSUME NEW t \in running, Disable(t) \/ BreakFailed(t)
      PROVE  Settled' /\ \A d \in Events : Pending(d)' => HasJob(d)'
  <2>1. /\ UNCHANGED <<row, verdict, archived, unflushed, lost, queue>>
        /\ Acknowledges(t, "closing") /\ t.at \notin Sending
        /\ skipped \subseteq skipped'
    BY <1>2 DEF Disable, BreakFailed, rowVars, eventVars, Sending
  <2>2. Settled' /\ \A d : Handled(d) => Handled(d)'
    BY <1>0, <2>1, OverKeeps
  <2>3. \A d \in Events : HasJob(d) => HasJob(d)'
    BY <2>1, <2>2 DEF HasJob
  <2>4. \A d \in Events : Pending(d)' => Pending(d)
    BY <2>1 DEF Pending, Stored
  <2>. QED
    BY <1>0, <2>2, <2>3, <2>4
<1>3. ASSUME (\E j \in Unacknowledged : Double(j)) \/ \E j \in failures : DropFailed(j)
      PROVE  Settled' /\ \A d \in Events : Pending(d)' => HasJob(d)'
  <2>1. /\ UNCHANGED <<row, verdict, skipped, archived, unflushed, lost, running>>
        /\ queue \subseteq queue'
    BY <1>3 DEF Double, DropFailed, rowVars, eventVars
  <2>2. Settled'
    BY <1>0, <2>1 DEF Settled
  <2>3. \A d \in Events : HasJob(d) => HasJob(d)'
    BY <2>1 DEF HasJob, Handled
  <2>4. \A d \in Events : Pending(d)' => Pending(d)
    BY <2>1 DEF Pending, Stored
  <2>. QED
    BY <1>0, <2>2, <2>3, <2>4
<1>. QED
  BY <1>1, <1>2, <1>3

LEMMA KeepStep == KeepInv /\ [Next]_vars => KeepInv'
<1>1. KeepInv /\ UNCHANGED vars => KeepInv'
  BY TypeStep DEF KeepInv, Settled, Pending, HasJob, Handled, Stored, vars,
     rowVars, eventVars
<1>2. KeepInv /\ Next =>
        Settled' /\ \A d \in Events : Pending(d)' => HasJob(d)'
  <2>. SUFFICES ASSUME KeepInv, Next
                PROVE  Settled' /\ \A d \in Events : Pending(d)' => HasJob(d)'
    OBVIOUS
  <2>1. CASE Requests
    BY <2>1, RequestsKeep DEF Requests
  <2>2. CASE Work
    BY <2>2, BeginSendKeeps, SendingKeeps, FailedKeeps DEF Work
  <2>3. CASE Ageing
    BY <2>3, RequestsKeep DEF Ageing
  <2>4. CASE UpdateEndpoint /\ Events = {}
    BY <2>4 DEF KeepInv, Settled, UpdateEndpoint, eventVars
  <2>5. CASE User
    BY <2>4, <2>5, RequestsKeep DEF User
  <2>6. CASE Faults
    BY <2>6, RequestsKeep, FaultsKeep, FailedKeeps DEF Faults
  <2>7. CASE \E e \in Events : Archive(e)
    BY <2>7, RequestsKeep
  <2>. QED
    BY <2>1, <2>2, <2>3, <2>5, <2>6, <2>7 DEF Next
<1>. QED
  BY <1>1, <1>2, TypeStep DEF KeepInv

\* An event that is neither decided nor skipped nor archived still has a job,
\* unless one was lost before its flush or broke at its last retry: retries,
\* waiting and crashes never use the job up (_webhook_event_send, Retry).
THEOREM NoEventForgotten == Spec => []NothingForgotten
<1>1. Spec => []KeepInv
  BY KeepInitially, KeepStep, PTL DEF Spec
<1>. QED
  BY <1>1, KeepIsNothingForgotten, PTL

----------------------------------------------------------------------------
(* First attempts come in order.  What has been let through found every     *)
(* earlier event either tried (a delivery is recorded after its first       *)
(* attempt) or more than a minute old; an earlier event that is committed   *)
(* later is late.                                                           *)

Tried == {tried[i] : i \in DOMAIN tried}

SendsStored == \A t \in running : t.at \in Sending => row[t.job.event] = "stored"

AnsweredIsTried ==
    /\ recorded \subseteq Tried
    /\ \A t \in running : t.at \in {"saving", "flushing"} => t.job.event \in Tried

EarlierFirst ==
    \A e \in Events : LetThrough(e) =>
        \A d \in Stored : d < e => d \in aged \cup late \cup Tried

OrderInv == TypeOK /\ SendsStored /\ AnsweredIsTried /\ EarlierFirst /\ InOrder

LEMMA OrderInitially == Init => OrderInv
<1>. SUFFICES ASSUME Init PROVE OrderInv
  OBVIOUS
<1>1. running = {} /\ recorded = {} /\ tried = << >>
  BY DEF Init
<1>2. SendsStored /\ AnsweredIsTried /\ InOrder
  BY <1>1 DEF SendsStored, AnsweredIsTried, InOrder
<1>3. EarlierFirst
  BY <1>1 DEF EarlierFirst, LetThrough, Handled
<1>. QED
  BY <1>2, <1>3, TypeInitially DEF OrderInv

\* A step after which the sending tasks are some of those before, or ones that
\* have moved on with the same job.
OldTasks ==
    \A u \in running' : u.at \in Sending =>
        \E t \in running :
            /\ t.at \in Sending /\ t.job = u.job
            /\ u.at \in {"saving", "flushing"} =>
                  t.at \in {"saving", "flushing"} \/ u.job.event \in Tried'

\* Nobody is let through, and what is committed too late is late.
LEMMA OrderStays ==
    ASSUME OrderInv, OldTasks,
           Tried \subseteq Tried', Tried' \subseteq Tried \cup {e \in Events : Handled(e)},
           recorded' \subseteq recorded \cup Tried',
           aged \subseteq aged', late \subseteq late',
           \A d \in Stored : row'[d] = "stored",
           \A d \in Events : row'[d] = "stored" =>
               d \in Stored \/ d \in late' \/ \A e \in Events : d < e => ~LetThrough(e)
    PROVE  SendsStored' /\ AnsweredIsTried' /\ EarlierFirst'
<1>1. SendsStored'
  <2>. SUFFICES ASSUME NEW u \in running', u.at \in Sending
                PROVE  row'[u.job.event] = "stored"
    BY DEF SendsStored
  <2>1. PICK t \in running : t.at \in Sending /\ t.job = u.job
    BY DEF OldTasks
  <2>2. t.job.event \in Stored
    BY <2>1, TaskTypes DEF OrderInv, SendsStored, Stored
  <2>. QED
    BY <2>1, <2>2
<1>2. AnsweredIsTried'
  <2>1. recorded' \subseteq Tried'
    BY DEF OrderInv, AnsweredIsTried
  <2>2. ASSUME NEW u \in running', u.at \in {"saving", "flushing"}
        PROVE  u.job.event \in Tried'
    <3>1. PICK t \in running :
            t.job = u.job /\ (t.at \in {"saving", "flushing"} \/ u.job.event \in Tried')
      BY <2>2 DEF OldTasks, Sending
    <3>. QED
      BY <3>1 DEF OrderInv, AnsweredIsTried
  <2>. QED
    BY <2>1, <2>2 DEF AnsweredIsTried
<1>3. \A e \in Events : LetThrough(e)' => LetThrough(e)
  <2>. SUFFICES ASSUME NEW e \in Events, LetThrough(e)' PROVE LetThrough(e)
    OBVIOUS
  <2>1. e \in Tried' \/ \E u \in running' : u.at \in Sending /\ u.job.event = e
    BY DEF LetThrough, Handled, Tried
  <2>2. e \in Tried' => LetThrough(e)
    BY DEF LetThrough, Tried
  <2>3. (\E u \in running' : u.at \in Sending /\ u.job.event = e) => LetThrough(e)
    BY DEF OldTasks, LetThrough, Handled
  <2>. QED
    BY <2>1, <2>2, <2>3
<1>4. EarlierFirst'
  <2>. SUFFICES ASSUME NEW e \in Events, LetThrough(e)',
                       NEW d \in Events, row'[d] = "stored", d < e
                PROVE  d \in aged' \cup late' \cup Tried'
    BY DEF EarlierFirst, Stored
  <2>1. LetThrough(e)
    BY <1>3
  <2>2. d \in Stored \/ d \in late'
    BY <2>1
  <2>3. d \in Stored => d \in aged \cup late \cup Tried
    BY <2>1 DEF OrderInv, EarlierFirst
  <2>. QED
    BY <2>2, <2>3
<1>. QED
  BY <1>1, <1>2, <1>4

LEMMA InOrderStays ==
    ASSUME InOrder, UNCHANGED tried, aged \subseteq aged', late \subseteq late'
    PROVE  InOrder' /\ Tried' = Tried
BY DEF InOrder, Tried

\* The first attempt at an event: later ones that were tried before had found
\* it old, or it was late.
LEMMA InOrderTried ==
    ASSUME OrderInv, NEW t \in running, t.at = "posting", Tries(t.job.event),
           UNCHANGED <<aged, late>>
    PROVE  InOrder' /\ Tried' = Tried \cup {t.job.event}
<1>. DEFINE e == t.job.event
<1>0. e \in Events /\ tried \in Seq(Events)
  BY TaskTypes DEF OrderInv, TypeOK
<1>1. CASE \E i \in DOMAIN tried : tried[i] = e
  <2>1. tried' = tried /\ e \in Tried
    BY <1>1 DEF Tries, Tried
  <2>. QED
    BY <2>1 DEF OrderInv, InOrder, Tried
<1>2. CASE \A i \in DOMAIN tried : tried[i] # e
  <2>1. /\ tried' = Append(tried, e)
        /\ DOMAIN tried' = 1..(Len(tried) + 1) /\ DOMAIN tried = 1..Len(tried)
        /\ Len(tried) \in Nat
        /\ tried'[Len(tried) + 1] = e
        /\ \A i \in DOMAIN tried : tried'[i] = tried[i] /\ tried[i] \in Events
    BY <1>0, <1>2 DEF Tries
  <2>2. e \in Stored /\ e \notin Tried
    BY <1>0, <1>2 DEF OrderInv, SendsStored, Stored, Tried, Sending
  <2>3. ASSUME NEW i \in DOMAIN tried, e < tried[i]
        PROVE  e \in aged \cup late
    <3>1. LetThrough(tried[i]) /\ tried[i] \in Events
      BY <2>1, <2>3 DEF LetThrough
    <3>. QED
      BY <2>2, <2>3, <3>1 DEF OrderInv, EarlierFirst
  <2>4. InOrder'
    <3>. SUFFICES ASSUME NEW i \in DOMAIN tried', NEW k \in DOMAIN tried',
                         i < k, tried'[k] < tried'[i]
                  PROVE  tried'[k] \in aged \cup late
      BY DEF InOrder
    <3>1. i \in DOMAIN tried
      BY <2>1
    <3>2. CASE k \in DOMAIN tried
      BY <2>1, <3>1, <3>2 DEF OrderInv, InOrder
    <3>3. CASE k = Len(tried) + 1
      BY <2>1, <2>3, <3>1, <3>3
    <3>. QED
      BY <2>1, <3>2, <3>3
  <2>5. Tried' = Tried \cup {e}
    BY <2>1 DEF Tried
  <2>. QED
    BY <2>4, <2>5
<1>. QED
  BY <1>1, <1>2

\* The requests, the user and the clock.
LEMMA OrderRequests ==
    ASSUME OrderInv, NEW e \in Events,
           \/ CommitRequest(e) \/ RollBackRequest(e) \/ FlushRequest(e)
           \/ LoseJob(e) \/ Age(e) \/ Send(e) \/ Redeliver(e) \/ Archive(e)
           \/ UpdateEndpoint
    PROVE  SendsStored' /\ AnsweredIsTried' /\ EarlierFirst' /\ InOrder'
<1>0. row \in [Events -> {"none", "open", "stored", "gone"}]
  BY DEF OrderInv, TypeOK
<1>1. UNCHANGED <<running, tried, recorded>>
  BY DEF CommitRequest, RollBackRequest, FlushRequest, LoseJob, Age, Send,
         Redeliver, Archive, UpdateEndpoint, eventVars
<1>2. aged \subseteq aged' /\ late \subseteq late'
  BY DEF CommitRequest, RollBackRequest, FlushRequest, LoseJob, Age, Send,
         Redeliver, Archive, UpdateEndpoint, rowVars
<1>3. InOrder' /\ Tried' = Tried
  BY <1>1, <1>2, InOrderStays DEF OrderInv
<1>4. OldTasks
  BY <1>1 DEF OldTasks
<1>5. CASE CommitRequest(e)
  <2>1. row[e] = "open" /\ row' = [row EXCEPT ![e] = "stored"]
        /\ late' = IF \E f \in Events : e < f /\ LetThrough(f)
                   THEN late \cup {e} ELSE late
    BY <1>5 DEF CommitRequest
  <2>2. \A d \in Stored : row'[d] = "stored"
    BY <1>0, <2>1 DEF Stored
  <2>3. \A d \in Events : row'[d] = "stored" => d \in Stored \/ d = e
    BY <1>0, <2>1 DEF Stored
  <2>4. e \in late' \/ \A f \in Events : e < f => ~LetThrough(f)
    BY <2>1
  <2>. QED
    BY <1>1, <1>2, <1>3, <1>4, <2>2, <2>3, <2>4, OrderStays
<1>6. CASE ~CommitRequest(e)
  <2>1. \/ UNCHANGED row
        \/ row' = [row EXCEPT ![e] = "open"] /\ row[e] = "none"
        \/ row' = [row EXCEPT ![e] = "gone"] /\ row[e] = "open"
    BY <1>6 DEF RollBackRequest, FlushRequest, LoseJob, Age, Send,
         Redeliver, Archive, UpdateEndpoint, rowVars
  <2>2. \A d \in Events : row'[d] = "stored" <=> d \in Stored
    BY <1>0, <2>1 DEF Stored
  <2>. QED
    BY <1>1, <1>2, <1>3, <1>4, <2>2, OrderStays DEF Stored
<1>. QED
  BY <1>5, <1>6

LEMMA OrderBeginSend ==
    ASSUME OrderInv, NEW j \in queue, BeginSend(j)
    PROVE  SendsStored' /\ AnsweredIsTried' /\ EarlierFirst' /\ InOrder'
<1>0. /\ j.event \in Events
      /\ UNCHANGED <<row, late, tried, recorded, aged>>
  BY DEF OrderInv, TypeOK, Jobs, BeginSend, rowVars
<1>1. InOrder' /\ Tried' = Tried
  BY <1>0, InOrderStays DEF OrderInv
<1>2. CASE UNCHANGED running \/ running' = running \cup {Over("acking", j)}
  <2>1. OldTasks
    BY <1>2, OverJob DEF OldTasks
  <2>. QED
    BY <1>0, <1>1, <2>1, OrderStays DEF Stored
<1>3. CASE ~(UNCHANGED running \/ running' = running \cup {Over("acking", j)})
  <2>. DEFINE u == Task("posting", j)
  <2>1. /\ j.event \in Stored /\ ~Blocked(j.event)
        /\ running' = running \cup {u}
    BY <1>3 DEF BeginSend, Begins
  <2>2. u.at = "posting" /\ u.job = j
    BY DEF Task
  <2>. HIDE DEF u
  <2>3. SendsStored'
    BY <1>0, <2>1, <2>2 DEF OrderInv, SendsStored, Stored, Sending
  <2>4. AnsweredIsTried'
    BY <1>0, <1>1, <2>1, <2>2 DEF OrderInv, AnsweredIsTried
  <2>5. \A d \in Stored : d < j.event => d \in aged \cup Tried
    BY <2>1 DEF Blocked, OrderInv, AnsweredIsTried
  <2>6. \A e \in Events : LetThrough(e)' => LetThrough(e) \/ e = j.event
    BY <1>0, <2>1, <2>2 DEF LetThrough, Handled
  <2>7. Stored' = Stored
    BY <1>0 DEF Stored
  <2>8. EarlierFirst'
    BY <1>0, <1>1, <2>5, <2>6, <2>7 DEF OrderInv, EarlierFirst
  <2>. QED
    BY <1>1, <2>3, <2>4, <2>8
<1>. QED
  BY <1>2, <1>3

LEMMA OrderSending ==
    ASSUME OrderInv, NEW t \in running,
           \/ \E outcome \in Outcomes \ {"none"} : Answer(t, outcome)
           \/ AnswerAndRetry(t) \/ EndSend(t) \/ FlushSend(t) \/ Ack(t)
           \/ Break(t) \/ Crash(t) \/ Disable(t) \/ BreakFailed(t)
    PROVE  SendsStored' /\ AnsweredIsTried' /\ EarlierFirst' /\ InOrder'
<1>. DEFINE e == t.job.event
<1>0. TypeOK /\ e \in Events
  BY TaskTypes DEF OrderInv
<1>1. UNCHANGED <<row, late, aged>>
  BY DEF Answer, AnswerAndRetry, EndSend, FlushSend, Ack, Break, Crash, Disable,
         BreakFailed, rowVars
<1>2. ASSUME Tried \subseteq Tried', OldTasks, recorded' \subseteq recorded \cup Tried',
             Tried' = Tried \/ (Tried' = Tried \cup {e} /\ t.at = "posting")
      PROVE  SendsStored' /\ AnsweredIsTried' /\ EarlierFirst'
  <2>1. t.at = "posting" => Handled(e)
    BY DEF Handled, Sending
  <2>2. Tried' \subseteq Tried \cup {d \in Events : Handled(d)}
    BY <1>0, <1>2, <2>1
  <2>3. /\ \A d \in Stored : row'[d] = "stored"
        /\ \A d \in Events : row'[d] = "stored" => d \in Stored
    BY <1>1 DEF Stored
  <2>. QED
    BY <1>1, <1>2, <2>2, <2>3, OrderStays
<1>3. ASSUME NEW outcome \in Outcomes \ {"none"}, Answer(t, outcome)
      PROVE  SendsStored' /\ AnsweredIsTried' /\ EarlierFirst' /\ InOrder'
  <2>1. PICK u \in running' :
          /\ u.at = "saving" /\ u.job = t.job
          /\ running' = (running \ {t}) \cup {u}
    BY <1>0, <1>3, MovedJob DEF Answer
  <2>2. t.at = "posting" /\ Tries(e) /\ recorded' = recorded
    BY <1>3 DEF Answer, eventVars
  <2>3. InOrder' /\ Tried' = Tried \cup {e}
    BY <1>1, <2>2, InOrderTried
  <2>4. OldTasks
    BY <2>1, <2>2, <2>3 DEF OldTasks, Sending
  <2>. QED
    BY <1>2, <2>2, <2>3, <2>4
<1>4. CASE AnswerAndRetry(t)
  <2>1. t.at = "posting" /\ Tries(e) /\ recorded' = recorded
        /\ running' = (running \ {t}) \cup {Over("acking", t.job)}
    BY <1>4 DEF AnswerAndRetry, eventVars, Acknowledges
  <2>2. InOrder' /\ Tried' = Tried \cup {e}
    BY <1>1, <2>1, InOrderTried
  <2>3. OldTasks
    BY <2>1, OverJob DEF OldTasks
  <2>. QED
    BY <1>2, <2>1, <2>2, <2>3
<1>5. CASE EndSend(t)
  <2>1. /\ t.at = "saving" /\ Moves(t, "flushing", t.outcome)
        /\ recorded' = recorded \cup {e} /\ UNCHANGED tried
    BY <1>5 DEF EndSend, SaveAccepted, SaveUnresolved, SaveRefused, SaveEvent
  <2>2. PICK u \in running' :
          /\ u.at = "flushing" /\ u.job = t.job
          /\ running' = (running \ {t}) \cup {u}
    BY <1>0, <2>1, MovedJob
  <2>3. InOrder' /\ Tried' = Tried
    BY <1>1, <2>1, InOrderStays DEF OrderInv
  <2>4. OldTasks
    BY <2>1, <2>2 DEF OldTasks, Sending
  <2>5. e \in Tried
    BY <2>1 DEF OrderInv, AnsweredIsTried
  <2>. QED
    BY <1>2, <2>1, <2>3, <2>4, <2>5
<1>6. CASE FlushSend(t) \/ Ack(t) \/ Break(t) \/ Crash(t) \/ Disable(t)
             \/ BreakFailed(t)
  <2>1. /\ \E at \in {"acking", "closing"} :
              Acknowledges(t, at) \/ running' = running \ {t}
        /\ UNCHANGED <<tried, recorded>>
    BY <1>6 DEF FlushSend, Ack, Break, Crash, Disable, BreakFailed, eventVars
  <2>2. InOrder' /\ Tried' = Tried
    BY <1>1, <2>1, InOrderStays DEF OrderInv
  <2>3. OldTasks
    BY <2>1, OverJob DEF OldTasks, Acknowledges
  <2>. QED
    BY <1>2, <2>1, <2>2, <2>3
<1>. QED
  BY <1>3, <1>4, <1>5, <1>6

LEMMA OrderCalm ==
    ASSUME OrderInv,
           \/ UNCHANGED vars
           \/ UpdateEndpoint
           \/ \E j \in failures : BeginFailed(j) \/ DropFailed(j)
           \/ \E j \in Unacknowledged : Double(j)
    PROVE  SendsStored' /\ AnsweredIsTried' /\ EarlierFirst' /\ InOrder'
<1>1. UNCHANGED <<row, late, aged, tried, recorded>>
  BY DEF vars, UpdateEndpoint, BeginFailed, DropFailed, Double, rowVars, eventVars
<1>2. OldTasks
  <2>1. ASSUME NEW j \in failures, BeginFailed(j) PROVE OldTasks
    <3>1. Task("disabling", j).at = "disabling"
      BY DEF Task
    <3>2. running' \subseteq running \cup {Task("disabling", j)}
      BY <2>1 DEF BeginFailed, Begins
    <3>. QED
      BY <3>1, <3>2 DEF OldTasks, Sending
  <2>2. CASE UNCHANGED running
    BY <2>2 DEF OldTasks
  <2>. QED
    BY <2>1, <2>2 DEF vars, UpdateEndpoint, DropFailed, Double
<1>3. InOrder' /\ Tried' = Tried
  BY <1>1, InOrderStays DEF OrderInv
<1>. QED
  BY <1>1, <1>2, <1>3, OrderStays DEF Stored

LEMMA OrderStep == OrderInv /\ [Next]_vars => OrderInv'
<1>. SUFFICES ASSUME OrderInv, [Next]_vars
              PROVE  SendsStored' /\ AnsweredIsTried' /\ EarlierFirst' /\ InOrder'
  BY TypeStep DEF OrderInv
<1>1. CASE Requests \/ Ageing \/ (\E e \in Events : Archive(e))
  BY <1>1, OrderRequests DEF Requests, Ageing
<1>2. CASE Work
  BY <1>2, OrderBeginSend, OrderSending, OrderCalm DEF Work
<1>3. CASE User
  BY <1>3, OrderRequests, OrderCalm DEF User
<1>4. CASE Faults
  BY <1>4, OrderRequests, OrderSending, OrderCalm DEF Faults
<1>. QED
  BY <1>1, <1>2, <1>3, <1>4, OrderCalm DEF Next

\* The events of the last minute are first tried in the order of their
\* creation, whatever is redelivered, retried or crashes, unless the earlier
\* one was committed after the later one was let through (is_latest_event).
THEOREM EventsInOrder == Spec => []InOrder
<1>1. Spec => []OrderInv
  BY OrderInitially, OrderStep, PTL DEF Spec
<1>2. OrderInv => InOrder
  BY DEF OrderInv
<1>. QED
  BY <1>1, <1>2, PTL

----------------------------------------------------------------------------
(* Delivered stays delivered.  The job of an event that was never repeated  *)
(* is in one place at a time (One): the copy of a retry takes over from the *)
(* job that is yet to be acknowledged.  So nobody can have read the verdict *)
(* before the delivery and write it after.                                  *)

Asked(e) == row[e] \in {"stored", "gone"} /\ e \notin unflushed

Carries(t, e) == t.at \in Sending /\ t.job.event = e

Owes(t, e) == t.at \in Sending \cup {"acking"} /\ t.job.event = e

One(e) ==
    /\ \A j \in queue : j.event = e => Asked(e) /\ ~j.redeliver
    /\ \A t \in running : Owes(t, e) => Asked(e) /\ ~t.job.redeliver
    /\ \A j, k \in queue : j.event = e /\ k.event = e => j = k
    /\ \A j \in queue, t \in running : j.event = e => ~Carries(t, e)
    /\ \A t, u \in running : Carries(t, e) /\ Carries(u, e) => t = u

OneJob ==
    /\ \A e \in unflushed : row[e] \in {"stored", "gone"}
    /\ \A e \in Events \ repeated : One(e)

Undelivered ==
    \A t \in running :
        t.at \in {"posting", "saving"} /\ t.job.event \notin repeated
            => verdict[t.job.event] # "succeeded"

FinalInv == TypeOK /\ OneJob /\ Undelivered

LEMMA FinalInitially == Init => FinalInv
<1>. SUFFICES ASSUME Init PROVE FinalInv
  OBVIOUS
<1>1. unflushed = {} /\ queue = {} /\ running = {}
  BY DEF Init
<1>2. OneJob /\ Undelivered
  BY <1>1 DEF OneJob, One, Undelivered
<1>. QED
  BY <1>2, TypeInitially DEF FinalInv

\* What a step leaves alone about the jobs of an event.
Spared(e) ==
    /\ Asked(e) => Asked(e)'
    /\ \A j \in queue' : j.event = e => j \in queue
    /\ \A t \in running' : Owes(t, e) => t \in running

LEMMA SparedIsOne ==
    ASSUME NEW e, One(e), Spared(e)
    PROVE  One(e)'
<1>1. \A t \in running' : Carries(t, e) => Owes(t, e) /\ t \in running
  BY DEF Carries, Owes, Spared
<1>2. \A j \in queue' : j.event = e => j \in queue /\ Asked(e)' /\ ~j.redeliver
  BY DEF One, Spared
<1>3. \A t \in running' : Owes(t, e) => Asked(e)' /\ ~t.job.redeliver
  BY DEF One, Spared
<1>4. \A j, k \in queue' : j.event = e /\ k.event = e => j = k
  BY <1>2 DEF One
<1>5. \A j \in queue', t \in running' : j.event = e => ~Carries(t, e)
  BY <1>1, <1>2 DEF One
<1>6. \A t, u \in running' : Carries(t, e) /\ Carries(u, e) => t = u
  BY <1>1 DEF One
<1>. QED
  BY <1>2, <1>3, <1>4, <1>5, <1>6 DEF One, Owes, Carries

LEMMA OneStays ==
    ASSUME OneJob, \A d \in unflushed' : row'[d] \in {"stored", "gone"},
           repeated \subseteq repeated',
           \A d \in Events \ repeated' : One(d)' \/ Spared(d)
    PROVE  OneJob'
<1>1. \A d \in Events \ repeated' : One(d)'
  BY SparedIsOne DEF OneJob
<1>. QED
  BY <1>1 DEF OneJob

\* A step that leaves the requests alone and neither takes, runs nor enqueues a
\* job of an event that is not repeated.
LEMMA FinalCalmStep ==
    ASSUME OneJob, Undelivered, UNCHANGED <<row, unflushed, verdict>>,
           repeated \subseteq repeated',
           \A j \in queue' \ queue : j.event \in repeated',
           \A t \in running' \ running : t.at \in {"disabling", "closing"}
    PROVE  OneJob' /\ Undelivered'
<1>1. \A d \in Events \ repeated' : Spared(d)
  BY DEF Spared, Asked, Owes, Sending
<1>2. \A d \in unflushed' : row'[d] \in {"stored", "gone"}
  BY DEF OneJob
<1>3. OneJob'
  BY <1>1, <1>2, OneStays
<1>4. Undelivered'
  BY DEF Undelivered
<1>. QED
  BY <1>3, <1>4

LEMMA RequeuedJob ==
    ASSUME NEW j \in Jobs
    PROVE  /\ \A k \in Requeued(j) : k.event = j.event /\ k.redeliver = j.redeliver
           /\ \A k, l \in Requeued(j) : k = l
<1>1. [j EXCEPT !.retries = @ + 1].event = j.event
      /\ [j EXCEPT !.retries = @ + 1].redeliver = j.redeliver
  BY DEF Jobs
<1>. QED
  BY <1>1 DEF Requeued

\* The requests, the user, the clock, and jobs the broker has twice.
LEMMA FinalRequests ==
    ASSUME TypeOK, OneJob, Undelivered, NEW e \in Events,
           CommitRequest(e) \/ RollBackRequest(e) \/ FlushRequest(e)
             \/ LoseJob(e) \/ Send(e)
    PROVE  OneJob' /\ Undelivered' /\ UNCHANGED verdict
<1>0. /\ row \in [Events -> {"none", "open", "stored", "gone"}]
      /\ unflushed \subseteq Events
  BY DEF TypeOK
<1>1. UNCHANGED <<running, verdict, repeated>>
  BY DEF CommitRequest, RollBackRequest, FlushRequest, LoseJob, Send, eventVars,
         incidentVars
<1>2. Undelivered'
  BY <1>1 DEF Undelivered
<1>3. CASE ~FlushRequest(e)
  <2>1. /\ queue' = queue
        /\ \/ /\ row[e] = "open" /\ unflushed' = unflushed \cup {e}
              /\ row'[e] \in {"stored", "gone"}
              /\ \A d \in Events \ {e} : row'[d] = row[d]
           \/ unflushed' \subseteq unflushed /\ UNCHANGED row
           \/ /\ row[e] = "none" /\ UNCHANGED unflushed
              /\ \A d \in Events \ {e} : row'[d] = row[d]
    BY <1>0, <1>3 DEF CommitRequest, RollBackRequest, LoseJob, Send, rowVars
  <2>2. \A d \in Events : Asked(d) => Asked(d)'
    BY <2>1 DEF Asked
  <2>3. \A d \in unflushed' : row'[d] \in {"stored", "gone"}
    BY <1>0, <2>1 DEF OneJob
  <2>4. \A d \in Events : Spared(d)
    BY <1>1, <2>1, <2>2 DEF Spared
  <2>. QED
    BY <1>1, <1>2, <2>3, <2>4, OneStays
<1>4. CASE FlushRequest(e)
  <2>1. /\ e \in unflushed /\ unflushed' = unflushed \ {e} /\ UNCHANGED row
        /\ queue' = queue \cup {Job(e, 0, FALSE)}
    BY <1>4 DEF FlushRequest, rowVars
  <2>2. Job(e, 0, FALSE).event = e /\ ~Job(e, 0, FALSE).redeliver
    BY DEF Job
  <2>3. /\ \A d \in Events \ {e} : Spared(d)
        /\ \A d \in unflushed' : row'[d] \in {"stored", "gone"}
    BY <1>1, <2>1, <2>2 DEF Spared, Asked, OneJob
  <2>4. ASSUME e \notin repeated PROVE One(e)'
    <3>1. (\A j \in queue : j.event # e) /\ \A t \in running : ~Owes(t, e)
      BY <2>1, <2>4 DEF OneJob, One, Asked
    <3>2. Asked(e)'
      BY <2>1 DEF OneJob, Asked
    <3>3. \A t \in running' : ~Owes(t, e) /\ ~Carries(t, e)
      BY <1>1, <3>1 DEF Owes, Carries
    <3>4. \A j \in queue' : j.event = e => j = Job(e, 0, FALSE)
      BY <2>1, <3>1
    <3>. QED
      BY <2>2, <3>2, <3>3, <3>4 DEF One, Owes, Carries
  <2>. QED
    BY <1>1, <1>2, <2>3, <2>4, OneStays
<1>. QED
  BY <1>3, <1>4

LEMMA FinalCalm ==
    ASSUME TypeOK, OneJob, Undelivered,
           \/ \E e \in Events : Age(e) \/ Redeliver(e) \/ Archive(e)
           \/ UpdateEndpoint
           \/ \E j \in failures : BeginFailed(j) \/ DropFailed(j)
           \/ \E j \in Unacknowledged : Double(j)
           \/ \E t \in running : Disable(t) \/ BreakFailed(t) \/ Ack(t)
           \/ UNCHANGED vars
    PROVE  OneJob' /\ Undelivered' /\ UNCHANGED verdict
<1>1. UNCHANGED <<row, unflushed, verdict>> /\ repeated \subseteq repeated'
  BY DEF Age, Redeliver, Archive, UpdateEndpoint, BeginFailed, DropFailed, Double,
         Disable, BreakFailed, Ack, vars, rowVars, eventVars, incidentVars
<1>. DEFINE Calm == /\ \A j \in queue' \ queue : j.event \in repeated'
                    /\ \A t \in running' \ running : t.at \in {"disabling", "closing"}
<1>2. ASSUME NEW j \in failures, BeginFailed(j) PROVE Calm
  <2>1. Task("disabling", j).at = "disabling"
    BY DEF Task
  <2>. QED
    BY <1>2, <2>1 DEF BeginFailed, Begins
<1>3. ASSUME NEW t \in running, Disable(t) \/ BreakFailed(t) \/ Ack(t) PROVE Calm
  BY <1>3, OverJob DEF Disable, BreakFailed, Ack, Acknowledges
<1>4. ASSUME NEW e \in Events, Redeliver(e) PROVE Calm
  <2>1. Job(e, Fresh, TRUE).event = e
    BY DEF Job
  <2>. QED
    BY <1>4, <2>1 DEF Redeliver
<1>5. ASSUME NEW k \in Unacknowledged, Double(k) PROVE Calm
  <2>1. k \in Jobs
    BY UnacknowledgedType
  <2>2. [k EXCEPT !.nr = Fresh].event = k.event
    BY <2>1 DEF Jobs
  <2>. QED
    BY <1>5, <2>2 DEF Double
<1>6. ASSUME UNCHANGED <<queue, running>> PROVE Calm
  BY <1>6
<1>7. Calm
  BY <1>2, <1>3, <1>4, <1>5, <1>6 DEF Age, Archive, UpdateEndpoint, DropFailed, vars
<1>. QED
  BY <1>1, <1>7, FinalCalmStep

LEMMA FinalBeginSend ==
    ASSUME TypeOK, OneJob, Undelivered, NEW j \in queue, BeginSend(j)
    PROVE  OneJob' /\ Undelivered' /\ UNCHANGED verdict
<1>. DEFINE e == j.event
            u == Task("posting", j)
            o == Over("acking", j)
<1>0. j \in Jobs /\ e \in Events
  BY DEF TypeOK, Jobs
<1>1. UNCHANGED <<row, unflushed, verdict, repeated>>
  BY DEF BeginSend, rowVars, incidentVars
<1>2. /\ u.at = "posting" /\ u.job = j
      /\ o.at = "acking" /\ o.job = j
  BY OverJob DEF Task
<1>. HIDE DEF u, o
<1>3. \/ running' \subseteq running \cup {o} /\ queue' \subseteq (queue \ {j}) \cup Requeued(j)
      \/ running' = running \cup {u} /\ queue' = queue \ {j} /\ ~HasSucceeded(j)
  BY DEF BeginSend, Begins, u, o
<1>4. \A k \in Requeued(j) : k.event = e /\ k.redeliver = j.redeliver
  BY <1>0, RequeuedJob
<1>5. \A d \in Events \ {e} : Spared(d)
  BY <1>1, <1>2, <1>3, <1>4 DEF Spared, Asked, Owes
<1>6. ASSUME e \notin repeated
      PROVE  /\ \A k \in queue \ {j} : k.event # e
             /\ \A t \in running : ~Carries(t, e)
             /\ \A t \in running : Owes(t, e) => ~t.job.redeliver
             /\ Asked(e)' /\ ~j.redeliver
  <2>1. One(e)
    BY <1>0, <1>6 DEF OneJob
  <2>. QED
    BY <1>1, <2>1 DEF One, Asked
<1>7. ASSUME e \notin repeated PROVE One(e)'
  <2>1. \A k \in queue' : k.event = e => k \in Requeued(j)
    BY <1>3, <1>6, <1>7
  <2>2. \A k, l \in queue' : k.event = e /\ l.event = e => k = l
    BY <1>0, <2>1, RequeuedJob
  <2>3. \A k \in queue' : k.event = e => Asked(e)' /\ ~k.redeliver
    BY <1>4, <1>6, <1>7, <2>1
  <2>4. \A t \in running' : Owes(t, e) => Asked(e)' /\ ~t.job.redeliver
    BY <1>2, <1>3, <1>6, <1>7
  <2>5. ~Carries(o, e)
    BY <1>2 DEF Carries, Sending
  <2>6. \A t \in running' : Carries(t, e) => t = u /\ queue' = queue \ {j}
    BY <1>3, <1>6, <1>7, <2>5
  <2>7. \A k \in queue', t \in running' : k.event = e => ~Carries(t, e)
    BY <1>6, <1>7, <2>6
  <2>8. \A t, v \in running' : Carries(t, e) /\ Carries(v, e) => t = v
    BY <2>6
  <2>. HIDE DEF e
  <2>. QED
    BY <2>2, <2>3, <2>4, <2>7, <2>8 DEF One, Owes, Carries
<1>8. \A d \in unflushed' : row'[d] \in {"stored", "gone"}
  BY <1>1 DEF OneJob
<1>9. OneJob'
  BY <1>1, <1>5, <1>7, <1>8, OneStays
<1>10. Undelivered'
  <2>. SUFFICES ASSUME NEW t \in running', t.at \in {"posting", "saving"},
                       t.job.event \notin repeated
                PROVE  verdict[t.job.event] # "succeeded"
    BY <1>1 DEF Undelivered
  <2>1. t \in running => verdict[t.job.event] # "succeeded"
    BY DEF Undelivered
  <2>2. t # o
    BY <1>2
  <2>3. CASE t = u /\ ~HasSucceeded(j)
    BY <1>2, <1>6, <2>3 DEF HasSucceeded
  <2>. QED
    BY <1>3, <2>1, <2>2, <2>3
<1>. QED
  BY <1>1, <1>9, <1>10

\* A task that goes on with its job, or leaves it or a copy to the queue.
Hands(t) ==
    \/ /\ t.at \in Sending
       /\ \/ /\ \E u \in running' :
                   /\ u.job = t.job /\ u.at # "posting"
                   /\ running' = (running \ {t}) \cup {u}
             /\ UNCHANGED queue
          \/ Acknowledges(t, "acking") /\ queue' \subseteq queue \cup Requeued(t.job)
          \/ running' = running \ {t} /\ queue' = queue \cup {t.job}
    \/ /\ t.at = "acking" /\ running' = running \ {t}
       /\ HasJob(t.job.event) => t.job.event \in repeated'
       /\ \E k : /\ k.event = t.job.event /\ k.redeliver = t.job.redeliver
                 /\ queue' = queue \cup {k}

LEMMA HandsOver ==
    ASSUME TypeOK, OneJob, NEW t \in running, UNCHANGED <<row, unflushed>>,
           repeated \subseteq repeated', Hands(t)
    PROVE  OneJob'
<1>. DEFINE e == t.job.event
<1>0. t.job \in Jobs /\ e \in Events
  BY TaskTypes
<1>1. \A k \in Requeued(t.job) : k.event = e /\ k.redeliver = t.job.redeliver
  BY <1>0, RequeuedJob
<1>2. Over("acking", t.job).job = t.job /\ Over("acking", t.job).at = "acking"
  BY OverJob
<1>3. /\ \A k \in queue' \ queue : k.event = e /\ k.redeliver = t.job.redeliver
      /\ \A u \in running' \ running : u.job = t.job
  BY <1>1, <1>2 DEF Hands, Acknowledges
<1>4. \A d \in Events \ {e} : Spared(d)
  BY <1>3 DEF Spared, Asked, Owes
<1>5. ASSUME e \in Events \ repeated' PROVE One(e)'
  <2>1. One(e)
    BY <1>5 DEF OneJob
  <2>2. Owes(t, e) /\ (t.at \in Sending => Carries(t, e))
    BY DEF Hands, Owes, Carries
  <2>3. /\ Asked(e)' /\ ~t.job.redeliver
        /\ \A k \in queue : k.event = e => ~k.redeliver
        /\ \A u \in running : Owes(u, e) => ~u.job.redeliver
    BY <2>1, <2>2 DEF One, Asked
  <2>4. /\ \A k \in queue : k.event # e
        /\ \A u \in running \ {t} : ~Carries(u, e)
    <3>1. CASE t.at \in Sending
      BY <2>1, <2>2, <3>1 DEF One
    <3>2. CASE t.at \notin Sending
      <4>1. ~HasJob(e)
        BY <1>5, <3>2 DEF Hands
      <4>. QED
        BY <4>1 DEF HasJob, Handled, Carries
    <3>. QED
      BY <3>1, <3>2
  <2>5. \A k \in queue' : k.event = e => Asked(e)' /\ ~k.redeliver
    BY <1>3, <2>3
  <2>6. \A u \in running' : Owes(u, e) => Asked(e)' /\ ~u.job.redeliver
    BY <1>3, <2>3
  <2>7. \A k, l \in queue' : k.event = e /\ l.event = e => k = l
    BY <1>0, <2>4, RequeuedJob DEF Hands
  <2>8. /\ \A k \in queue', u \in running' : k.event = e => ~Carries(u, e)
        /\ \A u, v \in running' : Carries(u, e) /\ Carries(v, e) => u = v
    <3>1. \/ (\A k \in queue' : k.event # e)
             /\ \E v \in running' : running' = (running \ {t}) \cup {v}
          \/ \A u \in running' : ~Carries(u, e)
      <4>1. ~Carries(Over("acking", t.job), e)
        BY <1>2 DEF Carries, Sending
      <4>. QED
        BY <2>4, <4>1 DEF Hands, Acknowledges
    <3>. QED
      BY <2>4, <3>1
  <2>. HIDE DEF e
  <2>. QED
    BY <2>5, <2>6, <2>7, <2>8 DEF One, Owes, Carries
<1>6. \A d \in unflushed' : row'[d] \in {"stored", "gone"}
  BY DEF OneJob
<1>. QED
  BY <1>4, <1>5, <1>6, OneStays

LEMMA FinalSending ==
    ASSUME TypeOK, OneJob, Undelivered, NEW t \in running,
           \/ \E outcome \in Outcomes \ {"none"} : Answer(t, outcome)
           \/ AnswerAndRetry(t) \/ FlushSend(t) \/ Break(t) \/ Crash(t)
    PROVE  OneJob' /\ Undelivered' /\ UNCHANGED verdict
<1>0. t.job \in Jobs /\ t \in Tasks
  BY TaskTypes
<1>1. UNCHANGED <<row, unflushed, verdict>> /\ repeated \subseteq repeated'
  BY DEF Answer, AnswerAndRetry, FlushSend, Break, Crash, rowVars, eventVars,
         incidentVars
<1>. DEFINE Later == \A u \in running' \ running :
                        u.at \in {"posting", "saving"} => t.at = "posting" /\ u.job = t.job
<1>2. ASSUME NEW outcome \in Outcomes \ {"none"}, Answer(t, outcome)
      PROVE  Hands(t) /\ Later
  <2>1. PICK u \in running' :
          u.at = "saving" /\ u.job = t.job /\ running' = (running \ {t}) \cup {u}
    BY <1>2, MovedJob DEF Answer
  <2>2. t.at = "posting" /\ UNCHANGED queue
    BY <1>2 DEF Answer
  <2>. QED
    BY <2>1, <2>2 DEF Hands, Sending
<1>3. CASE AnswerAndRetry(t) \/ FlushSend(t) \/ Break(t)
  <2>1. /\ Acknowledges(t, "acking") /\ queue' \subseteq queue \cup Requeued(t.job)
        /\ t.at \in Sending
    BY <1>3 DEF AnswerAndRetry, FlushSend, Break, Sending
  <2>2. running' \subseteq running \cup {Over("acking", t.job)}
    BY <2>1 DEF Acknowledges
  <2>3. Later
    BY <2>2, OverJob
  <2>. QED
    BY <1>1, <2>1, <2>3, HandsOver DEF Hands, Undelivered
<1>4. CASE Crash(t) /\ t.at \in {"disabling", "closing"}
  <2>1. running' \subseteq running /\ UNCHANGED queue
    BY <1>4 DEF Crash
  <2>. QED
    BY <1>1, <2>1, FinalCalmStep
<1>5. CASE Crash(t) /\ t.at \notin {"disabling", "closing"}
  <2>1. t.at \in Sending \cup {"acking"}
    BY <1>0, <1>5 DEF Tasks, Stages
  <2>2. running' = running \ {t} /\ queue' = queue \cup {GivenBack(t)}
    BY <1>5 DEF Crash
  <2>3. CASE t.at \in Sending
    <3>1. GivenBack(t) = t.job
      BY <2>3 DEF GivenBack, Sending
    <3>. QED
      BY <1>1, <2>2, <2>3, <3>1, HandsOver DEF Hands, Undelivered
  <2>4. CASE t.at = "acking"
    <3>1. GivenBack(t).event = t.job.event /\ GivenBack(t).redeliver = t.job.redeliver
      BY <1>0, <2>4 DEF GivenBack, Jobs
    <3>2. HasJob(t.job.event) => t.job.event \in repeated'
      BY <1>5, <2>4 DEF Crash
    <3>3. Hands(t)
      BY <2>2, <2>4, <3>1, <3>2 DEF Hands
    <3>. QED
      BY <1>1, <2>2, <3>3, HandsOver DEF Undelivered
  <2>. QED
    BY <2>1, <2>3, <2>4
<1>6. ASSUME Hands(t), Later PROVE OneJob' /\ Undelivered'
  BY <1>1, <1>6, HandsOver DEF Undelivered
<1>. QED
  BY <1>1, <1>2, <1>3, <1>4, <1>5, <1>6

LEMMA FinalEndSend ==
    ASSUME TypeOK, OneJob, Undelivered, NEW t \in running, EndSend(t)
    PROVE  /\ OneJob' /\ Undelivered'
           /\ \A d \in Events \ repeated :
                 verdict[d] = "succeeded" => verdict'[d] = "succeeded"
<1>. DEFINE e == t.job.event
<1>0. e \in Events /\ verdict \in [Events -> Verdicts]
  BY TaskTypes DEF TypeOK
<1>1. /\ t.at = "saving" /\ Moves(t, "flushing", t.outcome)
      /\ UNCHANGED <<queue, row, unflushed, repeated>>
      /\ \E v \in Verdicts : SaveEvent(t, v)
  BY DEF EndSend, SaveAccepted, SaveUnresolved, SaveRefused, Verdicts, rowVars,
         incidentVars
<1>2. PICK u \in running' :
        /\ u.at = "flushing" /\ u.job = t.job
        /\ running' = (running \ {t}) \cup {u}
  BY <1>1, MovedJob
<1>3. OneJob'
  BY <1>1, <1>2, HandsOver DEF Hands, Sending
<1>4. \A d \in Events \ {e} : verdict'[d] = verdict[d]
  BY <1>0, <1>1 DEF SaveEvent
<1>5. Undelivered'
  <2>. SUFFICES ASSUME NEW v \in running', v.at \in {"posting", "saving"},
                       v.job.event \notin repeated
                PROVE  verdict'[v.job.event] # "succeeded"
    BY <1>1 DEF Undelivered
  <2>1. v \in running \ {t} /\ v.job.event \in Events
    BY <1>2, TaskTypes
  <2>2. v.job.event # e
    BY <1>1, <2>1 DEF OneJob, One, Carries, Sending
  <2>. QED
    BY <1>4, <2>1, <2>2 DEF Undelivered
<1>6. e \notin repeated => verdict[e] # "succeeded"
  BY <1>1 DEF Undelivered
<1>. QED
  BY <1>3, <1>4, <1>5, <1>6

StaysDelivered ==
    \A e \in Events \ repeated :
        verdict[e] = "succeeded" => verdict'[e] = "succeeded"

LEMMA FinalStep == FinalInv /\ [Next]_vars => FinalInv' /\ StaysDelivered
<1>. SUFFICES ASSUME FinalInv, [Next]_vars
              PROVE  OneJob' /\ Undelivered' /\ StaysDelivered
  BY TypeStep DEF FinalInv
<1>0. TypeOK /\ OneJob /\ Undelivered
  BY DEF FinalInv
<1>1. UNCHANGED verdict => StaysDelivered
  BY DEF StaysDelivered
<1>2. CASE Requests \/ Ageing \/ (\E e \in Events : Archive(e)) \/ UNCHANGED vars
  BY <1>0, <1>1, <1>2, FinalRequests, FinalCalm DEF Requests, Ageing
<1>3. CASE \E t \in running : EndSend(t)
  BY <1>0, <1>3, FinalEndSend DEF StaysDelivered
<1>4. CASE Work
  BY <1>0, <1>1, <1>3, <1>4, FinalBeginSend, FinalSending, FinalCalm DEF Work
<1>5. CASE User
  BY <1>0, <1>1, <1>5, FinalRequests, FinalCalm DEF User
<1>6. CASE Faults
  BY <1>0, <1>1, <1>6, FinalRequests, FinalSending, FinalCalm DEF Faults
<1>. QED
  BY <1>2, <1>4, <1>5, <1>6 DEF Next

\* Nothing takes the delivery of an event back that was neither redelivered nor
\* twice in the broker, not even the second run of its job after its worker died
\* (_webhook_event_send, event.succeeded).
THEOREM DeliveredStays == Spec => SuccessIsFinal
<1>1. FinalInv /\ [Next]_vars => [StaysDelivered]_vars
  BY FinalStep
<1>2. Spec => [][StaysDelivered]_vars
  BY <1>1, FinalInitially, FinalStep, PTL DEF Spec
<1>. QED
  BY <1>2 DEF SuccessIsFinal, StaysDelivered

----------------------------------------------------------------------------
(* A streak is noticed.  One of its events is still on its way to           *)
(* webhook_event.failed: the last one to complete, whose job sees the whole *)
(* streak.                                                                  *)

OnItsWay(e) ==
    \/ \E j \in failures \cup queue : j.event = e
    \/ \E t \in running :
         /\ t.job.event = e
         /\ \/ t.at = "disabling"
            \/ t.at = "flushing" /\ t.outcome = "refused"
            \/ t.at \in {"posting", "saving"} /\ t.seen # "succeeded"

DecidedIsStored == \A e \in Events : verdict[e] # "unknown" => row[e] = "stored"

Alarm == enabled /\ Streak /\ Recent \cap (unheard \cup archived) = {}

Noticed == Alarm => \E e \in Recent : OnItsWay(e)

NoticeInv == KeepInv /\ OrderInv /\ DecidedIsStored /\ Noticed

LEMMA NoticeSuffices == NoticeInv => StreakIsNoticed
<1>. SUFFICES ASSUME NoticeInv, Alarm
              PROVE  \/ \E j \in failures \cup queue : j.event \in Completed
                     \/ \E e \in Completed : Handled(e)
                     \/ \E t \in running : t.at = "disabling"
  BY DEF StreakIsNoticed, Alarm
<1>1. PICK e \in Recent : OnItsWay(e)
  BY DEF NoticeInv, Noticed
<1>2. e \in Completed
  BY DEF Recent
<1>. QED
  BY <1>1, <1>2 DEF OnItsWay, Handled, Sending

LEMMA DecidedAreCompleted ==
    ASSUME DecidedIsStored
    PROVE  Completed = {e \in Events : verdict[e] # "unknown"}
BY DEF DecidedIsStored, Completed, Stored

Later(C, e) == {d \in C : e < d}
RecentOf(C) == {e \in C : Cardinality(Later(C, e)) < Threshold}

LEMMA RecentIs == Recent = RecentOf(Completed)
BY DEF Recent, RecentOf, Later

LEMMA LaterFinite ==
    ASSUME NEW C \in SUBSET Events, NEW e
    PROVE  IsFiniteSet(Later(C, e)) /\ Cardinality(Later(C, e)) \in Nat
<1>1. IsFiniteSet(Events)
  BY Constants, FS_Interval
<1>2. Later(C, e) \in SUBSET Events
  BY DEF Later
<1>3. IsFiniteSet(Later(C, e))
  BY <1>1, <1>2, FS_Subset
<1>. QED
  BY <1>3, FS_CardinalityType

\* An event that completes before the newest ones changes nothing about them.
LEMMA OldEvent ==
    ASSUME NEW C \in SUBSET Events, NEW e \in Events, e \notin RecentOf(C \cup {e})
    PROVE  RecentOf(C \cup {e}) = RecentOf(C)
<1>. DEFINE D == C \cup {e}
<1>0. D \in SUBSET Events /\ Threshold \in Nat /\ Events \subseteq Nat
  BY Constants
<1>1. ~(Cardinality(Later(D, e)) < Threshold)
  BY DEF RecentOf
<1>2. Later(D, e) = Later(C, e)
  BY <1>0 DEF Later
<1>3. ASSUME NEW d \in C, d # e
      PROVE  d \in RecentOf(D) <=> d \in RecentOf(C)
  <2>0. d \in Nat /\ e \in Nat
    BY <1>0
  <2>1. CASE e < d
    <3>1. Later(D, d) = Later(C, d)
      BY <2>0, <2>1 DEF Later
    <3>. QED
      BY <3>1 DEF RecentOf
  <2>2. CASE d < e
    <3>0. \A x \in D : e < x => d < x
      <4>1. \A x \in D : x \in Nat
        BY <1>0
      <4>. QED
        BY <2>0, <2>2, <4>1
    <3>1. Later(C, e) \in SUBSET Later(C, d) /\ Later(D, e) \in SUBSET Later(D, d)
      BY <3>0 DEF Later
    <3>f. IsFiniteSet(Later(C, d)) /\ IsFiniteSet(Later(D, d))
      BY <1>0, LaterFinite
    <3>2. /\ Cardinality(Later(C, e)) <= Cardinality(Later(C, d))
          /\ Cardinality(Later(D, e)) <= Cardinality(Later(D, d))
      BY <3>1, <3>f, FS_Subset
    <3>3. /\ Cardinality(Later(C, d)) \in Nat /\ Cardinality(Later(D, d)) \in Nat
          /\ Cardinality(Later(C, e)) \in Nat /\ Cardinality(Later(D, e)) \in Nat
      BY <1>0, LaterFinite
    <3>4. ~(Cardinality(Later(C, d)) < Threshold)
          /\ ~(Cardinality(Later(D, d)) < Threshold)
      BY <1>0, <1>1, <1>2, <3>2, <3>3
    <3>. QED
      BY <3>4 DEF RecentOf
  <2>. QED
    BY <1>3, <2>0, <2>1, <2>2
<1>4. e \notin RecentOf(C)
  BY <1>1, <1>2 DEF RecentOf
<1>. QED
  BY <1>3, <1>4 DEF RecentOf

LEMMA StreakHasEvents ==
    ASSUME Streak, Completed \subseteq Events
    PROVE  \E e \in Recent : verdict[e] = "failed"
<1>1. IsFiniteSet(Events)
  BY Constants, FS_Interval
<1>2. Recent \in SUBSET Events
  BY DEF Recent
<1>3. IsFiniteSet(Recent)
  BY <1>1, <1>2, FS_Subset
<1>4. Cardinality(Recent) # 0
  <2>1. Threshold \in Nat /\ Threshold # 0
    BY WebhooksAssumption DEF WebhooksAssumption
  <2>2. Cardinality(Recent) \in Nat /\ Cardinality(Recent) >= Threshold
    BY <1>3, FS_CardinalityType DEF Streak
  <2>. QED
    BY <2>1, <2>2
<1>5. Recent # {}
  BY <1>4, FS_EmptySet
<1>. QED
  BY <1>5 DEF Streak

\* No verdict is given.
LEMMA SameStreak ==
    ASSUME DecidedIsStored, DecidedIsStored', UNCHANGED verdict
    PROVE  /\ Completed' = Completed /\ Recent' = Recent
           /\ Streak' <=> Streak
<1>1. Completed' = Completed
  <2>1. Completed = {e \in Events : verdict[e] # "unknown"}
    BY DecidedAreCompleted
  <2>2. Completed' = {e \in Events : verdict'[e] # "unknown"}
    BY DEF DecidedIsStored, Completed, Stored
  <2>. QED
    BY <2>1, <2>2
<1>2. Recent' = Recent
  BY <1>1 DEF Recent
<1>. QED
  BY <1>1, <1>2 DEF Streak

LEMMA NoticedStays ==
    ASSUME Noticed, Recent' = Recent, Alarm' => Alarm,
           Alarm' => \A e \in Recent : OnItsWay(e) => OnItsWay(e)'
    PROVE  Noticed'
BY DEF Noticed

LEMMA NoticeInitially == Init => NoticeInv
<1>. SUFFICES ASSUME Init PROVE NoticeInv
  OBVIOUS
<1>1. verdict = [e \in Events |-> "unknown"]
  BY DEF Init
<1>2. DecidedIsStored
  BY <1>1 DEF DecidedIsStored
<1>3. Completed = {}
  BY <1>1, <1>2, DecidedAreCompleted
<1>4. ~Streak
  BY <1>3, StreakHasEvents DEF Recent
<1>. QED
  BY <1>2, <1>4, KeepInitially, OrderInitially DEF NoticeInv, Noticed, Alarm

LEMMA DecidedStays ==
    ASSUME NoticeInv, NEW e \in Events,
           row'[e] = row[e] \/ row[e] # "stored", verdict'[e] = verdict[e],
           verdict'[e] # "unknown"
    PROVE  row'[e] = "stored"
BY DEF NoticeInv, DecidedIsStored

\* The requests, the user and the clock.
LEMMA NoticeRequests ==
    ASSUME NoticeInv, NEW e \in Events,
           \/ CommitRequest(e) \/ RollBackRequest(e) \/ FlushRequest(e)
           \/ LoseJob(e) \/ Age(e) \/ Send(e) \/ Redeliver(e) \/ Archive(e)
    PROVE  DecidedIsStored' /\ Noticed'
<1>1. /\ UNCHANGED <<running, verdict, failures, enabled, unheard>>
      /\ queue \subseteq queue' /\ archived \subseteq archived'
  BY DEF CommitRequest, RollBackRequest, FlushRequest, LoseJob, Age, Send,
         Redeliver, Archive, eventVars
<1>2. DecidedIsStored'
  <2>1. row \in [Events -> {"none", "open", "stored", "gone"}]
    BY DEF NoticeInv, OrderInv, TypeOK
  <2>2. \/ UNCHANGED row
        \/ row[e] # "stored" /\ \A d \in Events \ {e} : row'[d] = row[d]
    BY <2>1 DEF CommitRequest, RollBackRequest, FlushRequest, LoseJob, Age, Send,
       Redeliver, Archive, rowVars
  <2>. QED
    BY <1>1, <2>2 DEF NoticeInv, DecidedIsStored
<1>3. Recent' = Recent /\ (Streak' <=> Streak)
  BY <1>1, <1>2, SameStreak DEF NoticeInv
<1>4. Alarm' => Alarm
  BY <1>1, <1>3 DEF Alarm
<1>5. \A d : OnItsWay(d) => OnItsWay(d)'
  BY <1>1 DEF OnItsWay
<1>. QED
  BY <1>2, <1>3, <1>4, <1>5, NoticedStays DEF NoticeInv

LEMMA NoticeUpdate ==
    ASSUME NoticeInv, UpdateEndpoint
    PROVE  DecidedIsStored' /\ Noticed'
<1>1. UNCHANGED <<row, verdict>>
      /\ unheard' = {e \in Events : e \in unheard \/ verdict[e] = "failed"}
  BY DEF UpdateEndpoint, rowVars, eventVars
<1>2. DecidedIsStored'
  BY <1>1 DEF NoticeInv, DecidedIsStored
<1>3. Recent' = Recent /\ (Streak' <=> Streak)
  BY <1>1, <1>2, SameStreak DEF NoticeInv
<1>4. Completed \subseteq Events
  BY DEF Completed, Stored
<1>5. Streak => \E e \in Recent : e \in unheard'
  BY <1>1, <1>4, StreakHasEvents DEF Recent
<1>6. ~Alarm'
  BY <1>3, <1>5 DEF Alarm
<1>. QED
  BY <1>2, <1>6 DEF Noticed

\* No verdict is given: the steps of workers but one.
LEMMA NoticeWork ==
    ASSUME NoticeInv, UNCHANGED <<row, verdict, archived>>,
           enabled' => enabled,
           unheard \subseteq unheard',
           Alarm => \A e \in Recent \ unheard' : OnItsWay(e) => OnItsWay(e)'
    PROVE  DecidedIsStored' /\ Noticed'
<1>1. DecidedIsStored'
  BY DEF NoticeInv, DecidedIsStored
<1>2. Recent' = Recent /\ (Streak' <=> Streak)
  BY <1>1, SameStreak DEF NoticeInv
<1>3. Alarm' => Alarm
  BY <1>2 DEF Alarm
<1>4. Alarm' => \A e \in Recent : e \notin unheard'
  BY <1>2 DEF Alarm
<1>. QED
  BY <1>1, <1>2, <1>3, <1>4, NoticedStays DEF NoticeInv

LEMMA NoticeBeginSend ==
    ASSUME NoticeInv, NEW j \in queue, BeginSend(j)
    PROVE  DecidedIsStored' /\ Noticed'
<1>0. /\ j \in Jobs /\ j.event \in Events /\ j.retries \in 0..MaxRetries
      /\ UNCHANGED <<row, verdict, archived, enabled, unheard, failures>>
  BY DEF NoticeInv, OrderInv, TypeOK, Jobs, BeginSend, rowVars
<1>. DEFINE u == Task("posting", j)
<1>1. u.at = "posting" /\ u.job = j /\ u.seen = verdict[j.event]
  BY DEF Task
<1>2. Begins("posting", j) => running' = running \cup {u}
  BY DEF Begins
<1>. HIDE DEF u
<1>3. running \subseteq running' /\ queue \ {j} \subseteq queue'
  BY <1>2 DEF BeginSend
<1>4. Blocked(j.event) => j.retries < MaxRetries
  <2>1. Blocked(j.event) => \E d \in 1..(j.event - 1) : d \notin aged
    BY <1>0, Constants DEF Blocked, Stored
  <2>2. j.retries = MaxRetries => \A d \in 1..(j.event - 1) : d \in aged
    BY DEF BeginSend, Due
  <2>. QED
    BY <1>0, <2>1, <2>2, Constants
<1>5. j.retries < MaxRetries => \E k \in Requeued(j) : k.event = j.event
  <2>1. [j EXCEPT !.retries = @ + 1].event = j.event
    BY <1>0 DEF Jobs
  <2>. QED
    BY <2>1 DEF Requeued
<1>6. ASSUME Alarm, NEW e \in Recent, OnItsWay(e) PROVE OnItsWay(e)'
  <2>1. CASE e # j.event
    BY <1>0, <1>3, <1>6, <2>1 DEF OnItsWay
  <2>2. CASE e = j.event
    <3>1. /\ e \in Stored /\ enabled /\ e \notin archived /\ verdict[e] = "failed"
      BY <1>6 DEF Alarm, Streak, Recent, Completed
    <3>2. \/ Blocked(e) /\ queue' = (queue \ {j}) \cup Requeued(j)
          \/ Begins("posting", j)
      BY <2>2, <3>1 DEF BeginSend, HasSucceeded
    <3>3. CASE Begins("posting", j)
      BY <1>1, <1>2, <2>2, <3>1, <3>3 DEF OnItsWay
    <3>4. CASE Blocked(e) /\ queue' = (queue \ {j}) \cup Requeued(j)
      BY <1>4, <1>5, <2>2, <3>4 DEF OnItsWay
    <3>. QED
      BY <3>2, <3>3, <3>4
  <2>. QED
    BY <2>1, <2>2
<1>. QED
  BY <1>0, <1>6, NoticeWork

\* A task that is not on its way anywhere, or passes on to another form of it.
LEMMA TaskPasses ==
    ASSUME NEW t \in running, running \ {t} \subseteq running',
           queue \subseteq queue', failures \subseteq failures',
           \/ \E j \in failures' \cup queue' : j.event = t.job.event
           \/ \E u \in running' :
                /\ u.job.event = t.job.event
                /\ \/ u.at = "disabling"
                   \/ u.at = "flushing" /\ u.outcome = "refused"
                   \/ u.at \in {"posting", "saving"} /\ u.seen # "succeeded"
           \/ t.at \in {"posting", "saving"} /\ t.seen = "succeeded"
           \/ t.at = "flushing" /\ t.outcome # "refused"
           \/ t.at \in {"acking", "closing"},
           NEW e, OnItsWay(e)
    PROVE  OnItsWay(e)'
<1>1. CASE e # t.job.event
  BY <1>1 DEF OnItsWay
<1>2. CASE e = t.job.event
  BY <1>2 DEF OnItsWay
<1>. QED
  BY <1>1, <1>2

LEMMA NoticeSending ==
    ASSUME NoticeInv, NEW t \in running,
           \/ \E outcome \in Outcomes \ {"none"} : Answer(t, outcome)
           \/ AnswerAndRetry(t) \/ FlushSend(t) \/ Ack(t)
           \/ Break(t) \/ Crash(t)
    PROVE  DecidedIsStored' /\ Noticed'
<1>0. /\ TypeOK /\ t.job \in Jobs /\ t.job.retries \in 0..MaxRetries
      /\ MaxRetries \in Nat
  BY TaskTypes, Constants DEF NoticeInv, OrderInv
<1>1. UNCHANGED <<row, verdict, archived, enabled>> /\ unheard \subseteq unheard'
  BY DEF Answer, AnswerAndRetry, FlushSend, Ack, Break, Crash, rowVars, eventVars
<1>2. queue \subseteq queue' /\ failures \subseteq failures'
      /\ running \ {t} \subseteq running'
  BY DEF Answer, AnswerAndRetry, FlushSend, Ack, Break, Crash, Moves, Acknowledges
<1>3. t.job.retries < MaxRetries => \E k \in Requeued(t.job) : k.event = t.job.event
  <2>1. [t.job EXCEPT !.retries = @ + 1].event = t.job.event
    BY <1>0 DEF Jobs
  <2>. QED
    BY <2>1 DEF Requeued
<1>4. ASSUME NEW e \in Recent \ unheard', OnItsWay(e) PROVE OnItsWay(e)'
  <2>1. ASSUME NEW outcome \in Outcomes \ {"none"}, Answer(t, outcome)
        PROVE  OnItsWay(e)'
    <3>1. PICK u \in running' :
            u.at = "saving" /\ u.job = t.job /\ u.seen = t.seen
      BY <1>0, <2>1, MovedJob DEF Answer
    <3>2. t.at = "posting"
      BY <2>1 DEF Answer
    <3>. QED
      BY <1>2, <1>4, <3>1, <3>2, TaskPasses
  <2>2. CASE AnswerAndRetry(t)
    <3>1. \E k \in queue' : k.event = t.job.event
      BY <1>3, <2>2 DEF AnswerAndRetry
    <3>. QED
      BY <1>2, <1>4, <3>1, TaskPasses
  <2>3. CASE FlushSend(t)
    <3>1. t.at = "flushing" /\ (t.outcome = "refused" => t.job \in failures')
      BY <2>3 DEF FlushSend
    <3>. QED
      BY <1>2, <1>4, <3>1, TaskPasses
  <2>4. CASE Break(t)
    <3>1. CASE t.job.retries < MaxRetries
      <4>1. \E k \in queue' : k.event = t.job.event
        BY <1>3, <2>4, <3>1 DEF Break
      <4>. QED
        BY <1>2, <1>4, <4>1, TaskPasses
    <3>2. CASE t.job.retries = MaxRetries
      <4>1. e # t.job.event
        BY <1>4, <2>4, <3>2 DEF Break
      <4>. QED
        BY <1>2, <1>4, <4>1 DEF OnItsWay
    <3>. QED
      BY <1>0, <3>1, <3>2
  <2>5. CASE Crash(t)
    <3>1. GivenBack(t).event = t.job.event
      BY <1>0 DEF GivenBack, Jobs
    <3>2. GivenBack(t) \in failures' \cup queue'
      BY <2>5 DEF Crash
    <3>. QED
      BY <1>2, <1>4, <3>1, <3>2, TaskPasses
  <2>6. CASE Ack(t)
    <3>1. t.at \in {"acking", "closing"}
      BY <2>6 DEF Ack
    <3>. QED
      BY <1>2, <1>4, <3>1, TaskPasses
  <2>. QED
    BY <2>1, <2>2, <2>3, <2>4, <2>5, <2>6
<1>. QED
  BY <1>1, <1>4, NoticeWork

\* The look at the endpoint, and its result.
LEMMA NoticeFailed ==
    ASSUME NoticeInv,
           \/ \E j \in failures : BeginFailed(j)
           \/ \E t \in running : Disable(t) \/ BreakFailed(t)
           \/ \E j \in failures : DropFailed(j)
    PROVE  DecidedIsStored' /\ Noticed'
<1>1. ASSUME NEW j \in failures, BeginFailed(j)
      PROVE  DecidedIsStored' /\ Noticed'
  <2>1. /\ UNCHANGED <<row, verdict, archived, enabled, unheard, queue>>
        /\ failures' = failures \ {j}
    BY <1>1 DEF BeginFailed, rowVars, eventVars
  <2>. DEFINE u == Task("disabling", j)
  <2>2. u.at = "disabling" /\ u.job = j
    BY DEF Task
  <2>3. IF Notices(j) THEN running' = running \cup {u} ELSE running' = running
    BY <1>1 DEF BeginFailed, Begins
  <2>. HIDE DEF u
  <2>4. ASSUME Alarm, NEW e \in Recent, OnItsWay(e) PROVE OnItsWay(e)'
    <3>1. verdict[e] = "failed" /\ enabled /\ Streak
      BY <2>4 DEF Alarm, Streak
    <3>2. CASE e = j.event
      <4>1. running' = running \cup {u}
        BY <2>3, <3>1, <3>2 DEF Notices
      <4>. QED
        BY <2>2, <3>2, <4>1 DEF OnItsWay
    <3>3. CASE e # j.event
      BY <2>1, <2>3, <2>4, <3>3 DEF OnItsWay
    <3>. QED
      BY <3>2, <3>3
  <2>. QED
    BY <2>1, <2>4, NoticeWork
<1>2. ASSUME NEW t \in running, Disable(t)
      PROVE  DecidedIsStored' /\ Noticed'
  <2>1. UNCHANGED <<row, verdict>> /\ enabled' = FALSE
    BY <1>2 DEF Disable, rowVars
  <2>. QED
    BY <2>1 DEF NoticeInv, DecidedIsStored, Noticed, Alarm
<1>3. ASSUME NEW t \in running, BreakFailed(t)
      PROVE  DecidedIsStored' /\ Noticed'
  <2>1. /\ UNCHANGED <<row, verdict, archived, enabled, unheard, queue>>
        /\ failures' = failures \cup {t.job} /\ running \ {t} \subseteq running'
    BY <1>3 DEF BreakFailed, Acknowledges, rowVars, eventVars
  <2>2. \A e : OnItsWay(e) => OnItsWay(e)'
    BY <2>1, TaskPasses
  <2>. QED
    BY <2>1, <2>2, NoticeWork
<1>4. ASSUME NEW j \in failures, DropFailed(j)
      PROVE  DecidedIsStored' /\ Noticed'
  <2>1. /\ UNCHANGED <<row, verdict, archived, enabled, queue, running>>
        /\ failures' = failures \ {j} /\ unheard' = unheard \cup {j.event}
    BY <1>4 DEF DropFailed, rowVars, eventVars
  <2>2. \A e \in Recent \ unheard' : OnItsWay(e) => OnItsWay(e)'
    BY <2>1 DEF OnItsWay
  <2>. QED
    BY <2>1, <2>2, NoticeWork
<1>. QED
  BY <1>1, <1>2, <1>3, <1>4

\* The broker has a job twice.
LEMMA NoticeDouble ==
    ASSUME NoticeInv, NEW j, Double(j)
    PROVE  DecidedIsStored' /\ Noticed'
<1>1. /\ UNCHANGED <<row, verdict, archived, enabled, unheard, failures, running>>
      /\ queue \subseteq queue'
  BY DEF Double, rowVars, eventVars
<1>2. \A e : OnItsWay(e) => OnItsWay(e)'
  BY <1>1 DEF OnItsWay
<1>. QED
  BY <1>1, <1>2, NoticeWork

LEMMA NoticeEndSend ==
    ASSUME NoticeInv, NEW t \in running, EndSend(t)
    PROVE  DecidedIsStored' /\ Noticed'
<1>. DEFINE e == t.job.event
<1>0. TypeOK /\ Settled /\ e \in Events /\ verdict \in [Events -> Verdicts]
  BY TaskTypes DEF NoticeInv, KeepInv, TypeOK
<1>1. /\ verdict'[e] # "unknown"
      /\ \A d \in Events \ {e} : verdict'[d] = verdict[d]
      /\ Moves(t, "flushing", t.outcome)
  BY <1>0, Decided
<1>2. /\ UNCHANGED <<row, enabled, archived, queue, failures>>
      /\ t.at = "saving"
  BY DEF EndSend, SaveAccepted, SaveUnresolved, SaveRefused, rowVars
<1>3. PICK u \in running' :
        /\ u.at = "flushing" /\ u.job = t.job /\ u.outcome = t.outcome
        /\ running' = (running \ {t}) \cup {u}
  BY <1>0, <1>1, MovedJob
<1>4. DecidedIsStored'
  <2>1. row[e] = "stored"
    BY <1>2 DEF NoticeInv, OrderInv, SendsStored, Sending
  <2>. QED
    BY <1>1, <1>2, <2>1 DEF NoticeInv, DecidedIsStored
<1>5. Completed' = Completed \cup {e} /\ Completed \in SUBSET Events
  <2>1. Completed = {d \in Events : verdict[d] # "unknown"}
    BY DecidedAreCompleted DEF NoticeInv
  <2>2. Completed' = {d \in Events : verdict'[d] # "unknown"}
    BY <1>4 DEF DecidedIsStored, Completed, Stored
  <2>. QED
    BY <1>0, <1>1, <2>1, <2>2
<1>6. \A d : d # e /\ OnItsWay(d) => OnItsWay(d)'
  BY <1>2, <1>3 DEF OnItsWay
<1>7. \A d \in Events \ {e} : d \in unheard => d \in unheard'
  BY DEF EndSend, SaveAccepted, SaveUnresolved, SaveRefused
<1>8. CASE e \notin Recent'
  <2>1. Recent' = RecentOf(Completed \cup {e})
    BY <1>5 DEF Recent, RecentOf, Later
  <2>2. Recent' = Recent
    BY <1>0, <1>5, <1>8, <2>1, OldEvent, RecentIs
  <2>3. Recent \subseteq Events \ {e}
    BY <1>5, <1>8, <2>2 DEF Recent
  <2>4. Streak' => Streak
    BY <1>1, <2>2, <2>3 DEF Streak
  <2>5. Alarm' => Alarm
    BY <1>2, <1>7, <2>2, <2>3, <2>4 DEF Alarm
  <2>. QED
    BY <1>4, <1>6, <2>2, <2>3, <2>5, NoticedStays DEF NoticeInv
<1>9. CASE e \in Recent'
  <2>1. CASE SaveRefused(t)
    <3>1. OnItsWay(e)'
      BY <1>3, <2>1 DEF SaveRefused, OnItsWay
    <3>. QED
      BY <1>4, <1>9, <3>1 DEF Noticed
  <2>2. CASE SaveUnresolved(t)
    <3>1. e \in unheard'
      BY <2>2 DEF SaveUnresolved
    <3>. QED
      BY <1>4, <1>9, <3>1 DEF Noticed, Alarm
  <2>3. CASE SaveAccepted(t)
    <3>1. SaveEvent(t, "succeeded") /\ UNCHANGED unheard
      BY <2>3 DEF SaveAccepted
    <3>2. CASE verdict'[e] = "succeeded"
      BY <1>4, <1>9, <3>2 DEF Noticed, Alarm, Streak
    <3>3. CASE verdict'[e] # "succeeded"
      <4>1. t.seen = "succeeded" /\ UNCHANGED verdict
        BY <1>0, <3>1, <3>3 DEF SaveEvent
      <4>2. \A d : OnItsWay(d) => OnItsWay(d)'
        BY <1>2, <1>3, <4>1, TaskPasses
      <4>. QED
        BY <1>2, <3>1, <4>1, <4>2, NoticeWork
    <3>. QED
      BY <3>2, <3>3
  <2>. QED
    BY <2>1, <2>2, <2>3 DEF EndSend
<1>. QED
  BY <1>8, <1>9

LEMMA NoticeStep == NoticeInv /\ [Next]_vars => NoticeInv'
<1>. SUFFICES ASSUME NoticeInv, [Next]_vars PROVE DecidedIsStored' /\ Noticed'
  BY KeepStep, OrderStep DEF NoticeInv
<1>1. CASE Requests \/ Ageing \/ (\E e \in Events : Archive(e))
  BY <1>1, NoticeRequests DEF Requests, Ageing
<1>2. CASE Work
  BY <1>2, NoticeBeginSend, NoticeFailed, NoticeSending, NoticeEndSend DEF Work
<1>3. CASE User
  BY <1>3, NoticeRequests, NoticeUpdate DEF User
<1>4. CASE Faults
  BY <1>4, NoticeRequests, NoticeSending, NoticeFailed, NoticeDouble DEF Faults
<1>5. CASE UNCHANGED vars
  <2>1. UNCHANGED <<row, verdict, archived, enabled, unheard, queue, failures,
                    running>>
    BY <1>5 DEF vars, rowVars, eventVars
  <2>2. \A e : OnItsWay(e) => OnItsWay(e)'
    BY <2>1 DEF OnItsWay
  <2>. QED
    BY <2>1, <2>2, NoticeWork
<1>. QED
  BY <1>1, <1>2, <1>3, <1>4, <1>5 DEF Next

\* However many deliveries complete at the same time, are repeated after a
\* crash or redelivered, the last failure that makes the streak is looked at
\* when the streak is there (on_event_failed, get_recent_by_endpoint).
THEOREM StreaksAreNoticed == Spec => []StreakIsNoticed
<1>1. Spec => []NoticeInv
  BY NoticeInitially, NoticeStep, PTL DEF Spec
<1>. QED
  BY <1>1, NoticeSuffices, PTL
=============================================================================
