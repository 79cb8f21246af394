------------------------------ MODULE Webhooks ------------------------------
(***************************************************************************)
(* The events of one webhook endpoint: the requests that create them, the  *)
(* jobs that deliver them, and the job that switches the endpoint off after *)
(* a streak of failures.  Events are numbered by created_at.               *)
(*                                                                         *)
(* Requests and jobs run as transactions at READ COMMITTED.  A job that    *)
(* raises is put back with one retry more, and dropped after MaxRetries;   *)
(* it is acknowledged in a later command, and until then it goes to        *)
(* another worker when the one that has it dies.  So an event may have two *)
(* jobs that nobody asked for.                                             *)
(* The pause before the last retry is far more than the minute for which   *)
(* an event waits for earlier ones (Due).                                  *)
(***************************************************************************)
EXTENDS Naturals, Sequences, FiniteSets

CONSTANTS
    MaxRunning,      \* threads of the worker processes
    LastEvent,       \* (bound) events that are created
    MaxRetries,      \* WEBHOOK_MAX_RETRIES
    Threshold,       \* WEBHOOK_FAILURE_THRESHOLD
    MaxIncidents     \* (bound) redeliveries, switches of the endpoint, jobs that
                     \* break or double, processes that die

ASSUME WebhooksAssumption ==
    /\ MaxRunning \in Nat \ {0}
    /\ MaxRetries \in Nat \ {0}
    /\ Threshold \in Nat \ {0}
    /\ {LastEvent, MaxIncidents} \subseteq Nat

Events == 1..LastEvent

VARIABLES
    enabled,      \* WebhookEndpoint.enabled
    row,          \* row[e]: none, open (uncommitted), stored, gone
    verdict,      \* WebhookEvent.succeeded: unknown, succeeded, failed
    skipped,      \* WebhookEvent.skipped, as a set
    archived,     \* events without payload
    recorded,     \* events with a WebhookDelivery
    aged,         \* events created more than a minute ago
    unflushed,    \* events whose request has ended, its job not yet flushed
    queue,        \* webhook_event.send jobs, the delayed ones included
    failures,     \* webhook_event.failed jobs, as the jobs that asked for them
    running,      \* jobs that workers have, and how far each has come
    incidents,    \* redeliveries, switches of the endpoint and faults so far
    tried,        \* (history) events in the order of their first attempt
    late,         \* (history) committed after a later event had been let through
    lost,         \* (history) events with a job that went down with a process
                  \* before its flush, or broke at its last retry
    unheard,      \* (history) failures no webhook_event.failed will look at
    repeated      \* (history) events that were redelivered, or had two jobs

rowVars == <<row, late>>
eventVars == <<verdict, skipped, recorded>>
incidentVars == <<incidents, repeated>>
vars == <<enabled, rowVars, eventVars, archived, aged, unflushed, queue,
          failures, running, incidentVars, tried, lost, unheard>>

\* nr tells jobs of the same event apart.
Jobs == [event : Events, nr : 0..MaxIncidents,
         retries : 0..MaxRetries, redeliver : BOOLEAN]
Verdicts == {"unknown", "succeeded", "failed"}
\* The stages of webhook_event.send, of webhook_event.failed, and of jobs of
\* either that are over and not yet acknowledged.
Sending == {"posting", "saving", "flushing"}
Stages == Sending \cup {"disabling", "acking", "closing"}
Outcomes == {"none", "accepted", "refused", "unresolved"}
\* seen, unskips: succeeded and skipped as they were read.
Tasks == [at : Stages, job : Jobs, outcome : Outcomes, seen : Verdicts,
          unskips : BOOLEAN]

Job(e, nr, redeliver) ==
    [event |-> e, nr |-> nr, retries |-> 0, redeliver |-> redeliver]

Init ==
    /\ enabled = TRUE
    /\ row = [e \in Events |-> "none"]
    /\ verdict = [e \in Events |-> "unknown"]
    /\ skipped = {}
    /\ archived = {}
    /\ recorded = {}
    /\ aged = {}
    /\ unflushed = {}
    /\ queue = {}
    /\ failures = {}
    /\ running = {}
    /\ incidents = 0
    /\ tried = << >>
    /\ late = {}
    /\ lost = {}
    /\ unheard = {}
    /\ repeated = {}

Stored == {e \in Events : row[e] = "stored"}

Handled(e) == \E t \in running : t.at \in Sending /\ t.job.event = e

HasJob(e) == Handled(e) \/ \E j \in queue : j.event = e

\* The next job or copy of a job.
Fresh == incidents + 1

\* (Bounded) what a user or a fault may do at any time.
Incident == incidents < MaxIncidents /\ incidents' = incidents + 1

----------------------------------------------------------------------------
(* Requests                                                                *)

\* send: the row is inserted in the request's transaction.
Send(e) ==
    /\ enabled
    /\ row[e] = "none"
    /\ \A d \in 1..(e - 1) : row[d] # "none"
    /\ row' = [row EXCEPT ![e] = "open"]
    /\ UNCHANGED <<enabled, late, eventVars, archived, aged, unflushed, queue,
                   failures, running, incidentVars, tried, lost, unheard>>

LetThrough(e) == e \in {tried[i] : i \in DOMAIN tried} \/ Handled(e)

CommitRequest(e) ==
    /\ row[e] = "open"
    /\ row' = [row EXCEPT ![e] = "stored"]
    /\ late' = IF \E f \in Events : e < f /\ LetThrough(f) THEN late \cup {e}
               ELSE late
    /\ unflushed' = unflushed \cup {e}
    /\ UNCHANGED <<enabled, eventVars, archived, aged, queue, failures, running,
                   incidentVars, tried, lost, unheard>>

\* The error becomes a response, after which the jobs are flushed all the same.
RollBackRequest(e) ==
    /\ row[e] = "open"
    /\ row' = [row EXCEPT ![e] = "gone"]
    /\ unflushed' = unflushed \cup {e}
    /\ UNCHANGED <<enabled, late, eventVars, archived, aged, queue, failures,
                   running, incidentVars, tried, lost, unheard>>

\* JobQueueManager.flush.
FlushRequest(e) ==
    /\ e \in unflushed
    /\ unflushed' = unflushed \ {e}
    /\ queue' = queue \cup {Job(e, 0, FALSE)}
    /\ UNCHANGED <<enabled, rowVars, eventVars, archived, aged, failures, running,
                   incidentVars, tried, lost, unheard>>

\* The process dies before the flush, or between its HSET and its RPUSH.
LoseJob(e) ==
    /\ e \in unflushed
    /\ Incident
    /\ unflushed' = unflushed \ {e}
    /\ lost' = lost \cup {e}
    /\ UNCHANGED <<enabled, rowVars, eventVars, archived, aged, queue, failures,
                   running, repeated, tried, unheard>>

Age(e) ==
    /\ row[e] # "none"
    /\ e \notin aged
    /\ \A d \in 1..(e - 1) : d \in aged
    /\ aged' = aged \cup {e}
    /\ UNCHANGED <<enabled, rowVars, eventVars, archived, unflushed, queue,
                   failures, running, incidentVars, tried, lost, unheard>>

----------------------------------------------------------------------------
(* webhook_event.send                                                      *)

Task(at, j) == [at |-> at, job |-> j, outcome |-> "none",
                seen |-> verdict[j.event], unskips |-> j.event \in skipped]

WorkerFree == Cardinality(running) < MaxRunning

Begins(at, j) == running' = running \cup {Task(at, j)}

Moves(t, at, outcome) ==
    running' = (running \ {t}) \cup {[t EXCEPT !.at = at, !.outcome = outcome]}

\* The job is over, and the broker has yet to be told.
Over(at, j) == [at |-> at, job |-> j, outcome |-> "none", seen |-> "unknown",
                unskips |-> FALSE]

Acknowledges(t, at) == running' = (running \ {t}) \cup {Over(at, t.job)}

\* (Fault) dramatiq retries once more than can_retry knows.
Requeued_OneMore(j) ==
    IF j.retries <= MaxRetries THEN {[j EXCEPT !.retries = @ + 1]} ELSE {}

\* (Fault) dramatiq gives up one retry before can_retry does.
Requeued_TooFew(j) ==
    IF j.retries + 1 < MaxRetries THEN {[j EXCEPT !.retries = @ + 1]} ELSE {}

\* A job that raises.
Requeued(j) ==
    IF j.retries < MaxRetries THEN {[j EXCEPT !.retries = @ + 1]} ELSE {}

Due(j) == j.retries = MaxRetries => \A d \in 1..(j.event - 1) : d \in aged

\* (Fault) an event is never too old to be waited for.
Blocked_Ageless(e) == \E d \in Stored \ recorded : d < e

\* (Fault) events do not wait for each other.
Blocked_Never(e) == FALSE

\* ~is_latest_event: earlier events of the last minute come first.
Blocked(e) == \E d \in Stored \ (recorded \cup aged) : d < e

\* (Fault) a repeated job delivers again.
HasSucceeded_Never(j) == FALSE

HasSucceeded(j) == verdict[j.event] = "succeeded" /\ ~j.redeliver

\* Up to the POST.  A job that changes nothing is acknowledged at once.
BeginSend(j) ==
    /\ WorkerFree
    /\ j \in queue
    /\ Due(j)
    /\ LET e == j.event
           finished == e \in archived \/ HasSucceeded(j) IN
       \/ /\ e \notin Stored \/ (enabled /\ ~finished /\ Blocked(e))
          /\ queue' = (queue \ {j}) \cup Requeued(j)
          /\ running' = running \cup {Over("acking", j)}
          /\ UNCHANGED skipped
       \/ /\ e \in Stored
          /\ ~enabled
          /\ skipped' = skipped \cup {e}
          /\ queue' = queue \ {j}
          /\ running' = running \cup {Over("acking", j)}
       \/ /\ e \in Stored
          /\ enabled
          /\ finished
          /\ queue' = queue \ {j}
          /\ UNCHANGED <<skipped, running>>
       \/ /\ e \in Stored
          /\ enabled
          /\ ~finished
          /\ ~Blocked(e)
          /\ queue' = queue \ {j}
          /\ Begins("posting", j)
          /\ UNCHANGED skipped
    /\ UNCHANGED <<enabled, rowVars, verdict, recorded, archived, aged,
                   unflushed, failures, incidentVars, tried, lost, unheard>>

Tries(e) == tried' = IF \A i \in DOMAIN tried : tried[i] # e
                     THEN Append(tried, e) ELSE tried

\* The POST is answered or fails with no retry left; no POST is sent to a name
\* that does not resolve to public addresses.
Answer(t, outcome) ==
    /\ t.at = "posting"
    /\ outcome = "refused" => t.job.retries = MaxRetries
    /\ Moves(t, "saving", outcome)
    /\ Tries(t.job.event)
    /\ UNCHANGED <<enabled, rowVars, eventVars, archived, aged, unflushed,
                   queue, failures, incidentVars, lost, unheard>>

\* The POST fails and can_retry is true: Retry rolls the delivery back.
AnswerAndRetry(t) ==
    /\ t.at = "posting"
    /\ t.job.retries < MaxRetries
    /\ queue' = queue \cup Requeued(t.job)
    /\ Tries(t.job.event)
    /\ Acknowledges(t, "acking")
    /\ UNCHANGED <<enabled, rowVars, eventVars, archived, aged, unflushed,
                   failures, incidentVars, lost, unheard>>

\* Only columns whose value differs from the one that was read are written.
SaveEvent(t, v) ==
    LET e == t.job.event IN
    /\ verdict' = IF v = t.seen THEN verdict ELSE [verdict EXCEPT ![e] = v]
    /\ skipped' = IF t.unskips THEN skipped \ {e} ELSE skipped
    /\ recorded' = recorded \cup {e}

SaveAccepted(t) ==
    /\ t.at = "saving"
    /\ t.outcome = "accepted"
    /\ SaveEvent(t, "succeeded")
    /\ Moves(t, "flushing", t.outcome)
    /\ UNCHANGED unheard

\* Without a webhook_event.failed job.
SaveUnresolved(t) ==
    /\ t.at = "saving"
    /\ t.outcome = "unresolved"
    /\ SaveEvent(t, "failed")
    /\ unheard' = unheard \cup {t.job.event}
    /\ Moves(t, "flushing", t.outcome)

\* can_retry is false.
SaveRefused(t) ==
    /\ t.at = "saving"
    /\ t.outcome = "refused"
    /\ SaveEvent(t, "failed")
    /\ unheard' = unheard \ {t.job.event}
    /\ Moves(t, "flushing", t.outcome)

EndSend(t) ==
    /\ SaveAccepted(t) \/ SaveUnresolved(t) \/ SaveRefused(t)
    /\ UNCHANGED <<enabled, rowVars, archived, aged, unflushed, queue, failures,
                   incidentVars, tried, lost>>

\* The jobs it dispatched are flushed.
FlushSend(t) ==
    /\ t.at = "flushing"
    /\ failures' = IF t.outcome = "refused"
                   THEN failures \cup {t.job} ELSE failures
    /\ Acknowledges(t, "acking")
    /\ UNCHANGED <<enabled, rowVars, eventVars, archived, aged, unflushed,
                   queue, incidentVars, tried, lost, unheard>>

\* The broker forgets the job, but not the copy that Retries has enqueued.
Ack(t) ==
    /\ t.at \in {"acking", "closing"}
    /\ running' = running \ {t}
    /\ UNCHANGED <<enabled, rowVars, eventVars, archived, aged, unflushed,
                   queue, failures, incidentVars, tried, lost, unheard>>

\* Any other exception, at whatever point of the transaction, or in the flush.
Break(t) ==
    /\ t.at \in Sending
    /\ Incident
    /\ LET j == t.job IN
       /\ queue' = queue \cup Requeued(j)
       /\ IF j.retries = MaxRetries
          THEN lost' = lost \cup {j.event} /\ unheard' = unheard \cup {j.event}
          ELSE UNCHANGED <<lost, unheard>>
    /\ Acknowledges(t, "acking")
    /\ UNCHANGED <<enabled, rowVars, eventVars, archived, aged, unflushed,
                   failures, repeated, tried>>

\* A job that is over may have left a copy, from which it is told apart.
GivenBack(t) ==
    IF t.at \in {"acking", "closing"} THEN [t.job EXCEPT !.nr = Fresh] ELSE t.job

\* The worker dies, and the broker gives its job to another one.
Crash(t) ==
    /\ Incident
    /\ IF t.at \in {"disabling", "closing"}
       THEN failures' = failures \cup {GivenBack(t)} /\ UNCHANGED queue
       ELSE queue' = queue \cup {GivenBack(t)} /\ UNCHANGED failures
    /\ repeated' = IF t.at = "acking" /\ HasJob(t.job.event)
                   THEN repeated \cup {t.job.event} ELSE repeated
    /\ running' = running \ {t}
    /\ UNCHANGED <<enabled, rowVars, eventVars, archived, aged, unflushed,
                   tried, lost, unheard>>

\* Jobs that workers run, have yet to acknowledge, or have fetched ahead.
Unacknowledged ==
    queue \cup {t.job : t \in {u \in running : u.at \in Sending \cup {"acking"}}}

\* The heartbeat of a live worker lapses, or a worker dies after it has moved a
\* delayed job back to the queue: the broker has the job twice.
Double(j) ==
    /\ j \in Unacknowledged
    /\ Incident
    /\ queue' = queue \cup {[j EXCEPT !.nr = Fresh]}
    /\ repeated' = repeated \cup {j.event}
    /\ UNCHANGED <<enabled, rowVars, eventVars, archived, aged, unflushed,
                   failures, running, tried, lost, unheard>>

----------------------------------------------------------------------------
(* webhook_event.failed                                                    *)

Completed == {e \in Stored : verdict[e] # "unknown"}

Recent == {e \in Completed : Cardinality({d \in Completed : e < d}) < Threshold}

Streak == Cardinality(Recent) >= Threshold
            /\ \A e \in Recent : verdict[e] = "failed"

\* (Fault) the streak has to end with the event that failed.
Notices_OwnPast(j) == enabled /\ Streak /\ \A e \in Completed : e <= j.event

Notices(j) == verdict[j.event] = "failed" /\ enabled /\ Streak

\* on_event_failed up to its update.
BeginFailed(j) ==
    /\ WorkerFree
    /\ j \in failures
    /\ failures' = failures \ {j}
    /\ IF Notices(j)
       THEN Begins("disabling", j)
       ELSE UNCHANGED running
    /\ UNCHANGED <<enabled, rowVars, eventVars, archived, aged, unflushed,
                   queue, incidentVars, tried, lost, unheard>>

\* The endpoint, and skip_pending_by_endpoint, in one transaction.
Disable(t) ==
    /\ t.at = "disabling"
    /\ enabled' = FALSE
    /\ skipped' = skipped \cup (Stored \ Completed)
    /\ Acknowledges(t, "closing")
    /\ UNCHANGED <<rowVars, verdict, recorded, archived, aged, unflushed, queue,
                   failures, incidentVars, tried, lost, unheard>>

\* The mails cannot be prepared: both updates are rolled back, and the job is
\* put back.  Its retries are not counted.
BreakFailed(t) ==
    /\ t.at = "disabling"
    /\ Incident
    /\ failures' = failures \cup {t.job}
    /\ Acknowledges(t, "closing")
    /\ UNCHANGED <<enabled, rowVars, eventVars, archived, aged, unflushed,
                   queue, repeated, tried, lost, unheard>>

\* A job that breaks once more than WORKER_MAX_RETRIES, and so changes nothing.
DropFailed(j) ==
    /\ j \in failures
    /\ Incident
    /\ failures' = failures \ {j}
    /\ unheard' = unheard \cup {j.event}
    /\ UNCHANGED <<enabled, rowVars, eventVars, archived, aged, unflushed,
                   queue, running, repeated, tried, lost>>

----------------------------------------------------------------------------
(* The user, and the nightly job                                           *)

UpdateEndpoint ==
    /\ Incident
    /\ enabled' = ~enabled
    /\ unheard' = {e \in Events : e \in unheard \/ verdict[e] = "failed"}
    /\ UNCHANGED <<rowVars, eventVars, archived, aged, unflushed, queue,
                   failures, running, repeated, tried, lost>>

Redeliver(e) ==
    /\ e \in Stored
    /\ Incident
    /\ queue' = queue \cup {Job(e, Fresh, TRUE)}
    /\ repeated' = repeated \cup {e}
    /\ UNCHANGED <<enabled, rowVars, eventVars, archived, aged, unflushed,
                   failures, running, tried, lost, unheard>>

\* After thirty days: an event's own job has had all its retries by then.
Archive(e) ==
    /\ e \in (Stored \cap aged) \ (archived \cup unflushed)
    /\ \A t \in running : t.job.event # e
    /\ \A j \in queue : j.event = e => j.redeliver
    /\ archived' = archived \cup {e}
    /\ UNCHANGED <<enabled, rowVars, eventVars, aged, unflushed, queue,
                   failures, running, incidentVars, tried, lost, unheard>>

----------------------------------------------------------------------------

Requests ==
    \E e \in Events : CommitRequest(e) \/ RollBackRequest(e) \/ FlushRequest(e)

Work ==
    \/ \E j \in queue : BeginSend(j)
    \/ \E j \in failures : BeginFailed(j)
    \/ \E t \in running :
         \/ \E outcome \in Outcomes \ {"none"} : Answer(t, outcome)
         \/ AnswerAndRetry(t) \/ EndSend(t) \/ FlushSend(t) \/ Disable(t)
         \/ Ack(t)

Ageing == \E e \in Events : Age(e)

User ==
    \/ UpdateEndpoint
    \/ \E e \in Events : Send(e) \/ Redeliver(e)

Faults ==
    \/ \E e \in Events : LoseJob(e)
    \/ \E t \in running : Break(t) \/ Crash(t) \/ BreakFailed(t)
    \/ \E j \in Unacknowledged : Double(j)
    \/ \E j \in failures : DropFailed(j)

Next == Requests \/ Work \/ Ageing \/ User \/ Faults
          \/ \E e \in Events : Archive(e)

Spec == Init /\ [][Next]_vars

\* Requests end, time passes, and the workers do not sit idle.
FairSpec == Spec /\ WF_vars(Requests) /\ WF_vars(Work) /\ WF_vars(Ageing)

----------------------------------------------------------------------------
(* Properties                                                              *)

\* All state stays within its types, and so do the jobs workers have.
TypeOK ==
    /\ enabled \in BOOLEAN
    /\ row \in [Events -> {"none", "open", "stored", "gone"}]
    /\ verdict \in [Events -> Verdicts]
    /\ {skipped, archived, recorded, aged, unflushed, late, lost, unheard,
        repeated} \subseteq SUBSET Events
    /\ queue \subseteq Jobs
    /\ failures \subseteq Jobs
    /\ running \subseteq Tasks
    /\ incidents \in 0..MaxIncidents
    /\ tried \in Seq(Events)

\* An event that has neither been delivered nor given up, skipped or archived
\* still has a job, unless one went down with the process that was to enqueue
\* it, or broke at its last retry: waiting for earlier events, rolled back
\* attempts and crashed workers never use the job up.
NothingForgotten ==
    \A e \in Stored \ (skipped \cup archived \cup unflushed \cup lost) :
        verdict[e] = "unknown" => HasJob(e)

\* The events of the last minute are first tried in the order of their
\* creation, redelivered or not, unless the earlier one was committed after the
\* later one had been let through (is_latest_event).
InOrder ==
    \A i, k \in DOMAIN tried :
        i < k /\ tried[k] < tried[i] => tried[k] \in aged \cup late

\* An event that has been delivered stays delivered, although its job is run
\* again by another worker when the one that delivered it dies before it has
\* flushed or acknowledged.  Not so if the event was redelivered, or the broker
\* had its job twice: two jobs may both read the event before either writes.
SuccessIsFinal ==
    [][\A e \in Events \ repeated :
         verdict[e] = "succeeded" => verdict'[e] = "succeeded"]_vars

\* An enabled endpoint whose newest events have all failed is about to be
\* looked at, unless one of them failed without a webhook_event.failed job (or
\* one that was dropped, or a broken repeat lost it) or before the user switched
\* the endpoint, or has been archived: when deliveries complete at the same
\* time, the last one to do so still notices the streak.
StreakIsNoticed ==
    enabled /\ Streak /\ Recent \cap (unheard \cup archived) = {} =>
        \/ \E j \in failures \cup queue : j.event \in Completed
        \/ \E e \in Completed : Handled(e)
        \/ \E t \in running : t.at = "disabling"

\* Every event is delivered, given up or skipped in the end, unless a job of it
\* was lost or broke at its last retry: events that wait for each other do not
\* wait for ever.
EventSettles ==
    \A e \in Events :
        e \in Stored ~> verdict[e] # "unknown" \/ e \in skipped \cup lost
=============================================================================
