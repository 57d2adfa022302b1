----------------------------- MODULE JobService -----------------------------
(***************************************************************************)
(* The job API composed with the scheduler and the in-memory store:        *)
(* routes/api.rs (submit, replay, retry, cancel and the task body they     *)
(* schedule), stores/memory.rs and the active-jobs gauge of                *)
(* utils/metrics.rs.  Every step of the scheduler is a step of JobScheduler. *)
(*                                                                         *)
(* An element of Calls is one HTTP request that schedules a job.  A step is *)
(* what runs between two acquisitions of a lock.                           *)
(***************************************************************************)
EXTENDS JobScheduler, Sequences

CONSTANTS
    KindsOf,    \* the endpoints each request may be sent to
    SourceOf,   \* the job a replay or retry starts from
    MaxHistory  \* store.max_history

Kinds == {"submit", "replay", "retry"}

ASSUME RequestsAssumption ==
    /\ KindsOf \in [Calls -> SUBSET Kinds]
    /\ SourceOf \in [Calls -> Jobs]
    /\ MaxHistory \in Nat
    \* replay and retry draw a fresh UUID
    /\ \A c, d \in Calls : KindsOf[c] # {"submit"} /\ JobOf[c] = JobOf[d] => c = d

VARIABLES
    reqPc,      \* each request: "denied" (500, 404 or 400) before schedule() is
                \* reached, "broken" off within create_job, "ready" to call
                \* schedule(), "refused" because it failed
    bodyPc,     \* progress of the closure a request hands to schedule()
    status,     \* the store: status of each job, "absent" without a record
    history,    \* the stored jobs by started_at, oldest first
    gauge,      \* ci_job_active
    cancelling, \* cancel_job requests between the scheduler and the store, the
                \* dropped ones included
    cancelled   \* jobs whose cancellation was answered with success

storeVars == <<status, history>>
cancelVars == <<cancelling, cancelled>>
vars == <<schedVars, reqPc, bodyPc, storeVars, gauge, cancelVars>>

Terminal == {"completed", "failed", "cancelled"}
Statuses == {"absent", "pending", "running"} \cup Terminal

Init ==
    /\ SchedulerInit
    /\ reqPc = [c \in Calls |-> "new"]
    /\ bodyPc = [c \in Calls |-> "begin"]
    /\ status = [j \in Jobs |-> "absent"]
    /\ history = << >>
    /\ gauge = 0
    /\ cancelling = {}
    /\ cancelled = {}

-----------------------------------------------------------------------------
(* stores/memory.rs                                                        *)

\* Faulty variant: a job without a record gets one.
SetStatusUpserts(j, s) ==
    /\ status' = [status EXCEPT ![j] = s]
    /\ history' = IF status[j] = "absent" THEN Append(history, j) ELSE history

\* update_job_status, set_job_result and set_job_error: overwrite the status
\* of a stored job, whatever it is; without a record they are errors, and
\* every caller ignores those.
SetStatus(j, s) ==
    /\ status' = IF status[j] = "absent" THEN status ELSE [status EXCEPT ![j] = s]
    /\ UNCHANGED history

\* enforce_max_history: the newest MaxHistory of the stored jobs.
Newest(h) == IF Len(h) > MaxHistory THEN SubSeq(h, Len(h) - MaxHistory + 1, Len(h)) ELSE h

\* create_job: insert as pending and evict, under one write lock.
Insert(j) ==
    LET kept == Newest(Append(history, j))
        ids == {kept[i] : i \in DOMAIN kept}
    IN  /\ history' = kept
        /\ status' = [k \in Jobs |-> IF k \notin ids THEN "absent"
                                     ELSE IF k = j THEN "pending" ELSE status[k]]

\* The eviction takes all records out of the map before it waits for the lock of
\* the logs: a create_job that is dropped there takes them with it.
LoseHistory ==
    /\ Len(history) >= MaxHistory
    /\ history' = << >>
    /\ status' = [k \in Jobs |-> "absent"]

-----------------------------------------------------------------------------
(* Requests that schedule a job                                            *)

\* submit_job: the record comes first, and an id that is stored is refused.
CreateRecord(c) ==
    /\ "submit" \in KindsOf[c]
    /\ reqPc[c] = "new"
    /\ \/ /\ status[JobOf[c]] # "absent"
          /\ reqPc' = [reqPc EXCEPT ![c] = "denied"]
          /\ UNCHANGED storeVars
       \/ /\ status[JobOf[c]] = "absent"
          /\ reqPc' = [reqPc EXCEPT ![c] = "ready"]
          /\ Insert(JobOf[c])
    /\ UNCHANGED <<schedVars, bodyPc, gauge, cancelVars>>

\* submit_job's handler is dropped within create_job.
CreateDropped(c) ==
    /\ "submit" \in KindsOf[c]
    /\ reqPc[c] = "new"
    /\ status[JobOf[c]] = "absent"
    /\ reqPc' = [reqPc EXCEPT ![c] = "broken"]
    /\ LoseHistory
    /\ UNCHANGED <<schedVars, bodyPc, gauge, cancelVars>>

\* replay_job: any stored job; no record is made for the new id.
Replay(c) ==
    /\ "replay" \in KindsOf[c]
    /\ reqPc[c] = "new"
    /\ reqPc' = [reqPc EXCEPT ![c] =
                    IF status[SourceOf[c]] = "absent" THEN "denied" ELSE "ready"]
    /\ UNCHANGED <<schedVars, bodyPc, storeVars, gauge, cancelVars>>

\* retry_job: likewise, for failed jobs only.
Retry(c) ==
    /\ "retry" \in KindsOf[c]
    /\ reqPc[c] = "new"
    /\ reqPc' = [reqPc EXCEPT ![c] =
                    IF status[SourceOf[c]] # "failed" THEN "denied" ELSE "ready"]
    /\ UNCHANGED <<schedVars, bodyPc, storeVars, gauge, cancelVars>>

\* scheduler.schedule(), first half and second half.
Schedule(c) ==
    /\ reqPc[c] = "ready"
    /\ CheckAndSpawn(c)
    /\ UNCHANGED <<reqPc, bodyPc, storeVars, gauge, cancelVars>>

ScheduleReturns(c) ==
    /\ Track(c)
    /\ UNCHANGED <<reqPc, bodyPc, storeVars, gauge, cancelVars>>

\* Faulty variant: the request is answered and its record stays pending.
RejectionForgotten(c) ==
    /\ reqPc[c] = "ready"
    /\ callPc[c] = "rejected"
    /\ reqPc' = [reqPc EXCEPT ![c] = "refused"]
    /\ UNCHANGED <<schedVars, bodyPc, storeVars, gauge, cancelVars>>

\* schedule() returned JobExists: submit_job marks the record failed.  The fresh
\* ids of replay and retry are never rejected.
RecordRejection(c) ==
    /\ reqPc[c] = "ready"
    /\ callPc[c] = "rejected"
    /\ reqPc' = [reqPc EXCEPT ![c] = "refused"]
    /\ SetStatus(JobOf[c], "failed")
    /\ UNCHANGED <<schedVars, bodyPc, gauge, cancelVars>>

\* The handler of a request is dropped between create_job and its answer: the
\* record stays as it is, and so does a task that was spawned.
Drop(c) ==
    /\ reqPc[c] = "ready"
    /\ DropCall(c)
    /\ UNCHANGED <<reqPc, bodyPc, storeVars, gauge, cancelVars>>

-----------------------------------------------------------------------------
(* The scheduled task: semaphore steps of the scheduler around the closure *)

TaskPolled(c) ==
    /\ Acquire(c) \/ StartGranted(c) \/ Untrack(c)
    /\ UNCHANGED <<reqPc, bodyPc, storeVars, gauge, cancelVars>>

\* Faulty variant: record_job_start is forgotten.
MarkRunningUncounted(c) ==
    /\ taskPc[c] = "executing"
    /\ bodyPc[c] = "begin"
    /\ bodyPc' = [bodyPc EXCEPT ![c] = "working"]
    /\ SetStatus(JobOf[c], "running")
    /\ UNCHANGED <<schedVars, reqPc, gauge, cancelVars>>

\* The closure starts: status running and the gauge goes up.
MarkRunning(c) ==
    /\ taskPc[c] = "executing"
    /\ bodyPc[c] = "begin"
    /\ bodyPc' = [bodyPc EXCEPT ![c] = "working"]
    /\ SetStatus(JobOf[c], "running")
    /\ gauge' = gauge + 1
    /\ UNCHANGED <<schedVars, reqPc, cancelVars>>

\* Faulty variant: an error of the handler is not stored.
RecordOnlyResults(c) ==
    /\ taskPc[c] = "executing"
    /\ bodyPc[c] = "working"
    /\ bodyPc' = [bodyPc EXCEPT ![c] = "recorded"]
    /\ SetStatus(JobOf[c], "completed") \/ UNCHANGED storeVars
    /\ gauge' = gauge - 1
    /\ UNCHANGED <<schedVars, reqPc, cancelVars>>

\* The handler returns: set_job_result or set_job_error, and the gauge goes
\* down.  A successful result is completed; any other, or an error, is failed.
RecordResult(c) ==
    /\ taskPc[c] = "executing"
    /\ bodyPc[c] = "working"
    /\ bodyPc' = [bodyPc EXCEPT ![c] = "recorded"]
    /\ \E s \in {"completed", "failed"} : SetStatus(JobOf[c], s)
    /\ gauge' = gauge - 1
    /\ UNCHANGED <<schedVars, reqPc, cancelVars>>

\* The closure's result goes back to the scheduler's task.
ClosureReturns(c) ==
    /\ bodyPc[c] = "recorded"
    /\ ExecutorReturns(c)
    /\ UNCHANGED <<reqPc, bodyPc, storeVars, gauge, cancelVars>>

\* The handler panics.  Nothing catches it: neither store nor gauge hear of it.
HandlerPanics(c) ==
    /\ bodyPc[c] = "working"
    /\ Panic(c)
    /\ UNCHANGED <<reqPc, bodyPc, storeVars, gauge, cancelVars>>

TaskAborted(c) ==
    /\ AbortTakesEffect(c)
    /\ UNCHANGED <<reqPc, bodyPc, storeVars, gauge, cancelVars>>

-----------------------------------------------------------------------------
(* cancel_job                                                              *)

\* The scheduler's half.  Without an entry the request is answered 404.
CancelTask(j) ==
    /\ CancelJob(j)
    /\ cancelling' = cancelling \cup {j}
    /\ UNCHANGED <<reqPc, bodyPc, storeVars, gauge, cancelled>>

\* The store's half, and the answer 204.
CancelRecord(j) ==
    /\ j \in cancelling
    /\ SetStatus(j, "cancelled")
    /\ cancelling' = cancelling \ {j}
    /\ cancelled' = cancelled \cup {j}
    /\ UNCHANGED <<schedVars, reqPc, bodyPc, gauge>>

-----------------------------------------------------------------------------

RequestStep(c) == Schedule(c) \/ ScheduleReturns(c) \/ RecordRejection(c)

JobStep(c) ==
    \/ TaskPolled(c)
    \/ MarkRunning(c)
    \/ RecordResult(c)
    \/ ClosureReturns(c)
    \/ HandlerPanics(c)
    \/ TaskAborted(c)

Next ==
    \/ \E c \in Calls : CreateRecord(c) \/ CreateDropped(c) \/ Replay(c) \/ Retry(c)
    \/ \E c \in Calls : RequestStep(c) \/ Drop(c)
    \/ \E c \in Calls : JobStep(c)
    \/ \E j \in Jobs : CancelTask(j) \/ CancelRecord(j)

Spec == Init /\ [][Next]_vars

\* Tasks that can run are polled by the runtime, and so are the requests that are
\* not dropped: Drop, which nothing excludes, ends the fairness of RequestStep.
\* The handler of a job (RecordResult, HandlerPanics) need never return, and
\* CancelRecord need never come, as cancel_job may be dropped before it.
Fairness ==
    \A c \in Calls :
        /\ WF_vars(RequestStep(c))
        /\ WF_vars(TaskPolled(c))
        /\ WF_vars(MarkRunning(c))
        /\ WF_vars(ClosureReturns(c))
        /\ WF_vars(TaskAborted(c))

FairSpec == Spec /\ Fairness

-----------------------------------------------------------------------------
(* Properties                                                              *)

TypeOK ==
    /\ SchedulerTypeOK
    /\ reqPc \in [Calls -> {"new", "denied", "broken", "ready", "refused"}]
    /\ bodyPc \in [Calls -> {"begin", "working", "recorded"}]
    /\ status \in [Jobs -> Statuses]
    /\ history \in Seq(Jobs)
    /\ gauge \in 0 .. Cardinality(Calls)
    /\ cancelling \subseteq Jobs
    /\ cancelled \subseteq Jobs

CancelAsked(j) == j \in cancelling \cup cancelled

\* Two submissions of the id got a record, one after the eviction of the other.
Reused(j) ==
    \E c, d \in Calls : c # d /\ JobOf[c] = j /\ JobOf[d] = j
                        /\ {reqPc[c], reqPc[d]} \subseteq {"ready", "refused"}

\* A job that nobody cancels and whose id is not reused goes through the
\* statuses of JobLifecycle: no late write, from whatever request or task,
\* takes it back or finishes it twice (memory.rs:87-125 have no guard).
Lifecycle == INSTANCE JobLifecycle WITH
    view <- [j \in Jobs |-> IF CancelAsked(j) \/ Reused(j) THEN "contested" ELSE status[j]]

LifecycleSpec == Lifecycle!Spec

\* The store says running only of a job whose task holds a permit: a task that
\* has given its permit back has stored how it ended, unless it panicked.
RunningHoldsPermit ==
    \A c \in Calls :
        /\ reqPc[c] = "ready"
        /\ status[JobOf[c]] = "running"
        /\ ~ CancelAsked(JobOf[c])
        /\ ~ Reused(JobOf[c])
        /\ taskPc[c] # "panicked"
        => taskPc[c] \in Holding

\* A request for j made its record and was dropped before it had spawned a task
\* or recorded that it was rejected: nobody is left to move the record on.
Stranded(j) ==
    \E d \in Calls : JobOf[d] = j /\ callPc[d] = "dropped" /\ taskPc[d] = "none"

\* Every job whose task was spawned settles (is terminal, forgotten, cancelled,
\* lost to a panic, or stranded by a dropped request for its id), whether or not
\* its own request is dropped, unless some handler runs for ever.
JobSettles ==
    \A c \in Calls :
        \/ []<>(\/ taskPc[c] = "none"
                \/ status[JobOf[c]] \in Terminal \cup {"absent"}
                \/ taskPc[c] = "panicked"
                \/ CancelAsked(JobOf[c])
                \/ Stranded(JobOf[c]))
        \/ \E d \in Calls : <>[](taskPc[d] = "executing")

\* "Number of currently active jobs" (metrics.rs:40).
GaugeIsActive ==
    gauge = Cardinality({c \in Calls : taskPc[c] = "executing" /\ bodyPc[c] = "working"})

HistoryLost == \E c \in Calls : reqPc[c] = "broken"

\* "Job retry initiated" (api.rs:233), "Job replayed successfully" (api.rs:101):
\* the new job id that the answer names is a job that the API knows, unless
\* the history has dropped it to stay within max_history, or was lost.
AcceptedIsKnown ==
    \A c \in Calls :
        callPc[c] = "accepted" /\ Len(history) < MaxHistory /\ ~ HistoryLost
        => status[JobOf[c]] # "absent"

=============================================================================
