----------------------------- MODULE EventStream -----------------------------
(***************************************************************************)
(* GET /api/v1/jobs/{job_id}/stream: libs/sse.rs with the closures of      *)
(* routes/api.rs that store and announce the statuses of a job.            *)
(*                                                                         *)
(* All jobs share one broadcast channel.  A client subscribes to it, reads *)
(* the stored status, and then passes on the events of its job.  Storing a *)
(* status and announcing it are two steps for everybody else, although the *)
(* task itself cannot be aborted in between (there is no await).           *)
(***************************************************************************)
EXTENDS Integers, Sequences

CONSTANTS
    Jobs,       \* jobs of the run
    Submitted,  \* those that a submission may introduce
    Replayed,   \* those that a replay or a retry may introduce
    Clients,    \* open connections to the stream endpoint
    Watches,    \* the job each client asks for
    Capacity,   \* events the channel retains
    MaxHistory  \* store.max_history

ASSUME StreamAssumption ==
    /\ Submitted \subseteq Jobs
    /\ Replayed \subseteq Jobs
    /\ Watches \in [Clients -> Jobs]
    /\ Capacity \in Nat \ {0}
    /\ MaxHistory \in Nat

VARIABLES
    stage,      \* progress of each job's task
    stored,     \* the store: status of each job, "absent" without a record
    history,    \* the stored jobs, oldest first
    result,     \* how each job's handler returned
    cancel,     \* each job's cancellation: "no", "asked" or "stored"
    sent,       \* every event broadcast so far; the last Capacity are retained
    pc,         \* each client: where its connection stands
    next,       \* index in sent of the event its receiver reads next
    shown,      \* status words the client was sent
    lagged      \* clients that were told they missed events

taskVars == <<stage, stored, history, result, cancel, sent>>
clientVars == <<pc, next, shown, lagged>>
vars == <<taskVars, clientVars>>

Results == {"completed", "failed"}
Statuses == {"absent", "pending", "running", "cancelled"} \cup Results
Stages == {"new", "queued", "started", "working", "ended", "done", "dead"}

\* An announcement names the JobStatus, not the JobStateStatus that is stored.
Word(s) == IF s = "completed" THEN "success" ELSE s
Words == (Statuses \ {"absent"}) \cup {"success"}

\* Words that tell a client its job ended with this stored status.
Says(s) == {s, Word(s)}

Init ==
    /\ stage = [j \in Jobs |-> "new"]
    /\ stored = [j \in Jobs |-> "absent"]
    /\ history = << >>
    /\ result = [j \in Jobs |-> "none"]
    /\ cancel = [j \in Jobs |-> "no"]
    /\ sent = << >>
    /\ pc = [c \in Clients |-> "idle"]
    /\ next = [c \in Clients |-> 1]
    /\ shown = [c \in Clients |-> << >>]
    /\ lagged = {}

-----------------------------------------------------------------------------
(* Jobs                                                                    *)

\* Faulty variant: the store is given the word of the announcement.
SetStatusWord(j, s) ==
    stored' = IF stored[j] = "absent" THEN stored ELSE [stored EXCEPT ![j] = Word(s)]

\* Overwrites the status of a stored job; without a record it is an error that
\* every caller ignores.
SetStatus(j, s) ==
    stored' = IF stored[j] = "absent" THEN stored ELSE [stored EXCEPT ![j] = s]

Announce(j, s) == sent' = Append(sent, [job |-> j, word |-> Word(s)])

\* submit_job: create_job inserts the record and evicts the oldest beyond
\* MaxHistory, then the job is scheduled.
Submit(j) ==
    LET all == Append(history, j)
        kept == SubSeq(all, IF Len(all) > MaxHistory THEN Len(all) - MaxHistory + 1 ELSE 1,
                       Len(all))
        ids == {kept[i] : i \in DOMAIN kept}
    IN  /\ j \in Submitted
        /\ stage[j] = "new"
        /\ stage' = [stage EXCEPT ![j] = "queued"]
        /\ history' = kept
        /\ stored' = [k \in Jobs |-> IF k \notin ids THEN "absent"
                                     ELSE IF k = j THEN "pending" ELSE stored[k]]
        /\ UNCHANGED <<result, cancel, sent, clientVars>>

\* replay_job and retry_job: scheduled under a fresh id that has no record.
Reschedule(j) ==
    /\ j \in Replayed
    /\ stage[j] = "new"
    /\ stage' = [stage EXCEPT ![j] = "queued"]
    /\ UNCHANGED <<stored, history, result, cancel, sent, clientVars>>

\* The closure starts: the status is stored ...
StoreRunning(j) ==
    /\ stage[j] = "queued"
    /\ stage' = [stage EXCEPT ![j] = "started"]
    /\ SetStatus(j, "running")
    /\ UNCHANGED <<history, result, cancel, sent, clientVars>>

\* ... and announced.
AnnounceRunning(j) ==
    /\ stage[j] = "started"
    /\ stage' = [stage EXCEPT ![j] = "working"]
    /\ Announce(j, "running")
    /\ UNCHANGED <<stored, history, result, cancel, clientVars>>

\* The handler returned: set_job_result or set_job_error ...
StoreResult(j) ==
    /\ stage[j] = "working"
    /\ stage' = [stage EXCEPT ![j] = "ended"]
    /\ \E s \in Results :
        /\ result' = [result EXCEPT ![j] = s]
        /\ SetStatus(j, s)
    /\ UNCHANGED <<history, cancel, sent, clientVars>>

\* Faulty variant: only a result is announced, not an error.
AnnounceSuccess(j) ==
    /\ stage[j] = "ended"
    /\ stage' = [stage EXCEPT ![j] = "done"]
    /\ IF result[j] = "completed" THEN Announce(j, result[j]) ELSE UNCHANGED sent
    /\ UNCHANGED <<stored, history, result, cancel, clientVars>>

\* ... and then the announcement of that result, whatever the store holds now.
AnnounceResult(j) ==
    /\ stage[j] = "ended"
    /\ stage' = [stage EXCEPT ![j] = "done"]
    /\ Announce(j, result[j])
    /\ UNCHANGED <<stored, history, result, cancel, clientVars>>

\* The handler panics, or the abort of a cancellation takes effect at an await.
Die(j) ==
    /\ \/ stage[j] = "working"
       \/ stage[j] = "queued" /\ cancel[j] # "no"
    /\ stage' = [stage EXCEPT ![j] = "dead"]
    /\ UNCHANGED <<stored, history, result, cancel, sent, clientVars>>

\* cancel_job: the scheduler's abort first, the status later, no event at all.
AskCancel(j) ==
    /\ stage[j] # "new"
    /\ cancel[j] = "no"
    /\ cancel' = [cancel EXCEPT ![j] = "asked"]
    /\ UNCHANGED <<stage, stored, history, result, sent, clientVars>>

StoreCancelled(j) ==
    /\ cancel[j] = "asked"
    /\ cancel' = [cancel EXCEPT ![j] = "stored"]
    /\ SetStatus(j, "cancelled")
    /\ UNCHANGED <<stage, history, result, sent, clientVars>>

-----------------------------------------------------------------------------
(* Connections                                                             *)

\* The job must have a record, or the answer is 404.
Open(c) ==
    /\ pc[c] = "idle"
    /\ pc' = [pc EXCEPT ![c] = IF stored[Watches[c]] = "absent" THEN "refused" ELSE "found"]
    /\ UNCHANGED <<taskVars, next, shown, lagged>>

\* A new receiver sees the events sent from now on.
Subscribe(c) ==
    /\ pc[c] = "found"
    /\ pc' = [pc EXCEPT ![c] = "subscribed"]
    /\ next' = [next EXCEPT ![c] = Len(sent) + 1]
    /\ UNCHANGED <<taskVars, shown, lagged>>

\* The body of the response is polled for the first time, later: it begins with
\* the status that is stored by then, if the record still is.
SendStored(c) ==
    LET s == stored[Watches[c]]
    IN  /\ pc[c] = "subscribed"
        /\ pc' = [pc EXCEPT ![c] = "streaming"]
        /\ shown' = IF s = "absent" THEN shown ELSE [shown EXCEPT ![c] = Append(@, s)]
        /\ UNCHANGED <<taskVars, next, lagged>>

Behind(c) == Len(sent) + 1 - next[c]

\* recv() returns an event; those of other jobs are skipped.
Receive(c) ==
    /\ pc[c] = "streaming"
    /\ Behind(c) \in 1..Capacity
    /\ next' = [next EXCEPT ![c] = @ + 1]
    /\ LET event == sent[next[c]]
       IN  shown' = IF event.job = Watches[c] THEN [shown EXCEPT ![c] = Append(@, event.word)]
                    ELSE shown
    /\ UNCHANGED <<taskVars, pc, lagged>>

\* Faulty variant: the error of recv() is treated like a heartbeat.
LagUnnoticed(c) ==
    /\ pc[c] = "streaming"
    /\ Behind(c) > Capacity
    /\ next' = [next EXCEPT ![c] = Len(sent) - Capacity + 1]
    /\ UNCHANGED <<taskVars, pc, shown, lagged>>

\* recv() fails with Lagged: the receiver moves to the oldest retained event and
\* the client is told.
Lag(c) ==
    /\ pc[c] = "streaming"
    /\ Behind(c) > Capacity
    /\ next' = [next EXCEPT ![c] = Len(sent) - Capacity + 1]
    /\ lagged' = lagged \cup {c}
    /\ UNCHANGED <<taskVars, pc, shown>>

\* The client goes away.  The stream itself never ends: the sender lives as long
\* as the server.
Disconnect(c) ==
    /\ pc[c] \in {"subscribed", "streaming"}
    /\ pc' = [pc EXCEPT ![c] = "gone"]
    /\ UNCHANGED <<taskVars, next, shown, lagged>>

-----------------------------------------------------------------------------
Task(j) == StoreRunning(j) \/ AnnounceRunning(j) \/ StoreResult(j) \/ AnnounceResult(j)

Stream(c) == Subscribe(c) \/ SendStored(c) \/ Receive(c) \/ Lag(c)

Next ==
    \/ \E j \in Jobs : Submit(j) \/ Reschedule(j) \/ Task(j) \/ Die(j)
                       \/ AskCancel(j) \/ StoreCancelled(j)
    \/ \E c \in Clients : Open(c) \/ Stream(c) \/ Disconnect(c)

\* A task between storing and announcing does not wait for anything; a request
\* that was taken up is answered, and a connected client reads what it is sent.
Fairness ==
    /\ \A j \in Jobs : WF_vars(AnnounceRunning(j)) /\ WF_vars(AnnounceResult(j))
    /\ \A c \in Clients : WF_vars(Stream(c))

Spec == Init /\ [][Next]_vars /\ Fairness

-----------------------------------------------------------------------------
(* Properties                                                              *)

\* Types, and what holds of the positions: a receiver never runs ahead of the
\* channel.
TypeOK ==
    /\ stage \in [Jobs -> Stages]
    /\ stored \in [Jobs -> Statuses]
    /\ history \in Seq(Jobs)
    /\ result \in [Jobs -> Results \cup {"none"}]
    /\ cancel \in [Jobs -> {"no", "asked", "stored"}]
    /\ sent \in Seq([job : Jobs, word : Words])
    /\ pc \in [Clients -> {"idle", "refused", "found", "subscribed", "streaming", "gone"}]
    /\ next \in [Clients -> Nat \ {0}]
    /\ \A c \in Clients : next[c] <= Len(sent) + 1
    /\ shown \in [Clients -> Seq(Words)]
    /\ lagged \subseteq Clients

\* The stored status comes first and may be newer than the events that follow it
\* (a client can be shown completed and then running), but the last word is never
\* stale: a client that has read everything was last told how its job ended.
LastWordIsRight ==
    \A c \in Clients :
        LET j == Watches[c]
        IN  (/\ pc[c] = "streaming"
             /\ c \notin lagged
             /\ Behind(c) = 0
             /\ stage[j] = "done"
             /\ cancel[j] = "no"
             /\ stored[j] # "absent")
            => shown[c] # << >> /\ shown[c][Len(shown[c])] \in Says(result[j])

\* A client that stays connected is shown the end of a job that ends, unless it
\* lost events or was told that it did, or the record was evicted or the job
\* cancelled, which nobody announces.
EndIsSeen ==
    \A c \in Clients :
        LET j == Watches[c]
        IN  (pc[c] = "streaming" /\ stage[j] = "done")
            ~> \/ \E s \in Results : \E i \in DOMAIN shown[c] : shown[c][i] \in Says(s)
               \/ pc[c] = "gone"
               \/ c \in lagged
               \/ cancel[j] # "no"
               \/ stored[j] = "absent"
=============================================================================
