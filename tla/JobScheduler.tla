---------------------------- MODULE JobScheduler ----------------------------
(***************************************************************************)
(* services/scheduler.rs: JobScheduler.                                    *)
(*                                                                         *)
(* A call of schedule() checks under the read lock that its job id is not  *)
(* tracked, spawns a task, and afterwards records the task's handle in     *)
(* current_jobs under the write lock.  The spawned task runs concurrently  *)
(* from the moment of the spawn: it waits for a permit of a fair           *)
(* semaphore, runs the executor, drops the permit and removes its job id   *)
(* from current_jobs.  cancel_job() takes a handle out of the map and      *)
(* aborts its task; wait_for_completion() polls the size of the map.       *)
(*                                                                         *)
(* One element of Calls is one call of schedule() and also the one task    *)
(* that call may spawn.  Several calls may carry the same job id.          *)
(***************************************************************************)
EXTENDS Integers, FiniteSets

CONSTANTS
    Calls,          \* the calls of schedule()
    Jobs,           \* job ids
    JobOf,          \* the job id each call carries
    NoCall,         \* "no entry" in current_jobs
    MaxConcurrent,  \* max_concurrent_jobs, not validated by the configuration
    MaxPolls,       \* max_wait in units of the one-second sleep
    Panicky         \* the calls whose executor may panic

ASSUME CallsAssumption ==
    /\ IsFiniteSet(Calls)
    /\ JobOf \in [Calls -> Jobs]
    /\ NoCall \notin Calls
    /\ Panicky \subseteq Calls

ASSUME LimitsAssumption == MaxConcurrent \in Nat /\ MaxPolls \in Nat

VARIABLES
    callPc,         \* progress of each schedule() call
    taskPc,         \* progress of each spawned task
    abortRequested, \* tasks whose JoinHandle::abort has been called
    permits,        \* permits the semaphore has left
    position,       \* place in the semaphore's queue, 0 outside it
    tracked,        \* current_jobs: job id -> the call whose handle it holds
    shutdown,       \* where main's shutdown sequence is
    polls           \* sleeps wait_for_completion has done

callVars == <<callPc>>
semVars == <<taskPc, permits, position>>
mapVars == <<tracked, abortRequested>>
endVars == <<shutdown, polls>>
schedVars == <<callPc, taskPc, abortRequested, permits, position, tracked,
               shutdown, polls>>

\* "dropped": the request that called is gone, and with it the rest of the call.
CallStates == {"idle", "spawned", "accepted", "rejected", "dropped"}
TaskStates == {"none", "spawned", "waiting", "granted", "executing",
               "released", "finished", "aborted", "panicked"}
ShutdownStates == {"serving", "draining", "drained", "timedOut"}

\* A task that will take no further step.
Ended == {"none", "finished", "aborted", "panicked"}

\* Tasks that hold a permit.  "granted": the semaphore has assigned the permit
\* to the queued task, which has not been polled since.
Holding == {"granted", "executing"}

Waiting == {c \in Calls : taskPc[c] = "waiting"}
Holders == {c \in Calls : taskPc[c] \in Holding}
Executing == {c \in Calls : taskPc[c] = "executing"}

\* active_jobs() counts these.
ActiveJobs == {j \in Jobs : tracked[j] # NoCall}

\* main returns after wait_for_completion: the runtime and every task die.
Alive == shutdown \in {"serving", "draining"}

SchedulerInit ==
    /\ callPc = [c \in Calls |-> "idle"]
    /\ taskPc = [c \in Calls |-> "none"]
    /\ abortRequested = {}
    /\ permits = MaxConcurrent
    /\ position = [c \in Calls |-> 0]
    /\ tracked = [j \in Jobs |-> NoCall]
    /\ shutdown = "serving"
    /\ polls = 0

-----------------------------------------------------------------------------
(* schedule()                                                              *)

\* The existence check under the read lock and, if it passes, the spawn.
CheckAndSpawn(c) ==
    /\ Alive
    /\ callPc[c] = "idle"
    /\ IF tracked[JobOf[c]] # NoCall
       THEN /\ callPc' = [callPc EXCEPT ![c] = "rejected"]
            /\ UNCHANGED taskPc
       ELSE /\ callPc' = [callPc EXCEPT ![c] = "spawned"]
            /\ taskPc' = [taskPc EXCEPT ![c] = "spawned"]
    /\ UNCHANGED <<mapVars, permits, position, endVars>>

\* Faulty variant: the handle is recorded only if the task has not begun yet.
TrackUnlessBegun(c) ==
    /\ Alive
    /\ callPc[c] = "spawned"
    /\ callPc' = [callPc EXCEPT ![c] = "accepted"]
    /\ tracked' = IF taskPc[c] = "spawned"
                  THEN [tracked EXCEPT ![JobOf[c]] = c] ELSE tracked
    /\ UNCHANGED <<semVars, abortRequested, endVars>>

\* The insert under the write lock.  It comes after the spawn, whatever the
\* task has done meanwhile, and replaces (detaches) an entry that is there.
Track(c) ==
    /\ Alive
    /\ callPc[c] = "spawned"
    /\ callPc' = [callPc EXCEPT ![c] = "accepted"]
    /\ tracked' = [tracked EXCEPT ![JobOf[c]] = c]
    /\ UNCHANGED <<semVars, abortRequested, endVars>>

\* The handler that calls is dropped, its connection having failed, where it
\* awaits the read lock, the write lock, or (after a rejection) the store.  A
\* task that was spawned runs on, and current_jobs never hears of it.
DropCall(c) ==
    /\ Alive
    /\ callPc[c] \in {"idle", "spawned", "rejected"}
    /\ callPc' = [callPc EXCEPT ![c] = "dropped"]
    /\ UNCHANGED <<semVars, mapVars, endVars>>

-----------------------------------------------------------------------------
(* The spawned task                                                        *)

\* First poll: take a permit or join the end of the semaphore's queue.
Acquire(c) ==
    /\ Alive
    /\ taskPc[c] = "spawned"
    /\ c \notin abortRequested
    /\ \/ /\ permits > 0
          /\ permits' = permits - 1
          /\ taskPc' = [taskPc EXCEPT ![c] = "executing"]
          /\ UNCHANGED position
       \/ /\ permits = 0
          /\ taskPc' = [taskPc EXCEPT ![c] = "waiting"]
          /\ position' = [position EXCEPT ![c] = Cardinality(Waiting) + 1]
          /\ UNCHANGED permits
    /\ UNCHANGED <<callVars, mapVars, endVars>>

\* A task that was granted a permit while queued is polled again.  The runtime
\* looks at the abort flag first, so an aborted task never gets here.
StartGranted(c) ==
    /\ Alive
    /\ taskPc[c] = "granted"
    /\ c \notin abortRequested
    /\ taskPc' = [taskPc EXCEPT ![c] = "executing"]
    /\ UNCHANGED <<callVars, permits, position, mapVars, endVars>>

\* Leaving the queue moves everyone behind up.
LeaveQueue(c) ==
    position' = [d \in Calls |->
                    IF d = c THEN 0
                    ELSE IF position[d] > position[c] THEN position[d] - 1
                    ELSE position[d]]

\* Faulty variant: the permit goes back to the counter and nobody is woken.
ReleaseNoWake(c, pc) ==
    /\ taskPc' = [taskPc EXCEPT ![c] = pc]
    /\ permits' = permits + 1
    /\ UNCHANGED position

\* Faulty variant: the permit is forgotten unless the executor returned.
ReleaseForgets(c, pc) ==
    /\ taskPc' = [taskPc EXCEPT ![c] = pc]
    /\ permits' = IF pc = "released" THEN permits + 1 ELSE permits
    /\ UNCHANGED position

\* Dropping the permit hands it to the task that has queued longest, and to the
\* counter only when nobody waits.  c is left in state pc.
ReleasePermit(c, pc) ==
    \/ /\ Waiting = {}
       /\ permits' = permits + 1
       /\ taskPc' = [taskPc EXCEPT ![c] = pc]
       /\ UNCHANGED position
    \/ \E w \in Waiting :
          /\ position[w] = 1
          /\ taskPc' = [taskPc EXCEPT ![c] = pc, ![w] = "granted"]
          /\ LeaveQueue(w)
          /\ UNCHANGED permits

\* executor_owned(job).await completes and drop(permit) runs.  An abort that
\* arrived during the last poll has not taken effect.
ExecutorReturns(c) ==
    /\ Alive
    /\ taskPc[c] = "executing"
    /\ ReleasePermit(c, "released")
    /\ UNCHANGED <<callVars, mapVars, endVars>>

\* Faulty variant: the removal also gives a permit back.
UntrackReleases(c) ==
    /\ Alive
    /\ taskPc[c] = "released"
    /\ taskPc' = [taskPc EXCEPT ![c] = "finished"]
    /\ tracked' = [tracked EXCEPT ![JobOf[c]] = NoCall]
    /\ permits' = permits + 1
    /\ UNCHANGED <<callVars, position, abortRequested, endVars>>

\* The removal under the write lock: whichever handle the id has by now.
Untrack(c) ==
    /\ Alive
    /\ taskPc[c] = "released"
    /\ taskPc' = [taskPc EXCEPT ![c] = "finished"]
    /\ tracked' = [tracked EXCEPT ![JobOf[c]] = NoCall]
    /\ UNCHANGED <<callVars, permits, position, abortRequested,
                   endVars>>

\* The executor panics: unwinding drops the permit, the rest of the task never
\* runs, so its entry stays.
Panic(c) ==
    /\ Alive
    /\ c \in Panicky
    /\ taskPc[c] = "executing"
    /\ ReleasePermit(c, "panicked")
    /\ UNCHANGED <<callVars, mapVars, endVars>>

\* An abort takes effect where the task next yields: its future is dropped, and
\* with it the place in the queue or the permit it holds.
AbortTakesEffect(c) ==
    /\ Alive
    /\ c \in abortRequested
    /\ \/ /\ taskPc[c] \in Holding
          /\ ReleasePermit(c, "aborted")
       \/ /\ taskPc[c] \in {"spawned", "waiting", "released"}
          /\ taskPc' = [taskPc EXCEPT ![c] = "aborted"]
          /\ IF taskPc[c] = "waiting" THEN LeaveQueue(c) ELSE UNCHANGED position
          /\ UNCHANGED permits
    /\ UNCHANGED <<callVars, mapVars, endVars>>

-----------------------------------------------------------------------------
(* cancel_job() and wait_for_completion()                                  *)

\* Remove the entry and abort its task; without an entry the call is an error
\* that changes nothing.
CancelJob(j) ==
    /\ Alive
    /\ tracked[j] # NoCall
    /\ tracked' = [tracked EXCEPT ![j] = NoCall]
    /\ abortRequested' = abortRequested \cup {tracked[j]}
    /\ UNCHANGED <<callVars, semVars, endVars>>

\* main receives ctrl-c and calls wait_for_completion.
BeginShutdown ==
    /\ shutdown = "serving"
    /\ shutdown' = "draining"
    /\ UNCHANGED <<callVars, semVars, mapVars, polls>>

\* Faulty variant: the deadline is never compared.
PollForever ==
    /\ shutdown = "draining"
    /\ shutdown' = IF ActiveJobs = {} THEN "drained" ELSE shutdown
    /\ polls' = IF polls < MaxPolls THEN polls + 1 ELSE polls
    /\ UNCHANGED <<callVars, semVars, mapVars>>

\* Faulty variant: only jobs that hold a permit are waited for.
PollHolders ==
    /\ shutdown = "draining"
    /\ shutdown' = IF Holders = {} THEN "drained"
                   ELSE IF polls = MaxPolls THEN "timedOut" ELSE shutdown
    /\ polls' = IF polls < MaxPolls THEN polls + 1 ELSE polls
    /\ UNCHANGED <<callVars, semVars, mapVars>>

\* One turn of the polling loop.
Poll ==
    /\ shutdown = "draining"
    /\ \/ /\ ActiveJobs = {}
          /\ shutdown' = "drained"
          /\ UNCHANGED polls
       \/ /\ ActiveJobs # {}
          /\ polls = MaxPolls
          /\ shutdown' = "timedOut"
          /\ UNCHANGED polls
       \/ /\ ActiveJobs # {}
          /\ polls < MaxPolls
          /\ polls' = polls + 1
          /\ UNCHANGED shutdown
    /\ UNCHANGED <<callVars, semVars, mapVars>>

-----------------------------------------------------------------------------

TaskStep(c) ==
    \/ Acquire(c)
    \/ StartGranted(c)
    \/ ExecutorReturns(c)
    \/ Untrack(c)
    \/ Panic(c)
    \/ AbortTakesEffect(c)

\* The process has exited: nothing happens any more.
Exited == ~ Alive /\ UNCHANGED schedVars

SchedulerNext ==
    \/ \E c \in Calls : CheckAndSpawn(c) \/ Track(c) \/ DropCall(c) \/ TaskStep(c)
    \/ \E j \in Jobs : CancelJob(j)
    \/ BeginShutdown
    \/ Poll
    \/ Exited

SchedulerSpec == SchedulerInit /\ [][SchedulerNext]_schedVars

\* The tokio runtime polls every task that can run, and every call that was not
\* dropped.  Nothing makes an executor return: no job or step timeout is enforced
\* anywhere.
SchedulerFairness ==
    /\ \A c \in Calls :
          /\ WF_schedVars(Track(c))
          /\ WF_schedVars(Acquire(c))
          /\ WF_schedVars(StartGranted(c))
          /\ WF_schedVars(Untrack(c))
          /\ WF_schedVars(AbortTakesEffect(c))
    /\ WF_schedVars(Poll)

SchedulerFairSpec == SchedulerSpec /\ SchedulerFairness

-----------------------------------------------------------------------------
(* Properties                                                              *)

SchedulerTypeOK ==
    /\ callPc \in [Calls -> CallStates]
    /\ taskPc \in [Calls -> TaskStates]
    /\ abortRequested \subseteq Calls
    /\ permits \in 0 .. MaxConcurrent
    /\ position \in [Calls -> 0 .. Cardinality(Calls)]
    /\ tracked \in [Jobs -> Calls \cup {NoCall}]
    /\ shutdown \in ShutdownStates
    /\ polls \in 0 .. MaxPolls

\* No permit is lost or duplicated, however tasks end: by returning, by a
\* panic, or by an abort that hits them queued, granted or executing
\* (scheduler.rs:74-83 and the drops that unwinding and abort() cause).
PermitConservation == permits + Cardinality(Holders) = MaxConcurrent

\* At most max_concurrent_jobs executors run at any time (README.md:11).
ConcurrencyLimit == Cardinality(Executing) <= MaxConcurrent

\* No permit lies idle while a task is queued: a permit freed by any kind of
\* ending, that of an already queued and aborted task included, is passed on.
WorkConserving == permits > 0 => Waiting = {}

\* Another call with the job id of c got past the existence check.
Contested(c) ==
    \E d \in Calls \ {c} : JobOf[d] = JobOf[c] /\ taskPc[d] # "none"

\* A job whose submission was answered stays cancellable until its task is
\* over: as long as nobody cancelled it and no second call shares its id, the
\* map holds its handle, although insert and remove race (scheduler.rs:86, 110).
AcceptedIsTracked ==
    \A c \in Calls :
        /\ callPc[c] = "accepted"
        /\ taskPc[c] \notin Ended
        /\ c \notin abortRequested
        /\ ~ Contested(c)
        => tracked[JobOf[c]] = c

\* When wait_for_completion reports Ok, no job that was accepted, not cancelled
\* and not contested is queued or running: a graceful exit kills no such job.
GracefulDrain ==
    shutdown = "drained" =>
        \A c \in Calls :
            \/ callPc[c] # "accepted"
            \/ c \in abortRequested
            \/ Contested(c)
            \/ taskPc[c] \in Ended

\* A task queues for ever only if some executor runs for ever (or the process
\* exits): no wakeup is lost, whoever returns, panics or is aborted, and the
\* queue is never overtaken for good.
NoStarvation ==
    \A c \in Calls :
        \/ []<>(taskPc[c] # "waiting")
        \/ \E d \in Calls : <>[](taskPc[d] = "executing")
        \/ <>[](~ Alive)

\* wait_for_completion returns, even if an executor hangs or an entry is stale.
ShutdownEnds == (shutdown = "draining") ~> ~Alive

=============================================================================
