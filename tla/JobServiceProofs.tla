-------------------------- MODULE JobServiceProofs --------------------------
(***************************************************************************)
(* Proofs about JobScheduler and JobService, for every set of requests,    *)
(* every job id, every limit and every choice of panicking executors, in   *)
(* whatever order requests, tasks and cancellations take their steps.      *)
(*                                                                         *)
(* SemInv is the inductive invariant of the semaphore: types, the balance  *)
(* of permits, and that no permit is idle while a task queues.  TrackInv,  *)
(* inductive relative to SemInv, is what cancel_job and wait_for_completion *)
(* rely on.  The service implements the scheduler's specification, so that *)
(* both hold of it; Inv, about the closures and the store, gives the rest: *)
(* running means that a permit is held, and JobLifecycle is implemented.   *)
(***************************************************************************)
EXTENDS JobService, FiniteSetTheorems, SequenceTheorems, TLAPS

-----------------------------------------------------------------------------
(* The scheduler                                                           *)

\* The part of SchedulerTypeOK that is inductive by itself; permits get their upper
\* bound from PermitConservation.
TypeInv ==
    /\ callPc \in [Calls -> CallStates]
    /\ taskPc \in [Calls -> TaskStates]
    /\ abortRequested \subseteq Calls
    /\ permits \in Nat
    /\ position \in [Calls -> 0 .. Cardinality(Calls)]
    /\ tracked \in [Jobs -> Calls \cup {NoCall}]
    /\ shutdown \in ShutdownStates
    /\ polls \in 0 .. MaxPolls

\* A task exists for the calls that passed the existence check and no others; a
\* dropped call may be of either kind.
SpawnedTasks ==
    \A c \in Calls : /\ callPc[c] \in {"idle", "rejected"} => taskPc[c] = "none"
                     /\ callPc[c] \in {"spawned", "accepted"} => taskPc[c] # "none"

SemInv == TypeInv /\ SpawnedTasks /\ PermitConservation /\ WorkConserving

-----------------------------------------------------------------------------
(* Lemmas on the sets of tasks                                             *)

LEMMA HoldersFinite ==
    /\ IsFiniteSet(Holders) /\ Cardinality(Holders) \in Nat
    /\ IsFiniteSet(Waiting) /\ Cardinality(Waiting) \in Nat
    /\ IsFiniteSet(Executing) /\ Cardinality(Executing) \in Nat
    /\ Cardinality(Calls) \in Nat
<1>1. Holders \in SUBSET Calls /\ Waiting \in SUBSET Calls /\ Executing \in SUBSET Calls
  BY DEF Holders, Waiting, Executing
<1>2. QED
  BY <1>1, CallsAssumption, FS_Subset, FS_CardinalityType

\* There is room in the queue for a task that is not in it.
LEMMA RoomInQueue ==
    ASSUME NEW c \in Calls, c \notin Waiting
    PROVE  Cardinality(Waiting) + 1 \in 1 .. Cardinality(Calls)
<1>1. Waiting \cup {c} \in SUBSET Calls
  BY DEF Waiting
<1>2. Cardinality(Waiting \cup {c}) = Cardinality(Waiting) + 1
  BY HoldersFinite, FS_AddElement
<1>3. Cardinality(Waiting \cup {c}) <= Cardinality(Calls)
  BY <1>1, CallsAssumption, FS_Subset
<1>4. QED
  BY <1>2, <1>3, HoldersFinite

LEMMA LeaveQueueType ==
    ASSUME position \in [Calls -> 0 .. Cardinality(Calls)],
           NEW c \in Calls, LeaveQueue(c)
    PROVE  position' \in [Calls -> 0 .. Cardinality(Calls)]
BY HoldersFinite DEF LeaveQueue

\* What dropping a permit does, whoever drops it: the balance of permits is
\* kept and a queued task gets the permit if there is one.
LEMMA ReleasePermitLemma ==
    ASSUME TypeInv, PermitConservation, WorkConserving,
           NEW c \in Calls, taskPc[c] \in Holding,
           NEW pc \in {"released", "panicked", "aborted"},
           ReleasePermit(c, pc)
    PROVE  /\ taskPc' \in [Calls -> TaskStates]
           /\ permits' \in Nat
           /\ position' \in [Calls -> 0 .. Cardinality(Calls)]
           /\ PermitConservation'
           /\ WorkConserving'
           /\ \A d \in Calls : taskPc'[d] = "none" <=> taskPc[d] = "none"
<1> USE DEF TypeInv, Holding
<1>1. c \in Holders /\ pc \in TaskStates
  BY DEF Holders, TaskStates
<1>2. CASE /\ Waiting = {}
           /\ permits' = permits + 1
           /\ taskPc' = [taskPc EXCEPT ![c] = pc]
           /\ UNCHANGED position
  <2>1. Holders' = Holders \ {c}
    BY <1>2 DEF Holders
  <2>2. Cardinality(Holders') = Cardinality(Holders) - 1
    BY <1>1, <2>1, HoldersFinite, FS_RemoveElement
  <2>3. Waiting' = {}
    BY <1>2 DEF Waiting
  <2>4. PermitConservation'
    BY <1>2, <2>2, HoldersFinite, LimitsAssumption DEF PermitConservation
  <2>5. QED
    BY <1>1, <1>2, <2>3, <2>4 DEF WorkConserving
<1>3. ASSUME NEW w \in Waiting,
             taskPc' = [taskPc EXCEPT ![c] = pc, ![w] = "granted"],
             LeaveQueue(w), UNCHANGED permits
      PROVE  /\ taskPc' \in [Calls -> TaskStates]
             /\ permits' \in Nat
             /\ position' \in [Calls -> 0 .. Cardinality(Calls)]
             /\ PermitConservation'
             /\ WorkConserving'
             /\ \A d \in Calls : taskPc'[d] = "none" <=> taskPc[d] = "none"
  <2>1. w \in Calls /\ taskPc[w] = "waiting" /\ w # c /\ w \notin Holders \ {c}
    BY <1>3 DEF Waiting, Holders
  <2>2. Holders' = (Holders \ {c}) \cup {w}
    BY <1>1, <1>3, <2>1 DEF Holders
  <2>3. Cardinality(Holders') = Cardinality(Holders)
    <3>1. /\ IsFiniteSet(Holders \ {c})
          /\ Cardinality(Holders \ {c}) = Cardinality(Holders) - 1
      BY <1>1, HoldersFinite, FS_RemoveElement
    <3>2. Cardinality((Holders \ {c}) \cup {w}) = Cardinality(Holders \ {c}) + 1
      BY <2>1, <3>1, FS_AddElement
    <3>3. QED
      BY <2>2, <3>1, <3>2, HoldersFinite
  <2>4. permits = 0
    BY <1>3 DEF WorkConserving
  <2>5. taskPc' \in [Calls -> TaskStates]
    BY <1>1, <1>3, <2>1 DEF TaskStates
  <2>6. position' \in [Calls -> 0 .. Cardinality(Calls)]
    BY <1>3, <2>1, LeaveQueueType
  <2>7. PermitConservation' /\ WorkConserving'
    BY <1>3, <2>3, <2>4 DEF PermitConservation, WorkConserving
  <2>8. QED
    BY <1>3, <2>1, <2>5, <2>6, <2>7
<1>4. QED
  BY <1>2, <1>3 DEF ReleasePermit

\* A task that changes state without touching the semaphore's permits.
LEMMA KeepPermits ==
    ASSUME TypeInv, PermitConservation, WorkConserving, UNCHANGED permits,
           NEW c \in Calls, NEW pc \in TaskStates,
           taskPc' = [taskPc EXCEPT ![c] = pc],
           taskPc[c] \in Holding <=> pc \in Holding, pc # "waiting"
    PROVE  /\ taskPc' \in [Calls -> TaskStates]
           /\ PermitConservation'
           /\ WorkConserving'
<1>1. Holders' = Holders
  BY DEF TypeInv, Holders
<1>2. Waiting' \subseteq Waiting
  BY DEF TypeInv, Waiting
<1>3. QED
  BY <1>1, <1>2 DEF TypeInv, PermitConservation, WorkConserving

-----------------------------------------------------------------------------
(* The semaphore                                                           *)

LEMMA SemInvInit == SchedulerInit => SemInv
<1> SUFFICES ASSUME SchedulerInit PROVE SemInv
  OBVIOUS
<1>1. TypeInv
  BY HoldersFinite, LimitsAssumption
  DEF SchedulerInit, TypeInv, CallStates, TaskStates, ShutdownStates
<1>2. Holders = {} /\ Waiting = {}
  BY DEF SchedulerInit, Holders, Waiting, Holding
<1>3. PermitConservation
  BY <1>2, FS_EmptySet, LimitsAssumption DEF SchedulerInit, PermitConservation
<1>4. QED
  BY <1>1, <1>2, <1>3 DEF SchedulerInit, SemInv, SpawnedTasks, WorkConserving

LEMMA SemInvNext == SemInv /\ [SchedulerNext]_schedVars => SemInv'
<1> SUFFICES ASSUME SemInv, [SchedulerNext]_schedVars PROVE SemInv'
  OBVIOUS
<1> USE DEF SemInv, callVars, semVars, mapVars, endVars
<1>1. ASSUME NEW c \in Calls, CheckAndSpawn(c) PROVE SemInv'
  <2>1. CASE tracked[JobOf[c]] # NoCall
    <3>1. TypeInv' /\ SpawnedTasks'
      BY <1>1, <2>1 DEF CheckAndSpawn, TypeInv, SpawnedTasks, CallStates
    <3>2. PermitConservation' /\ WorkConserving'
      BY <1>1, <2>1
      DEF CheckAndSpawn, PermitConservation, WorkConserving, Holders, Waiting
    <3>3. QED
      BY <3>1, <3>2
  <2>2. CASE tracked[JobOf[c]] = NoCall
    <3>1. /\ callPc' = [callPc EXCEPT ![c] = "spawned"]
          /\ taskPc' = [taskPc EXCEPT ![c] = "spawned"]
          /\ taskPc[c] = "none"
      BY <1>1, <2>2 DEF CheckAndSpawn, SpawnedTasks
    <3>2. PermitConservation' /\ WorkConserving' /\ taskPc' \in [Calls -> TaskStates]
      BY <1>1, <3>1, KeepPermits DEF CheckAndSpawn, Holding, TaskStates
    <3>3. TypeInv'
      BY <1>1, <3>1, <3>2 DEF CheckAndSpawn, TypeInv, CallStates
    <3>4. SpawnedTasks'
      BY <3>1 DEF TypeInv, SpawnedTasks
    <3>5. QED
      BY <3>2, <3>3, <3>4
  <2>3. QED
    BY <2>1, <2>2
<1>2. ASSUME NEW c \in Calls, Track(c) PROVE SemInv'
  <2>1. TypeInv' /\ SpawnedTasks'
    BY <1>2, CallsAssumption DEF Track, TypeInv, SpawnedTasks, CallStates
  <2>2. PermitConservation' /\ WorkConserving'
    BY <1>2 DEF Track, PermitConservation, WorkConserving, Holders, Waiting
  <2>3. QED
    BY <2>1, <2>2
<1>0. ASSUME NEW c \in Calls, DropCall(c) PROVE SemInv'
  <2>1. TypeInv' /\ SpawnedTasks'
    BY <1>0 DEF DropCall, TypeInv, SpawnedTasks, CallStates
  <2>2. PermitConservation' /\ WorkConserving'
    BY <1>0 DEF DropCall, PermitConservation, WorkConserving, Holders, Waiting
  <2>3. QED
    BY <2>1, <2>2
<1>3. ASSUME NEW c \in Calls, Acquire(c) PROVE SemInv'
  <2>1. CASE permits > 0 /\ permits' = permits - 1 /\ UNCHANGED position
             /\ taskPc' = [taskPc EXCEPT ![c] = "executing"]
    <3>1. c \notin Holders /\ Holders' = Holders \cup {c}
      BY <1>3, <2>1 DEF Acquire, TypeInv, Holders, Holding
    <3>2. Cardinality(Holders') = Cardinality(Holders) + 1
      BY <3>1, HoldersFinite, FS_AddElement
    <3>3. Waiting' = {}
      BY <1>3, <2>1 DEF TypeInv, Waiting, WorkConserving
    <3>4. permits' \in Nat
      BY <2>1 DEF TypeInv
    <3>5. PermitConservation' /\ WorkConserving'
      BY <2>1, <3>2, <3>3, HoldersFinite, LimitsAssumption
      DEF TypeInv, PermitConservation, WorkConserving
    <3>6. TypeInv' /\ SpawnedTasks'
      BY <1>3, <2>1, <3>4 DEF Acquire, TypeInv, SpawnedTasks, TaskStates
    <3>7. QED
      BY <3>5, <3>6
  <2>2. CASE /\ permits = 0
             /\ taskPc' = [taskPc EXCEPT ![c] = "waiting"]
             /\ position' = [position EXCEPT ![c] = Cardinality(Waiting) + 1]
             /\ UNCHANGED permits
    <3>1. c \notin Waiting /\ Holders' = Holders
      BY <1>3, <2>2 DEF Acquire, TypeInv, Holders, Holding, Waiting
    <3>2. Cardinality(Waiting) + 1 \in 0 .. Cardinality(Calls)
      BY <3>1, RoomInQueue, HoldersFinite
    <3>3. PermitConservation' /\ WorkConserving'
      BY <2>2, <3>1 DEF PermitConservation, WorkConserving
    <3>4. TypeInv'
      BY <1>3, <2>2, <3>2 DEF Acquire, TypeInv, TaskStates
    <3>5. SpawnedTasks'
      BY <1>3, <2>2 DEF Acquire, TypeInv, SpawnedTasks
    <3>6. QED
      BY <3>3, <3>4, <3>5
  <2>3. QED
    BY <1>3, <2>1, <2>2 DEF Acquire
<1>4. ASSUME NEW c \in Calls, StartGranted(c) PROVE SemInv'
  <2>1. PermitConservation' /\ WorkConserving' /\ taskPc' \in [Calls -> TaskStates]
    BY <1>4, KeepPermits DEF StartGranted, Holding, TaskStates
  <2>2. TypeInv' /\ SpawnedTasks'
    BY <1>4, <2>1 DEF StartGranted, TypeInv, SpawnedTasks
  <2>3. QED
    BY <2>1, <2>2
<1>5. ASSUME NEW c \in Calls, ExecutorReturns(c) PROVE SemInv'
  BY <1>5, ReleasePermitLemma DEF ExecutorReturns, Holding, TypeInv, SpawnedTasks
<1>6. ASSUME NEW c \in Calls, Untrack(c) PROVE SemInv'
  <2>1. PermitConservation' /\ WorkConserving' /\ taskPc' \in [Calls -> TaskStates]
    BY <1>6, KeepPermits DEF Untrack, Holding, TaskStates
  <2>2. TypeInv' /\ SpawnedTasks'
    BY <1>6, <2>1, CallsAssumption DEF Untrack, TypeInv, SpawnedTasks
  <2>3. QED
    BY <2>1, <2>2
<1>7. ASSUME NEW c \in Calls, Panic(c) PROVE SemInv'
  BY <1>7, ReleasePermitLemma DEF Panic, Holding, TypeInv, SpawnedTasks
<1>8. ASSUME NEW c \in Calls, AbortTakesEffect(c) PROVE SemInv'
  <2>1. CASE taskPc[c] \in Holding /\ ReleasePermit(c, "aborted")
    BY <1>8, <2>1, ReleasePermitLemma DEF AbortTakesEffect, TypeInv, SpawnedTasks
  <2>2. CASE /\ taskPc[c] \in {"spawned", "waiting", "released"}
             /\ taskPc' = [taskPc EXCEPT ![c] = "aborted"]
             /\ IF taskPc[c] = "waiting" THEN LeaveQueue(c) ELSE UNCHANGED position
             /\ UNCHANGED permits
    <3>1. PermitConservation' /\ WorkConserving' /\ taskPc' \in [Calls -> TaskStates]
      BY <2>2, KeepPermits DEF Holding, TaskStates
    <3>2. position' \in [Calls -> 0 .. Cardinality(Calls)]
      BY <2>2, LeaveQueueType DEF TypeInv
    <3>3. TypeInv' /\ SpawnedTasks'
      BY <1>8, <2>2, <3>1, <3>2 DEF AbortTakesEffect, TypeInv, SpawnedTasks
    <3>4. QED
      BY <3>1, <3>3
  <2>3. QED
    BY <1>8, <2>1, <2>2 DEF AbortTakesEffect
<1>9. ASSUME NEW j \in Jobs, CancelJob(j) PROVE SemInv'
  <2>1. TypeInv' /\ SpawnedTasks'
    BY <1>9 DEF CancelJob, TypeInv, SpawnedTasks
  <2>2. PermitConservation' /\ WorkConserving'
    BY <1>9 DEF CancelJob, PermitConservation, WorkConserving, Holders, Waiting
  <2>3. QED
    BY <2>1, <2>2
<1>10. CASE BeginShutdown \/ Poll
  <2>1. UNCHANGED <<callPc, taskPc, abortRequested, permits, position, tracked>>
    BY <1>10 DEF BeginShutdown, Poll
  <2>2. shutdown' \in ShutdownStates /\ polls' \in 0 .. MaxPolls
    BY <1>10, LimitsAssumption DEF BeginShutdown, Poll, TypeInv, ShutdownStates
  <2>3. QED
    BY <2>1, <2>2
    DEF TypeInv, SpawnedTasks, PermitConservation, WorkConserving, Holders, Waiting
<1>11. CASE UNCHANGED schedVars
  BY <1>11 DEF schedVars, TypeInv, SpawnedTasks, PermitConservation, WorkConserving,
               Holders, Waiting
<1>12. QED
  BY <1>0, <1>1, <1>2, <1>3, <1>4, <1>5, <1>6, <1>7, <1>8, <1>9, <1>10, <1>11
  DEF SchedulerNext, TaskStep, Exited

LEMMA SemInvAlways == SchedulerSpec => []SemInv
BY SemInvInit, SemInvNext, PTL DEF SchedulerSpec

\* Every variable keeps its type; permits never exceed the limit.
THEOREM SchedulerTypeCorrect == SchedulerSpec => []SchedulerTypeOK
<1>1. SemInv => SchedulerTypeOK
  BY HoldersFinite, LimitsAssumption
  DEF SemInv, TypeInv, PermitConservation, SchedulerTypeOK
<1>2. QED
  BY <1>1, SemInvAlways, PTL

\* Permits are conserved over returns, panics and aborts (scheduler.rs:74-83).
THEOREM PermitsConserved == SchedulerSpec => []PermitConservation
<1>1. SemInv => PermitConservation
  BY DEF SemInv
<1>2. QED
  BY <1>1, SemInvAlways, PTL

\* max_concurrent_jobs is a bound on the executors that run (README.md:11).
THEOREM LimitRespected == SchedulerSpec => []ConcurrencyLimit
<1>1. SemInv => ConcurrencyLimit
  <2> SUFFICES ASSUME SemInv PROVE ConcurrencyLimit
    OBVIOUS
  <2>1. Executing \in SUBSET Holders
    BY DEF Executing, Holders, Holding
  <2>2. Cardinality(Executing) <= Cardinality(Holders)
    BY <2>1, HoldersFinite, FS_Subset
  <2>3. QED
    BY <2>2, HoldersFinite, LimitsAssumption
    DEF SemInv, TypeInv, PermitConservation, ConcurrencyLimit
<1>2. QED
  BY <1>1, SemInvAlways, PTL

\* A freed permit never lies idle while a task queues (scheduler.rs:74-83).
THEOREM NoIdlePermit == SchedulerSpec => []WorkConserving
<1>1. SemInv => WorkConserving
  BY DEF SemInv
<1>2. QED
  BY <1>1, SemInvAlways, PTL

-----------------------------------------------------------------------------
(* The semaphore's queue                                                   *)

\* The waiting tasks have the places 1, 2, ... of the queue, one each.
QueueInv ==
    /\ \A c \in Calls : position[c] # 0 <=> c \in Waiting
    /\ \A c, d \in Waiting : position[c] = position[d] => c = d
    /\ \A c \in Waiting : position[c] <= Cardinality(Waiting)
    /\ \A i \in 1 .. Cardinality(Waiting) : \E c \in Waiting : position[c] = i

\* Nobody falls back or is overtaken while it waits.
OrderKept ==
    \A c, d \in Waiting \cap Waiting' :
        /\ position'[c] <= position[c]
        /\ position[c] < position[d] => position'[c] < position'[d]

\* The steps that let nobody in or out of the queue.
LEMMA QueueUntouched ==
    ASSUME SemInv, QueueInv, Waiting' = Waiting, UNCHANGED position
    PROVE  QueueInv' /\ OrderKept
<1>1. \A c \in Waiting : c \in Calls /\ position[c] \in Int
  BY HoldersFinite DEF SemInv, TypeInv, Waiting
<1>2. QED
  BY <1>1 DEF QueueInv, OrderKept

LEMMA QueueJoined ==
    ASSUME SemInv, QueueInv, NEW c \in Calls, c \notin Waiting, Waiting' = Waiting \cup {c},
           position' = [position EXCEPT ![c] = Cardinality(Waiting) + 1]
    PROVE  QueueInv' /\ OrderKept
<1> DEFINE n == Cardinality(Waiting)
<1>1. n \in Nat /\ Cardinality(Waiting') = n + 1
  BY HoldersFinite, FS_AddElement
<1>2. /\ \A d \in Calls : position[d] \in Nat
      /\ \A d \in Calls : position'[d] = IF d = c THEN n + 1 ELSE position[d]
      /\ Waiting \subseteq Calls
  BY HoldersFinite DEF SemInv, TypeInv, Waiting
<1> HIDE DEF n
<1>3. \A i \in 1 .. n + 1 : \E d \in Waiting \cup {c} : position'[d] = i
  <2> SUFFICES ASSUME NEW i \in 1 .. n + 1 PROVE \E d \in Waiting \cup {c} : position'[d] = i
    OBVIOUS
  <2>1. CASE i = n + 1
    BY <1>2, <2>1
  <2>2. CASE i # n + 1
    <3>1. PICK d \in Waiting : position[d] = i
      BY <1>1, <2>2 DEF QueueInv, n
    <3>2. QED
      BY <1>2, <3>1
  <2>3. QED
    BY <2>1, <2>2
<1>4. \A d \in Waiting : position[d] <= n /\ d # c
  BY DEF QueueInv, n
<1>5. QueueInv'
  <2>1. \A d \in Calls : position'[d] # 0 <=> d \in Waiting'
    BY <1>1, <1>2 DEF QueueInv
  <2>2. \A d, e \in Waiting' : position'[d] = position'[e] => d = e
    BY <1>1, <1>2, <1>4 DEF QueueInv
  <2>3. \A d \in Waiting' : position'[d] <= Cardinality(Waiting')
    BY <1>1, <1>2, <1>4
  <2>4. QED
    BY <1>1, <1>3, <2>1, <2>2, <2>3 DEF QueueInv
<1>6. OrderKept
  BY <1>2, <1>4 DEF OrderKept
<1>7. QED
  BY <1>5, <1>6

LEMMA QueueLeft ==
    ASSUME SemInv, QueueInv, NEW c \in Waiting, Waiting' = Waiting \ {c}, LeaveQueue(c)
    PROVE  QueueInv' /\ OrderKept
<1> DEFINE n == Cardinality(Waiting)
<1>1. n \in Nat /\ Cardinality(Waiting') = n - 1
  BY HoldersFinite, FS_RemoveElement
<1>2. /\ \A d \in Calls : position[d] \in Nat
      /\ \A d \in Calls : position'[d] = IF d = c THEN 0
                                         ELSE IF position[d] > position[c] THEN position[d] - 1
                                         ELSE position[d]
      /\ Waiting \subseteq Calls
  BY HoldersFinite DEF SemInv, TypeInv, Waiting, LeaveQueue
<1> HIDE DEF n
<1>3. /\ \A d \in Waiting : position[d] \in 1 .. n
      /\ \A d \in Waiting : position[d] = position[c] => d = c
      /\ \A d \in Calls : d \notin Waiting => position[d] = 0
  BY <1>1, <1>2 DEF QueueInv, n
<1>4. \A i \in 1 .. n - 1 : \E d \in Waiting \ {c} : position'[d] = i
  <2> SUFFICES ASSUME NEW i \in 1 .. n - 1 PROVE \E d \in Waiting \ {c} : position'[d] = i
    OBVIOUS
  <2>1. CASE i < position[c]
    <3>1. PICK d \in Waiting : position[d] = i
      BY <1>1 DEF QueueInv, n
    <3>2. QED
      BY <1>2, <1>3, <2>1, <3>1
  <2>2. CASE i >= position[c]
    <3>1. PICK d \in Waiting : position[d] = i + 1
      BY <1>1 DEF QueueInv, n
    <3>2. position'[d] = i /\ d # c
      BY <1>2, <1>3, <2>2, <3>1
    <3>3. QED
      BY <3>2
  <2>3. QED
    BY <1>2, <2>1, <2>2
<1>5. QueueInv'
  <2>1. \A d \in Calls : position'[d] # 0 <=> d \in Waiting'
    BY <1>2, <1>3
  <2>2. \A d, e \in Waiting' : position'[d] = position'[e] => d = e
    <3> SUFFICES ASSUME NEW d \in Waiting \ {c}, NEW e \in Waiting \ {c}, position'[d] = position'[e]
                 PROVE  d = e
      OBVIOUS
    <3>1. position[d] = position[e]
      BY <1>2, <1>3
    <3>2. QED
      BY <3>1 DEF QueueInv
  <2>3. \A d \in Waiting' : position'[d] <= Cardinality(Waiting')
    BY <1>1, <1>2, <1>3
  <2>4. QED
    BY <1>1, <1>4, <2>1, <2>2, <2>3 DEF QueueInv
<1>6. OrderKept
  BY <1>2, <1>3 DEF OrderKept
<1>7. QED
  BY <1>5, <1>6

LEMMA QueueReleased ==
    ASSUME SemInv, QueueInv, NEW c \in Calls, taskPc[c] \in Holding,
           NEW pc \in {"released", "panicked", "aborted"}, ReleasePermit(c, pc)
    PROVE  QueueInv' /\ OrderKept
<1>1. CASE taskPc' = [taskPc EXCEPT ![c] = pc] /\ UNCHANGED position
  <2>1. Waiting' = Waiting
    BY <1>1 DEF SemInv, TypeInv, Holding, Waiting
  <2>2. QED
    BY <1>1, <2>1, QueueUntouched
<1>2. ASSUME NEW w \in Waiting, taskPc' = [taskPc EXCEPT ![c] = pc, ![w] = "granted"], LeaveQueue(w)
      PROVE  QueueInv' /\ OrderKept
  <2>1. Waiting' = Waiting \ {w}
    BY <1>2 DEF SemInv, TypeInv, Holding, Waiting
  <2>2. QED
    BY <1>2, <2>1, QueueLeft
<1>3. QED
  BY <1>1, <1>2 DEF ReleasePermit

LEMMA QueueNext == ASSUME SemInv, QueueInv, [SchedulerNext]_schedVars PROVE QueueInv' /\ OrderKept
<1> USE DEF callVars, semVars, mapVars, endVars
<1>1. ASSUME NEW c \in Calls, CheckAndSpawn(c) PROVE QueueInv' /\ OrderKept
  <2>1. callPc[c] = "idle" /\ UNCHANGED position
        /\ (taskPc' = taskPc \/ taskPc' = [taskPc EXCEPT ![c] = "spawned"])
    BY <1>1 DEF CheckAndSpawn
  <2>2. taskPc[c] = "none"
    BY <2>1 DEF SemInv, SpawnedTasks
  <2>3. Waiting' = Waiting
    BY <2>1, <2>2 DEF SemInv, TypeInv, Waiting
  <2>4. QED
    BY <2>1, <2>3, QueueUntouched
<1>2. ASSUME NEW c \in Calls, Acquire(c) PROVE QueueInv' /\ OrderKept
  <2>1. c \notin Waiting
    BY <1>2 DEF Acquire, Waiting
  <2>2. CASE taskPc' = [taskPc EXCEPT ![c] = "executing"] /\ UNCHANGED position
    <3>1. Waiting' = Waiting
      BY <2>1, <2>2 DEF SemInv, TypeInv, Waiting
    <3>2. QED
      BY <2>2, <3>1, QueueUntouched
  <2>3. CASE /\ taskPc' = [taskPc EXCEPT ![c] = "waiting"]
             /\ position' = [position EXCEPT ![c] = Cardinality(Waiting) + 1]
    <3>1. Waiting' = Waiting \cup {c}
      BY <2>1, <2>3 DEF SemInv, TypeInv, Waiting
    <3>2. QED
      BY <2>1, <2>3, <3>1, QueueJoined
  <2>4. QED
    BY <1>2, <2>2, <2>3 DEF Acquire
<1>3. ASSUME NEW c \in Calls, StartGranted(c) \/ Untrack(c) PROVE QueueInv' /\ OrderKept
  <2>1. Waiting' = Waiting /\ UNCHANGED position
    BY <1>3 DEF StartGranted, Untrack, SemInv, TypeInv, Waiting
  <2>2. QED
    BY <2>1, QueueUntouched
<1>4. ASSUME NEW c \in Calls, ExecutorReturns(c) \/ Panic(c) PROVE QueueInv' /\ OrderKept
  BY <1>4, QueueReleased DEF ExecutorReturns, Panic, Holding
<1>5. ASSUME NEW c \in Calls, AbortTakesEffect(c) PROVE QueueInv' /\ OrderKept
  <2>1. CASE taskPc[c] \in Holding /\ ReleasePermit(c, "aborted")
    BY <2>1, QueueReleased
  <2>2. CASE taskPc[c] = "waiting" /\ taskPc' = [taskPc EXCEPT ![c] = "aborted"] /\ LeaveQueue(c)
    <3>1. c \in Waiting /\ Waiting' = Waiting \ {c}
      BY <2>2 DEF SemInv, TypeInv, Waiting
    <3>2. QED
      BY <2>2, <3>1, QueueLeft
  <2>3. CASE /\ taskPc[c] \in {"spawned", "released"} /\ UNCHANGED position
             /\ taskPc' = [taskPc EXCEPT ![c] = "aborted"]
    <3>1. Waiting' = Waiting
      BY <2>3 DEF SemInv, TypeInv, Waiting
    <3>2. QED
      BY <2>3, <3>1, QueueUntouched
  <2>4. QED
    BY <1>5, <2>1, <2>2, <2>3 DEF AbortTakesEffect
<1>6. CASE \/ \E c \in Calls : Track(c) \/ DropCall(c)
           \/ \E j \in Jobs : CancelJob(j)
           \/ BeginShutdown \/ Poll \/ Exited \/ UNCHANGED schedVars
  <2>1. Waiting' = Waiting /\ UNCHANGED position
    BY <1>6 DEF Track, DropCall, CancelJob, BeginShutdown, Poll, Exited, schedVars, Waiting
  <2>2. QED
    BY <2>1, QueueUntouched
<1>7. QED
  BY <1>1, <1>2, <1>3, <1>4, <1>5, <1>6 DEF SchedulerNext, TaskStep

LEMMA QueueHolds == SchedulerSpec => []QueueInv
<1>1. SchedulerInit => QueueInv
  <2> SUFFICES ASSUME SchedulerInit PROVE QueueInv
    OBVIOUS
  <2>1. Waiting = {} /\ \A c \in Calls : position[c] = 0
    BY DEF SchedulerInit, Waiting
  <2>2. QED
    BY <2>1, FS_EmptySet DEF QueueInv
<1>2. QED
  BY <1>1, QueueNext, SemInvAlways, PTL DEF SchedulerSpec

\* A permit can always be given back: either nobody waits, or somebody is first in the
\* queue to take it, whoever was aborted while it waited.
THEOREM QueueHasHead == SchedulerSpec => [](Waiting = {} \/ \E w \in Waiting : position[w] = 1)
<1>1. SemInv /\ QueueInv => (Waiting = {} \/ \E w \in Waiting : position[w] = 1)
  <2> SUFFICES ASSUME QueueInv, Waiting # {} PROVE \E w \in Waiting : position[w] = 1
    OBVIOUS
  <2>1. Cardinality(Waiting) \in Nat /\ Cardinality(Waiting) # 0
    BY HoldersFinite, FS_EmptySet
  <2>2. QED
    BY <2>1 DEF QueueInv
<1>2. QED
  BY <1>1, SemInvAlways, QueueHolds, PTL

\* The queue is first come, first served: no task that waits is overtaken by one that
\* came later, whatever the others end by.
THEOREM NobodyOvertakes == SchedulerSpec => [][OrderKept]_schedVars
<1>1. SemInv /\ QueueInv /\ [SchedulerNext]_schedVars => [OrderKept]_schedVars
  BY QueueNext
<1>2. QED
  BY <1>1, SemInvAlways, QueueHolds, PTL DEF SchedulerSpec

-----------------------------------------------------------------------------
(* current_jobs                                                            *)

\* An entry belongs to an answered call for that very id; uncontested live jobs
\* have theirs, and draining the map therefore drained them.
TrackInv ==
    /\ \A j \in Jobs : tracked[j] # NoCall =>
            callPc[tracked[j]] = "accepted" /\ JobOf[tracked[j]] = j
    /\ AcceptedIsTracked
    /\ GracefulDrain

LEMMA TrackInvInit == SchedulerInit => TrackInv
BY CallsAssumption DEF SchedulerInit, TrackInv, AcceptedIsTracked, GracefulDrain

\* No task comes back to life, and none is unmade.
NobodyRevives ==
    \A d \in Calls : /\ taskPc[d] \in Ended => taskPc'[d] \in Ended
                     /\ taskPc[d] # "none" => taskPc'[d] # "none"

\* A step that touches neither current_jobs nor the calls and brings no task
\* back to life.
LEMMA TaskStepKeepsTrackInv ==
    ASSUME SemInv, TrackInv, Alive,
           UNCHANGED <<callPc, abortRequested, tracked, shutdown>>,
           NobodyRevives
    PROVE  TrackInv'
<1> USE DEF NobodyRevives
<1>1. \A d \in Calls : Contested(d) => Contested(d)'
  BY DEF Contested
<1>2. AcceptedIsTracked'
  BY <1>1 DEF TrackInv, AcceptedIsTracked
<1>3. GracefulDrain'
  BY DEF Alive, GracefulDrain
<1>4. QED
  BY <1>2, <1>3 DEF TrackInv

\* Dropping a permit resumes a queued task and ends or releases a running one.
LEMMA ReleaseKeepsEnded ==
    ASSUME SemInv, NEW c \in Calls, taskPc[c] \in Holding,
           NEW pc \in {"released", "panicked", "aborted"}, ReleasePermit(c, pc)
    PROVE  NobodyRevives
<1>1. ASSUME taskPc' = [taskPc EXCEPT ![c] = pc]
      PROVE  \A d \in Calls : taskPc[d] \in Ended => taskPc'[d] \in Ended
  BY <1>1 DEF SemInv, TypeInv, Holding, Ended
<1>2. ASSUME NEW w \in Waiting, taskPc' = [taskPc EXCEPT ![c] = pc, ![w] = "granted"]
      PROVE  \A d \in Calls : taskPc[d] \in Ended => taskPc'[d] \in Ended
  BY <1>2 DEF SemInv, TypeInv, Holding, Ended, Waiting
<1>3. \A d \in Calls : taskPc[d] \in Ended => taskPc'[d] \in Ended
  BY <1>1, <1>2 DEF ReleasePermit
<1>4. \A d \in Calls : taskPc[d] # "none" => taskPc'[d] # "none"
  BY ReleasePermitLemma DEF SemInv
<1>5. QED
  BY <1>3, <1>4 DEF NobodyRevives

LEMMA TrackInvNext == SemInv /\ TrackInv /\ [SchedulerNext]_schedVars => TrackInv'
<1> SUFFICES ASSUME SemInv, TrackInv, [SchedulerNext]_schedVars PROVE TrackInv'
  OBVIOUS
<1> USE DEF callVars, semVars, mapVars, endVars
<1>1. ASSUME NEW c \in Calls, CheckAndSpawn(c) PROVE TrackInv'
  <2>1. callPc[c] = "idle" /\ Alive /\ UNCHANGED <<tracked, abortRequested, shutdown>>
    BY <1>1 DEF CheckAndSpawn
  <2>2. /\ callPc' \in [Calls -> CallStates]
        /\ callPc'[c] # "accepted"
        /\ \A d \in Calls \ {c} : callPc'[d] = callPc[d] /\ taskPc'[d] = taskPc[d]
    BY <1>1 DEF CheckAndSpawn, SemInv, TypeInv, CallStates
  <2>3. \A d \in Calls \ {c} : Contested(d) => Contested(d)'
    BY <1>1, <2>1 DEF Contested, CheckAndSpawn, SemInv, TypeInv, SpawnedTasks
  <2>4. AcceptedIsTracked'
    BY <2>1, <2>2, <2>3 DEF TrackInv, AcceptedIsTracked
  <2>5. \A j \in Jobs : tracked'[j] # NoCall =>
            callPc'[tracked'[j]] = "accepted" /\ JobOf[tracked'[j]] = j
    BY <2>1, <2>2 DEF TrackInv, SemInv, TypeInv
  <2>6. QED
    BY <2>1, <2>4, <2>5 DEF TrackInv, GracefulDrain, Alive
<1>2. ASSUME NEW c \in Calls, Track(c) PROVE TrackInv'
  <2>1. /\ callPc' = [callPc EXCEPT ![c] = "accepted"]
        /\ tracked' = [tracked EXCEPT ![JobOf[c]] = c]
        /\ Alive /\ callPc[c] = "spawned"
        /\ UNCHANGED <<taskPc, abortRequested, shutdown>>
    BY <1>2 DEF Track
  <2>2. JobOf[c] \in Jobs
    BY CallsAssumption
  <2>3. \A d \in Calls : Contested(d) => Contested(d)'
    BY <2>1 DEF Contested, SemInv, TypeInv
  <2>4. \A d \in Calls \ {c} : JobOf[d] = JobOf[c] => Contested(d)'
    BY <2>1 DEF Contested, SemInv, TypeInv, SpawnedTasks
  <2>5. AcceptedIsTracked'
    <3> SUFFICES ASSUME NEW d \in Calls, callPc'[d] = "accepted", taskPc'[d] \notin Ended,
                        d \notin abortRequested', ~ Contested(d)'
                 PROVE  tracked'[JobOf[d]] = d
      BY DEF AcceptedIsTracked
    <3>1. CASE d = c
      BY <2>1, <2>2, <3>1 DEF SemInv, TypeInv
    <3>2. CASE d # c
      <4>1. JobOf[d] # JobOf[c] /\ callPc[d] = "accepted" /\ JobOf[d] \in Jobs
        BY <2>1, <2>4, <3>2, CallsAssumption DEF SemInv, TypeInv
      <4>2. tracked[JobOf[d]] = d
        BY <2>1, <2>3, <4>1 DEF TrackInv, AcceptedIsTracked
      <4>3. QED
        BY <2>1, <4>1, <4>2 DEF SemInv, TypeInv
    <3>3. QED
      BY <3>1, <3>2
  <2>6. \A j \in Jobs : tracked'[j] # NoCall =>
            callPc'[tracked'[j]] = "accepted" /\ JobOf[tracked'[j]] = j
    BY <2>1, <2>2 DEF TrackInv, SemInv, TypeInv
  <2>7. QED
    BY <2>1, <2>5, <2>6 DEF TrackInv, GracefulDrain, Alive
<1>3. ASSUME NEW c \in Calls, Acquire(c) PROVE TrackInv'
  <2>1. NobodyRevives
    BY <1>3 DEF Acquire, SemInv, TypeInv, Ended, NobodyRevives
  <2>2. QED
    BY <1>3, <2>1, TaskStepKeepsTrackInv DEF Acquire
<1>4. ASSUME NEW c \in Calls, StartGranted(c) PROVE TrackInv'
  <2>1. NobodyRevives
    BY <1>4 DEF StartGranted, SemInv, TypeInv, Ended, NobodyRevives
  <2>2. QED
    BY <1>4, <2>1, TaskStepKeepsTrackInv DEF StartGranted
<1>5. ASSUME NEW c \in Calls, ExecutorReturns(c) \/ Panic(c) PROVE TrackInv'
  <2>1. NobodyRevives
    BY <1>5, ReleaseKeepsEnded DEF ExecutorReturns, Panic, Holding
  <2>2. QED
    BY <1>5, <2>1, TaskStepKeepsTrackInv DEF ExecutorReturns, Panic
<1>6. ASSUME NEW c \in Calls, Untrack(c) PROVE TrackInv'
  <2>1. /\ taskPc[c] = "released" /\ taskPc' = [taskPc EXCEPT ![c] = "finished"]
        /\ tracked' = [tracked EXCEPT ![JobOf[c]] = NoCall]
        /\ Alive /\ UNCHANGED <<callPc, abortRequested, shutdown>>
    BY <1>6 DEF Untrack
  <2>3. \A d \in Calls : Contested(d)' <=> Contested(d)
    BY <2>1 DEF Contested, SemInv, TypeInv
  <2>4. \A d \in Calls \ {c} : JobOf[d] = JobOf[c] => Contested(d)
    BY <2>1 DEF Contested
  <2>5. AcceptedIsTracked'
    <3> SUFFICES ASSUME NEW d \in Calls, callPc'[d] = "accepted", taskPc'[d] \notin Ended,
                        d \notin abortRequested', ~ Contested(d)'
                 PROVE  tracked'[JobOf[d]] = d
      BY DEF AcceptedIsTracked
    <3>1. d # c /\ taskPc[d] \notin Ended
      BY <2>1 DEF SemInv, TypeInv, Ended
    <3>2. JobOf[d] # JobOf[c] /\ JobOf[d] \in Jobs
      BY <2>3, <2>4, <3>1, CallsAssumption
    <3>3. tracked[JobOf[d]] = d
      BY <2>1, <2>3, <3>1 DEF TrackInv, AcceptedIsTracked
    <3>4. QED
      BY <2>1, <3>2, <3>3 DEF SemInv, TypeInv
  <2>6. \A j \in Jobs : tracked'[j] # NoCall =>
            callPc'[tracked'[j]] = "accepted" /\ JobOf[tracked'[j]] = j
    BY <2>1 DEF TrackInv, SemInv, TypeInv
  <2>7. QED
    BY <2>1, <2>5, <2>6 DEF TrackInv, GracefulDrain, Alive
<1>7. ASSUME NEW c \in Calls, AbortTakesEffect(c) PROVE TrackInv'
  <2>1. CASE taskPc[c] \in Holding /\ ReleasePermit(c, "aborted")
    <3>1. NobodyRevives
      BY <2>1, ReleaseKeepsEnded
    <3>2. QED
      BY <1>7, <3>1, TaskStepKeepsTrackInv DEF AbortTakesEffect
  <2>2. CASE taskPc' = [taskPc EXCEPT ![c] = "aborted"]
    <3>1. NobodyRevives
      BY <1>7, <2>2 DEF AbortTakesEffect, SemInv, TypeInv, Holding, Ended, NobodyRevives
    <3>2. QED
      BY <1>7, <3>1, TaskStepKeepsTrackInv DEF AbortTakesEffect
  <2>3. QED
    BY <1>7, <2>1, <2>2 DEF AbortTakesEffect
<1>8. ASSUME NEW j \in Jobs, CancelJob(j) PROVE TrackInv'
  <2>1. /\ tracked[j] # NoCall /\ tracked' = [tracked EXCEPT ![j] = NoCall]
        /\ abortRequested' = abortRequested \cup {tracked[j]}
        /\ Alive /\ UNCHANGED <<callPc, taskPc, shutdown>>
    BY <1>8 DEF CancelJob
  <2>2. \A d \in Calls : Contested(d)' <=> Contested(d)
    BY <2>1 DEF Contested
  <2>3. AcceptedIsTracked'
    BY <2>1, <2>2, CallsAssumption DEF TrackInv, AcceptedIsTracked, SemInv, TypeInv
  <2>4. \A i \in Jobs : tracked'[i] # NoCall =>
            callPc'[tracked'[i]] = "accepted" /\ JobOf[tracked'[i]] = i
    BY <2>1 DEF TrackInv, SemInv, TypeInv
  <2>5. QED
    BY <2>1, <2>3, <2>4 DEF TrackInv, GracefulDrain, Alive
<1>0. ASSUME NEW c \in Calls, DropCall(c) PROVE TrackInv'
  <2>1. /\ callPc[c] \in {"idle", "spawned", "rejected"}
        /\ callPc' = [callPc EXCEPT ![c] = "dropped"]
        /\ Alive /\ UNCHANGED <<taskPc, tracked, abortRequested, shutdown>>
    BY <1>0 DEF DropCall
  <2>2. \A d \in Calls : Contested(d)' <=> Contested(d)
    BY <2>1 DEF Contested
  <2>3. AcceptedIsTracked'
    BY <2>1, <2>2 DEF TrackInv, AcceptedIsTracked, SemInv, TypeInv
  <2>4. \A j \in Jobs : tracked'[j] # NoCall =>
            callPc'[tracked'[j]] = "accepted" /\ JobOf[tracked'[j]] = j
    BY <2>1 DEF TrackInv, SemInv, TypeInv
  <2>5. QED
    BY <2>1, <2>3, <2>4 DEF TrackInv, GracefulDrain, Alive
<1>9. CASE BeginShutdown \/ Poll
  <2>1. UNCHANGED <<callPc, taskPc, abortRequested, tracked>>
    BY <1>9 DEF BeginShutdown, Poll
  <2>2. \A d \in Calls : Contested(d)' <=> Contested(d)
    BY <2>1 DEF Contested
  <2>3. AcceptedIsTracked'
    BY <2>1, <2>2 DEF TrackInv, AcceptedIsTracked
  <2>4. shutdown' = "drained" => ActiveJobs = {}
    BY <1>9 DEF BeginShutdown, Poll
  <2>5. ASSUME ActiveJobs = {}
        PROVE  \A c \in Calls : \/ callPc[c] # "accepted"
                                 \/ c \in abortRequested
                                 \/ Contested(c)
                                 \/ taskPc[c] \in Ended
    BY <2>5, CallsAssumption DEF ActiveJobs, TrackInv, AcceptedIsTracked
  <2>6. GracefulDrain'
    BY <2>1, <2>2, <2>4, <2>5 DEF GracefulDrain
  <2>7. QED
    BY <2>1, <2>3, <2>6 DEF TrackInv
<1>10. CASE UNCHANGED schedVars
  <2>1. \A d \in Calls : Contested(d)' <=> Contested(d)
    BY <1>10 DEF Contested, schedVars
  <2>2. QED
    BY <1>10, <2>1 DEF schedVars, TrackInv, AcceptedIsTracked, GracefulDrain
<1>11. QED
  BY <1>0, <1>1, <1>2, <1>3, <1>4, <1>5, <1>6, <1>7, <1>8, <1>9, <1>10
  DEF SchedulerNext, TaskStep, Exited

LEMMA TrackInvAlways == SchedulerSpec => []TrackInv
BY TrackInvInit, TrackInvNext, SemInvAlways, PTL DEF SchedulerSpec

\* An answered, uncancelled and uncontested live job is in current_jobs,
\* although its task's remove races with the insert (scheduler.rs:86, 110-113).
THEOREM AcceptedStaysTracked == SchedulerSpec => []AcceptedIsTracked
<1>1. TrackInv => AcceptedIsTracked
  BY DEF TrackInv
<1>2. QED
  BY <1>1, TrackInvAlways, PTL

\* Ok from wait_for_completion means that no such job is left (scheduler.rs:135-151).
THEOREM DrainIsGraceful == SchedulerSpec => []GracefulDrain
<1>1. TrackInv => GracefulDrain
  BY DEF TrackInv
<1>2. QED
  BY <1>1, TrackInvAlways, PTL

-----------------------------------------------------------------------------
(* The service                                                             *)

Begun(c) == reqPc[c] \in {"ready", "refused"}

Types ==
    /\ callPc \in [Calls -> CallStates]
    /\ taskPc \in [Calls -> TaskStates]
    /\ abortRequested \subseteq Calls
    /\ tracked \in [Jobs -> Calls \cup {NoCall}]
    /\ reqPc \in [Calls -> {"new", "denied", "broken", "ready", "refused"}]
    /\ bodyPc \in [Calls -> {"begin", "working", "recorded"}]
    /\ status \in [Jobs -> Statuses]

\* The scheduler aborts a task only for the cancellation of its own job, which is
\* the only way to the status cancelled.
AbortsAreAsked ==
    /\ \A j \in Jobs : tracked[j] # NoCall => JobOf[tracked[j]] = j /\ callPc[tracked[j]] = "accepted"
    /\ \A c \in abortRequested : CancelAsked(JobOf[c])

CancelledIsAsked == \A j \in Jobs : status[j] = "cancelled" => CancelAsked(j)

\* How far the task and its closure are.
TaskAgrees(c) ==
    /\ taskPc[c] # "none" => reqPc[c] = "ready" /\ callPc[c] \in {"spawned", "accepted", "dropped"}
    /\ bodyPc[c] = "working" => taskPc[c] \in {"executing", "panicked", "aborted"}
    /\ bodyPc[c] = "recorded" => taskPc[c] \in {"executing", "released", "finished", "panicked", "aborted"}
    /\ taskPc[c] = "aborted" => c \in abortRequested
    /\ callPc[c] = "rejected" => Reused(JobOf[c])
    /\ callPc[c] # "idle" => Begun(c)
    /\ callPc[c] \in {"spawned", "accepted"} => taskPc[c] # "none"

\* A record was made by a submission, which no replay or retry shares its id with.
RecordsAreMade == \A j \in Jobs : status[j] # "absent" => \E d \in Calls : JobOf[d] = j /\ Begun(d)

\* The stored status is the one its closure wrote last, unless it was forgotten.
Allowed(body) ==
    {"absent"} \cup IF body = "begin" THEN {"pending"}
                   ELSE IF body = "working" THEN {"running"} ELSE {"completed", "failed"}

StatusFollows(c) ==
    /\ reqPc[c] = "ready"
    /\ ~ CancelAsked(JobOf[c])
    /\ ~ Reused(JobOf[c])
    => status[JobOf[c]] \in Allowed(bodyPc[c])

\* The history lists the stored jobs, each once, and no more than its bound.
Lists(h, j) == \E i \in 1 .. Len(h) : h[i] = j

HistoryListsStored ==
    /\ history \in Seq(Jobs)
    /\ Len(history) <= MaxHistory
    /\ \A i, k \in 1 .. Len(history) : history[i] = history[k] => i = k
    /\ \A j \in Jobs : status[j] # "absent" <=> Lists(history, j)

Inv ==
    /\ Types
    /\ AbortsAreAsked
    /\ CancelledIsAsked
    /\ \A c \in Calls : TaskAgrees(c)
    /\ RecordsAreMade
    /\ \A c \in Calls : StatusFollows(c)
    /\ HistoryListsStored

LEMMA InitInv == Init => Inv
<1> USE RequestsAssumption
<1> SUFFICES ASSUME Init PROVE Inv
  OBVIOUS
<1>1. Types
  BY DEF Init, SchedulerInit, Types, CallStates, TaskStates, Statuses
<1>2. AbortsAreAsked /\ CancelledIsAsked /\ RecordsAreMade
  BY DEF Init, SchedulerInit, AbortsAreAsked, CancelledIsAsked, RecordsAreMade
<1>3. \A c \in Calls : TaskAgrees(c) /\ StatusFollows(c)
  BY DEF Init, SchedulerInit, TaskAgrees, StatusFollows
<1>4. HistoryListsStored
  BY DEF Init, HistoryListsStored, Lists
<1>5. QED
  BY <1>1, <1>2, <1>3, <1>4 DEF Inv

\* Two requests of one id that were both begun.
LEMMA ReusedBy ==
    ASSUME NEW c \in Calls, NEW d \in Calls, c # d, JobOf[c] = JobOf[d], Begun(c), Begun(d)
    PROVE  Reused(JobOf[c])
BY DEF Reused, Begun

-----------------------------------------------------------------------------
(* The scheduler's steps                                                   *)

\* The ways a task may go on while the closure stays where it is.
Moves(c) ==
    \/ taskPc'[c] = taskPc[c]
    \/ taskPc[c] = "none" /\ taskPc'[c] = "spawned" /\ reqPc[c] = "ready"
       /\ callPc'[c] \in {"spawned", "accepted"}
    \/ taskPc[c] = "spawned" /\ taskPc'[c] \in {"waiting", "executing"}
    \/ taskPc[c] = "waiting" /\ taskPc'[c] = "granted"
    \/ taskPc[c] = "granted" /\ taskPc'[c] = "executing"
    \/ taskPc[c] = "executing" /\ taskPc'[c] = "released" /\ bodyPc[c] = "recorded"
    \/ taskPc[c] = "executing" /\ taskPc'[c] = "panicked"
    \/ taskPc[c] = "released" /\ taskPc'[c] = "finished"
    \/ taskPc[c] # "none" /\ taskPc'[c] = "aborted" /\ c \in abortRequested

LEMMA SchedulerMoves ==
    ASSUME Inv, UNCHANGED <<reqPc, bodyPc, status, history, history>>,
           Types', AbortsAreAsked',
           abortRequested \subseteq abortRequested',
           \A j \in Jobs : CancelAsked(j) => CancelAsked(j)',
           \A c \in Calls : callPc[c] \in {"spawned", "accepted", "dropped"} =>
                               callPc'[c] \in {"spawned", "accepted", "dropped"},
           \A c \in Calls : callPc'[c] = "rejected" => callPc[c] = "rejected" \/ Reused(JobOf[c]),
           \A c \in Calls : callPc'[c] # "idle" => callPc[c] # "idle" \/ reqPc[c] = "ready",
           \A c \in Calls : callPc'[c] \in {"spawned", "accepted"} =>
                               callPc[c] \in {"spawned", "accepted"} \/ taskPc'[c] # "none",
           \A c \in Calls : Moves(c)
    PROVE  Inv'
<1>1. \A k : Reused(k)' <=> Reused(k)
  BY DEF Reused
<1>2. ASSUME NEW c \in Calls PROVE TaskAgrees(c)'
  <2>1. TaskAgrees(c) /\ Moves(c)
    BY DEF Inv
  <2>2. QED
    BY <1>1, <2>1 DEF TaskAgrees, Moves, Begun
<1>3. RecordsAreMade' /\ CancelledIsAsked' /\ HistoryListsStored'
  BY DEF Inv, RecordsAreMade, Begun, CancelledIsAsked, HistoryListsStored, Lists
<1>4. ASSUME NEW c \in Calls PROVE StatusFollows(c)'
  <2>1. JobOf[c] \in Jobs /\ StatusFollows(c)
    BY CallsAssumption DEF Inv
  <2>2. QED
    BY <1>1, <2>1 DEF StatusFollows
<1>5. QED
  BY <1>2, <1>3, <1>4 DEF Inv

\* The semaphore hands a permit on: one task leaves, at most one other is granted.
LEMMA ReleaseMoves ==
    ASSUME Inv, NEW c \in Calls, NEW p \in {"released", "panicked", "aborted"},
           ReleasePermit(c, p), taskPc[c] \in {"executing", "granted"}
    PROVE  /\ taskPc' \in [Calls -> TaskStates]
           /\ taskPc'[c] = p
           /\ \A d \in Calls \ {c} : \/ taskPc'[d] = taskPc[d]
                                     \/ taskPc[d] = "waiting" /\ taskPc'[d] = "granted"
<1>1. taskPc \in [Calls -> TaskStates]
  BY DEF Inv, Types
<1>2. {"granted", "released", "panicked", "aborted"} \subseteq TaskStates
  BY DEF TaskStates
<1>3. CASE taskPc' = [taskPc EXCEPT ![c] = p]
  BY <1>1, <1>2, <1>3
<1>4. CASE \E w \in Waiting : taskPc' = [taskPc EXCEPT ![c] = p, ![w] = "granted"]
  <2>1. PICK w \in Waiting : taskPc' = [taskPc EXCEPT ![c] = p, ![w] = "granted"]
    BY <1>4
  <2>2. w \in Calls /\ taskPc[w] = "waiting" /\ w # c
    BY DEF Waiting
  <2>3. QED
    BY <1>1, <1>2, <2>1, <2>2
<1>5. QED
  BY <1>3, <1>4 DEF ReleasePermit

\* A task that gives its permit back.
LEMMA ReleaseKeeps ==
    ASSUME Inv, UNCHANGED <<reqPc, bodyPc, status, history, callPc, tracked, abortRequested, cancelVars>>,
           NEW c \in Calls, NEW p \in {"released", "panicked", "aborted"},
           ReleasePermit(c, p), taskPc[c] \in {"executing", "granted"},
           p = "released" => taskPc[c] = "executing" /\ bodyPc[c] = "recorded",
           p = "panicked" => taskPc[c] = "executing",
           p = "aborted" => c \in abortRequested
    PROVE  Inv'
<1>1. /\ taskPc' \in [Calls -> TaskStates]
      /\ taskPc'[c] = p
      /\ \A d \in Calls \ {c} : \/ taskPc'[d] = taskPc[d]
                                \/ taskPc[d] = "waiting" /\ taskPc'[d] = "granted"
  BY ReleaseMoves
<1>2. Types' /\ AbortsAreAsked' /\ \A j \in Jobs : CancelAsked(j) => CancelAsked(j)'
  BY <1>1 DEF Inv, Types, AbortsAreAsked, CancelAsked, cancelVars
<1>3. \A d \in Calls : Moves(d)
  BY <1>1 DEF Moves
<1>4. QED
  BY <1>2, <1>3, SchedulerMoves

LEMMA TaskPolledKeeps == ASSUME Inv, NEW c \in Calls, TaskPolled(c) PROVE Inv'
<1> USE DEF TaskPolled
<1>1. UNCHANGED <<reqPc, bodyPc, status, history, callPc, abortRequested, cancelling, cancelled>>
  BY DEF storeVars, cancelVars, Acquire, StartGranted, Untrack,
         callVars, mapVars
<1>2. taskPc \in [Calls -> TaskStates] /\ tracked \in [Jobs -> Calls \cup {NoCall}]
  BY DEF Inv, Types
<1>3. /\ taskPc' \in [Calls -> TaskStates]
      /\ \A d \in Calls : Moves(d)
  <2>1. CASE Acquire(c)
    BY <1>2, <2>1 DEF Acquire, Moves, TaskStates
  <2>2. CASE StartGranted(c)
    BY <1>2, <2>2 DEF StartGranted, Moves, TaskStates
  <2>3. CASE Untrack(c)
    BY <1>2, <2>3 DEF Untrack, Moves, TaskStates
  <2>4. QED
    BY <2>1, <2>2, <2>3
<1>4. UNCHANGED tracked \/ tracked' = [tracked EXCEPT ![JobOf[c]] = NoCall]
  BY DEF Acquire, StartGranted, Untrack, mapVars
<1>5. Types' /\ AbortsAreAsked' /\ \A j \in Jobs : CancelAsked(j) => CancelAsked(j)'
  <2>1. tracked' \in [Jobs -> Calls \cup {NoCall}] /\ \A j \in Jobs : tracked'[j] \in {tracked[j], NoCall}
    BY <1>2, <1>4
  <2>2. \A j : CancelAsked(j) <=> CancelAsked(j)'
    BY <1>1 DEF CancelAsked
  <2>3. Types'
    BY <1>1, <1>3, <2>1 DEF Inv, Types
  <2>4. AbortsAreAsked'
    BY <1>1, <2>1, <2>2 DEF Inv, AbortsAreAsked
  <2>5. QED
    BY <2>2, <2>3, <2>4
<1>6. QED
  BY <1>1, <1>3, <1>5, SchedulerMoves

\* schedule(): the task is spawned, and its handle recorded under its own job.  A
\* call is rejected because of another of the same id.
LEMMA ScheduleKeeps == ASSUME Inv, NEW c \in Calls, Schedule(c) \/ ScheduleReturns(c) PROVE Inv'
<1>1. UNCHANGED <<reqPc, bodyPc, status, history, abortRequested, cancelling, cancelled>>
  BY DEF Schedule, ScheduleReturns, storeVars, cancelVars, CheckAndSpawn, Track, mapVars
<1>2. /\ taskPc \in [Calls -> TaskStates] /\ callPc \in [Calls -> CallStates]
      /\ tracked \in [Jobs -> Calls \cup {NoCall}]
      /\ JobOf[c] \in Jobs /\ c # NoCall
  BY CallsAssumption DEF Inv, Types
<1>3. CASE Schedule(c)
  <2>1. callPc[c] = "idle" /\ taskPc[c] = "none" /\ reqPc[c] = "ready" /\ UNCHANGED tracked
    BY <1>3 DEF Schedule, CheckAndSpawn, mapVars, Inv, TaskAgrees
  <2>2. CASE tracked[JobOf[c]] # NoCall
    <3>1. callPc' = [callPc EXCEPT ![c] = "rejected"] /\ UNCHANGED taskPc
      BY <1>3, <2>2 DEF Schedule, CheckAndSpawn
    <3>2. Reused(JobOf[c])
      <4> DEFINE d == tracked[JobOf[c]]
      <4>1. d \in Calls /\ JobOf[d] = JobOf[c] /\ callPc[d] = "accepted"
        BY <1>2, <2>2 DEF Inv, AbortsAreAsked
      <4>2. Begun(d) /\ Begun(c) /\ d # c
        BY <2>1, <4>1 DEF Inv, TaskAgrees, Begun
      <4>3. QED
        BY <4>1, <4>2, ReusedBy
    <3>3. callPc' \in [Calls -> CallStates] /\ \A d \in Calls \ {c} : callPc'[d] = callPc[d]
      BY <1>2, <3>1 DEF CallStates
    <3>4. Types' /\ AbortsAreAsked' /\ \A j \in Jobs : CancelAsked(j) => CancelAsked(j)'
      BY <1>1, <2>1, <3>1, <3>3 DEF Inv, Types, AbortsAreAsked, CancelAsked
    <3>5. \A d \in Calls : Moves(d)
      BY <3>1 DEF Moves
    <3>6. callPc'[c] = "rejected"
      BY <1>2, <3>1
    <3>7. QED
      BY <1>1, <2>1, <3>2, <3>3, <3>4, <3>5, <3>6, SchedulerMoves
  <2>3. CASE tracked[JobOf[c]] = NoCall
    <3>1. /\ callPc' = [callPc EXCEPT ![c] = "spawned"]
          /\ taskPc' = [taskPc EXCEPT ![c] = "spawned"]
      BY <1>3, <2>3 DEF Schedule, CheckAndSpawn
    <3>2. /\ callPc' \in [Calls -> CallStates] /\ taskPc' \in [Calls -> TaskStates]
          /\ callPc'[c] = "spawned" /\ taskPc'[c] = "spawned"
          /\ \A d \in Calls \ {c} : callPc'[d] = callPc[d]
          /\ \A d \in Calls : Moves(d)
      BY <1>2, <2>1, <3>1 DEF CallStates, TaskStates, Moves
    <3>3. Types' /\ AbortsAreAsked' /\ \A j \in Jobs : CancelAsked(j) => CancelAsked(j)'
      BY <1>1, <2>1, <3>2 DEF Inv, Types, AbortsAreAsked, CancelAsked
    <3>4. QED
      BY <1>1, <2>1, <3>2, <3>3, SchedulerMoves
  <2>4. QED
    BY <2>2, <2>3
<1>4. CASE ScheduleReturns(c)
  <2>1. /\ callPc' \in [Calls -> CallStates] /\ UNCHANGED taskPc
        /\ callPc[c] = "spawned" /\ callPc'[c] = "accepted" /\ \A d \in Calls \ {c} : callPc'[d] = callPc[d]
        /\ tracked' = [tracked EXCEPT ![JobOf[c]] = c]
    BY <1>2, <1>4 DEF ScheduleReturns, Track, CallStates, semVars
  <2>2. Types' /\ AbortsAreAsked' /\ \A j \in Jobs : CancelAsked(j) => CancelAsked(j)'
    BY <1>1, <1>2, <2>1 DEF Inv, Types, AbortsAreAsked, CancelAsked
  <2>3. \A d \in Calls : Moves(d)
    BY <2>1 DEF Moves
  <2>4. taskPc[c] # "none"
    BY <2>1 DEF Inv, TaskAgrees
  <2>5. QED
    BY <1>1, <2>1, <2>2, <2>3, <2>4, SchedulerMoves
<1>5. QED
  BY <1>3, <1>4

\* A request that is dropped leaves its record and its task as they are.
LEMMA DropKeeps == ASSUME Inv, NEW c \in Calls, Drop(c) PROVE Inv'
<1>1. /\ UNCHANGED <<reqPc, bodyPc, status, history, taskPc, tracked, abortRequested, cancelling, cancelled>>
      /\ reqPc[c] = "ready" /\ callPc[c] \in {"idle", "spawned", "rejected"}
      /\ callPc' = [callPc EXCEPT ![c] = "dropped"]
  BY DEF Drop, DropCall, storeVars, cancelVars, semVars, mapVars
<1>2. /\ callPc' \in [Calls -> CallStates] /\ callPc'[c] = "dropped"
      /\ \A d \in Calls \ {c} : callPc'[d] = callPc[d]
  BY <1>1 DEF Inv, Types, CallStates
<1>3. Types' /\ AbortsAreAsked' /\ \A j \in Jobs : CancelAsked(j) => CancelAsked(j)'
  BY <1>1, <1>2 DEF Inv, Types, AbortsAreAsked, CancelAsked
<1>4. \A d \in Calls : Moves(d)
  BY <1>1 DEF Moves
<1>5. QED
  BY <1>1, <1>2, <1>3, <1>4, SchedulerMoves

LEMMA TaskEndsKeeps ==
    ASSUME Inv, NEW c \in Calls, ClosureReturns(c) \/ HandlerPanics(c) \/ TaskAborted(c)
    PROVE  Inv'
<1> USE DEF storeVars, cancelVars, callVars, mapVars
<1>1. CASE ClosureReturns(c)
  BY <1>1, ReleaseKeeps DEF ClosureReturns, ExecutorReturns
<1>2. CASE HandlerPanics(c)
  BY <1>2, ReleaseKeeps DEF HandlerPanics, Panic
<1>3. CASE TaskAborted(c)
  <2>1. /\ UNCHANGED <<reqPc, bodyPc, status, history, callPc, tracked, abortRequested, cancelling, cancelled>>
        /\ c \in abortRequested
    BY <1>3 DEF TaskAborted, AbortTakesEffect
  <2>2. CASE taskPc[c] \in Holding /\ ReleasePermit(c, "aborted")
    BY <2>1, <2>2, ReleaseKeeps DEF Holding
  <2>3. CASE taskPc[c] \in {"spawned", "waiting", "released"} /\ taskPc' = [taskPc EXCEPT ![c] = "aborted"]
    <3>1. /\ taskPc' \in [Calls -> TaskStates]
          /\ \A d \in Calls : Moves(d)
      BY <2>1, <2>3 DEF Inv, Types, Moves, TaskStates
    <3>2. Types' /\ AbortsAreAsked' /\ \A j \in Jobs : CancelAsked(j) => CancelAsked(j)'
      BY <2>1, <3>1 DEF Inv, Types, AbortsAreAsked, CancelAsked
    <3>3. QED
      BY <2>1, <3>1, <3>2, SchedulerMoves
  <2>4. QED
    BY <1>3, <2>2, <2>3 DEF TaskAborted, AbortTakesEffect
<1>4. QED
  BY <1>1, <1>2, <1>3

\* cancel_job, the scheduler's half: the task it aborts is one of this job.
LEMMA CancelTaskKeeps == ASSUME Inv, NEW j \in Jobs, CancelTask(j) PROVE Inv'
<1> USE DEF CancelTask, CancelJob
<1>1. /\ UNCHANGED <<reqPc, bodyPc, status, history, callPc, taskPc, cancelled>>
      /\ tracked[j] \in Calls /\ JobOf[tracked[j]] = j
      /\ tracked' = [tracked EXCEPT ![j] = NoCall]
      /\ abortRequested' = abortRequested \cup {tracked[j]}
      /\ cancelling' = cancelling \cup {j}
  BY DEF storeVars, callVars, semVars, Inv, Types, AbortsAreAsked
<1>2. Types' /\ AbortsAreAsked' /\ \A k \in Jobs : CancelAsked(k) => CancelAsked(k)'
  BY <1>1 DEF Inv, Types, AbortsAreAsked, CancelAsked
<1>3. \A c \in Calls : Moves(c)
  BY <1>1 DEF Moves
<1>4. QED
  BY <1>1, <1>2, <1>3, SchedulerMoves


-----------------------------------------------------------------------------
(* The store                                                               *)

LEMMA SetStatusWrites ==
    ASSUME Inv, NEW j \in Jobs, NEW s \in Statuses \ {"absent"}, SetStatus(j, s)
    PROVE  /\ status' \in [Jobs -> Statuses]
           /\ \A k \in Jobs : status'[k] = IF k = j /\ status[j] # "absent" THEN s ELSE status[k]
           /\ HistoryListsStored'
<1>1. /\ status' \in [Jobs -> Statuses]
      /\ \A k \in Jobs : status'[k] = IF k = j /\ status[j] # "absent" THEN s ELSE status[k]
  BY DEF Inv, Types, SetStatus
<1>2. HistoryListsStored'
  BY <1>1 DEF Inv, HistoryListsStored, Lists, SetStatus
<1>3. QED
  BY <1>1, <1>2

\* What a write of the store needs to keep: it is the one that the closure of the
\* job is at, or the job is contested.
LEMMA StatusWritten ==
    ASSUME Inv, UNCHANGED <<callPc, taskPc, abortRequested, tracked>>,
           NEW j \in Jobs, NEW s \in Statuses \ {"absent"}, SetStatus(j, s),
           Types', AbortsAreAsked',
           \A k \in Jobs : CancelAsked(k) => CancelAsked(k)',
           \A d \in Calls : Begun(d) <=> Begun(d)',
           \A d \in Calls : reqPc'[d] = "ready" => reqPc[d] = "ready",
           \A d \in Calls : TaskAgrees(d)',
           s = "cancelled" => CancelAsked(j)',
           \/ /\ UNCHANGED bodyPc
              /\ CancelAsked(j)' \/ Reused(j)
           \/ \E d \in Calls : /\ JobOf[d] = j /\ Begun(d) /\ s \in Allowed(bodyPc'[d])
                               /\ \A e \in Calls \ {d} : bodyPc'[e] = bodyPc[e]
    PROVE  Inv'
<1>1. /\ \A k \in Jobs : status'[k] = IF k = j /\ status[j] # "absent" THEN s ELSE status[k]
      /\ HistoryListsStored'
  BY SetStatusWrites
<1>2. RecordsAreMade' /\ CancelledIsAsked'
  BY <1>1 DEF Inv, RecordsAreMade, CancelledIsAsked
<1>3. \A k \in Jobs : Reused(k) <=> Reused(k)'
  BY DEF Reused, Begun
<1>4. ASSUME NEW c \in Calls PROVE StatusFollows(c)'
  <2> SUFFICES ASSUME reqPc'[c] = "ready", ~ CancelAsked(JobOf[c])', ~ Reused(JobOf[c])'
               PROVE  status'[JobOf[c]] \in Allowed(bodyPc'[c])
    BY DEF StatusFollows
  <2>1. JobOf[c] \in Jobs /\ Begun(c) /\ ~ Reused(JobOf[c]) /\ ~ CancelAsked(JobOf[c]) /\ reqPc[c] = "ready"
    BY <1>3, CallsAssumption DEF Begun
  <2>2. status[JobOf[c]] \in Allowed(bodyPc[c])
    BY <2>1 DEF Inv, StatusFollows
  <2>3. CASE UNCHANGED bodyPc /\ (CancelAsked(j)' \/ Reused(j))
    <3>1. JobOf[c] # j
      BY <2>1, <2>3
    <3>2. QED
      BY <1>1, <2>1, <2>2, <2>3, <3>1
  <2>4. ASSUME NEW d \in Calls, JobOf[d] = j, Begun(d), s \in Allowed(bodyPc'[d]),
               \A e \in Calls \ {d} : bodyPc'[e] = bodyPc[e]
        PROVE  status'[JobOf[c]] \in Allowed(bodyPc'[c])
    <3>1. CASE c = d
      <4>1. "absent" \in Allowed(bodyPc'[c])
        BY DEF Allowed
      <4>2. QED
        BY <1>1, <2>1, <2>4, <3>1, <4>1
    <3>2. CASE c # d
      <4>1. JobOf[c] # j
        BY <2>1, <2>4, <3>2, ReusedBy
      <4>2. QED
        BY <1>1, <2>1, <2>2, <2>4, <3>2, <4>1
    <3>3. QED
      BY <3>1, <3>2
  <2>5. QED
    BY <2>3, <2>4
<1>5. QED
  BY <1>1, <1>2, <1>4 DEF Inv

\* The closure: running when it starts, how it ended when the handler returns.
LEMMA ClosureKeeps == ASSUME Inv, NEW c \in Calls, MarkRunning(c) \/ RecordResult(c) PROVE Inv'
<1>1. /\ UNCHANGED <<callPc, taskPc, abortRequested, tracked, reqPc, cancelling, cancelled>>
      /\ taskPc[c] = "executing" /\ JobOf[c] \in Jobs
      /\ bodyPc \in [Calls -> {"begin", "working", "recorded"}]
      /\ Begun(c)
  BY CallsAssumption DEF MarkRunning, RecordResult, schedVars, cancelVars, Inv, Types, TaskAgrees, Begun
<1>2. PICK s \in {"running", "completed", "failed"} :
          /\ SetStatus(JobOf[c], s)
          /\ bodyPc' = [bodyPc EXCEPT ![c] = IF s = "running" THEN "working" ELSE "recorded"]
  BY DEF MarkRunning, RecordResult
<1>3. s \in Statuses \ {"absent"}
  BY DEF Statuses, Terminal
<1>4. Types' /\ AbortsAreAsked' /\ \A k \in Jobs : CancelAsked(k) => CancelAsked(k)'
  BY <1>1, <1>2, <1>3, SetStatusWrites DEF Inv, Types, AbortsAreAsked, CancelAsked
<1>5. bodyPc'[c] = (IF s = "running" THEN "working" ELSE "recorded")
      /\ \A d \in Calls \ {c} : bodyPc'[d] = bodyPc[d]
  BY <1>1, <1>2
<1>6. \A d \in Calls : Begun(d) <=> Begun(d)'
  BY <1>1 DEF Begun
<1>7. \A d \in Calls : TaskAgrees(d)'
  BY <1>1, <1>5, <1>6 DEF Inv, TaskAgrees, Reused
<1>8. s \in Allowed(bodyPc'[c])
  BY <1>5 DEF Allowed
<1>9. /\ \A d \in Calls : reqPc'[d] = "ready" => reqPc[d] = "ready"
      /\ s # "cancelled"
  BY <1>1
<1>10. QED
  BY <1>1, <1>2, <1>3, <1>4, <1>5, <1>6, <1>7, <1>8, <1>9, StatusWritten

\* schedule() was refused, because another request of the id is tracked: the
\* record, which both share, fails.
LEMMA RejectionKeeps == ASSUME Inv, NEW c \in Calls, RecordRejection(c) PROVE Inv'
<1> USE DEF RecordRejection
<1>1. /\ UNCHANGED <<callPc, taskPc, abortRequested, tracked, bodyPc, cancelling, cancelled>>
      /\ reqPc[c] = "ready" /\ callPc[c] = "rejected"
      /\ reqPc \in [Calls -> {"new", "denied", "broken", "ready", "refused"}]
      /\ reqPc' = [reqPc EXCEPT ![c] = "refused"]
      /\ SetStatus(JobOf[c], "failed") /\ JobOf[c] \in Jobs /\ "failed" \in Statuses \ {"absent"}
  BY CallsAssumption DEF schedVars, cancelVars, Inv, Types, Statuses, Terminal
<1>2. Types' /\ AbortsAreAsked' /\ \A k \in Jobs : CancelAsked(k) => CancelAsked(k)'
  BY <1>1, SetStatusWrites DEF Inv, Types, AbortsAreAsked, CancelAsked
<1>3. /\ \A d \in Calls : Begun(d) <=> Begun(d)'
      /\ \A d \in Calls : reqPc'[d] = "ready" => reqPc[d] = "ready"
      /\ \A d \in Calls \ {c} : reqPc'[d] = reqPc[d]
  BY <1>1 DEF Begun
<1>4. \A k : Reused(k) <=> Reused(k)'
  BY <1>3 DEF Reused, Begun
<1>5. taskPc[c] = "none" /\ Reused(JobOf[c])
  BY <1>1 DEF Inv, TaskAgrees
<1>6. \A d \in Calls : TaskAgrees(d)'
  BY <1>1, <1>3, <1>4, <1>5 DEF Inv, TaskAgrees
<1>7. QED
  BY <1>1, <1>2, <1>3, <1>5, <1>6, StatusWritten

LEMMA CancelRecordKeeps == ASSUME Inv, NEW j \in Jobs, CancelRecord(j) PROVE Inv'
<1> USE DEF CancelRecord
<1>1. /\ UNCHANGED <<callPc, taskPc, abortRequested, tracked, reqPc, bodyPc>>
      /\ SetStatus(j, "cancelled") /\ "cancelled" \in Statuses \ {"absent"}
  BY DEF schedVars, Statuses, Terminal
<1>2. Types' /\ AbortsAreAsked' /\ CancelAsked(j)' /\ \A k \in Jobs : CancelAsked(k) => CancelAsked(k)'
  BY <1>1, SetStatusWrites DEF Inv, Types, AbortsAreAsked, CancelAsked
<1>3. \A d \in Calls : Begun(d) <=> Begun(d)'
  BY <1>1 DEF Begun
<1>4. \A d \in Calls : TaskAgrees(d)'
  BY <1>1, <1>3 DEF Inv, TaskAgrees, Reused
<1>5. \A d \in Calls : reqPc'[d] = "ready" => reqPc[d] = "ready"
  BY <1>1
<1>6. QED
  BY <1>1, <1>2, <1>3, <1>4, <1>5, StatusWritten

\* What create_job does to a store in which j has no record: with no room for any
\* record nothing changes; otherwise j is pending, and one job is forgotten if the
\* history was full.
Inserted(j) ==
    \/ \A k \in Jobs : status'[k] = status[k]
    \/ \A k \in Jobs : status'[k] = IF k = j THEN "pending" ELSE status[k]
    \/ \E old \in Jobs \ {j} :
          /\ status[old] # "absent"
          /\ \A k \in Jobs : status'[k] = IF k = j THEN "pending" ELSE IF k = old THEN "absent" ELSE status[k]

LEMMA InsertWrites ==
    ASSUME Inv, NEW j \in Jobs, status[j] = "absent", Insert(j)
    PROVE  status' \in [Jobs -> Statuses] /\ HistoryListsStored' /\ Inserted(j)
<1> DEFINE n == Len(history)
           all == Append(history, j)
           ids == {history'[i] : i \in DOMAIN history'}
<1>1. /\ history \in Seq(Jobs) /\ n \in Nat /\ MaxHistory \in Nat /\ n <= MaxHistory
      /\ \A i, k \in 1 .. n : history[i] = history[k] => i = k
      /\ \A k \in Jobs : status[k] # "absent" <=> Lists(history, k)
      /\ status \in [Jobs -> Statuses]
  BY RequestsAssumption DEF Inv, HistoryListsStored, Types
<1>2. /\ history' = Newest(all)
      /\ status' = [k \in Jobs |-> IF k \notin ids THEN "absent" ELSE IF k = j THEN "pending" ELSE status[k]]
  BY DEF Insert
<1>3. /\ all \in Seq(Jobs) /\ Len(all) = n + 1 /\ all[n + 1] = j
      /\ \A i \in 1 .. n : all[i] = history[i] /\ history[i] # j
  BY <1>1, AppendProperties DEF Lists
<1>4. "absent" \in Statuses /\ "pending" \in Statuses /\ "absent" # "pending"
  BY DEF Statuses
<1> HIDE DEF all
<1>5. status' \in [Jobs -> Statuses]
  BY <1>1, <1>2, <1>4
<1>6. ASSUME history' \in Seq(Jobs), Len(history') <= MaxHistory,
             \A i, k \in 1 .. Len(history') : history'[i] = history'[k] => i = k,
             \A k \in Jobs : k # j /\ Lists(history', k) => Lists(history, k)
      PROVE  /\ HistoryListsStored'
             /\ \A k \in Jobs : status'[k] = IF ~ Lists(history', k) THEN "absent"
                                            ELSE IF k = j THEN "pending" ELSE status[k]
  <2>1. DOMAIN history' = 1 .. Len(history')
    BY <1>6
  <2>2. \A k \in Jobs : k \in ids <=> Lists(history', k)
    BY <2>1 DEF Lists
  <2>3. \A k \in Jobs : status'[k] = IF ~ Lists(history', k) THEN "absent"
                                    ELSE IF k = j THEN "pending" ELSE status[k]
    BY <1>2, <2>2
  <2>4. \A k \in Jobs : status'[k] # "absent" <=> Lists(history', k)
    BY <1>1, <1>4, <1>6, <2>3
  <2>5. QED
    BY <1>6, <2>3, <2>4 DEF HistoryListsStored
<1>7. CASE n < MaxHistory
  <2>1. history' = all
    BY <1>1, <1>2, <1>3, <1>7 DEF Newest
  <2>2. \A k \in Jobs : Lists(history', k) <=> k = j \/ Lists(history, k)
    BY <1>1, <1>3, <2>1 DEF Lists
  <2>3. /\ history' \in Seq(Jobs) /\ Len(history') <= MaxHistory
        /\ \A i, k \in 1 .. Len(history') : history'[i] = history'[k] => i = k
    BY <1>1, <1>3, <1>7, <2>1
  <2>4. /\ HistoryListsStored'
        /\ \A k \in Jobs : status'[k] = IF ~ Lists(history', k) THEN "absent"
                                       ELSE IF k = j THEN "pending" ELSE status[k]
    BY <1>6, <2>2, <2>3
  <2>5. \A k \in Jobs : status'[k] = IF k = j THEN "pending" ELSE status[k]
    BY <1>1, <2>2, <2>4
  <2>6. QED
    BY <1>5, <2>4, <2>5 DEF Inserted
<1>8. CASE n = MaxHistory
  <2>1. history' = SubSeq(all, 2, n + 1)
    BY <1>1, <1>2, <1>3, <1>8 DEF Newest
  <2>2. /\ history' \in Seq(Jobs) /\ Len(history') = n
        /\ \A i \in 1 .. n : history'[i] = all[i + 1]
    BY <1>1, <1>3, <2>1, SubSeqProperties
  <2>3. \A k \in Jobs : Lists(history', k) <=> n # 0 /\ (k = j \/ (Lists(history, k) /\ k # history[1]))
    <3>1. ASSUME NEW k \in Jobs, Lists(history', k) PROVE n # 0 /\ (k = j \/ (Lists(history, k) /\ k # history[1]))
      <4>1. PICK i \in 1 .. n : all[i + 1] = k
        BY <2>2, <3>1 DEF Lists
      <4>2. CASE i = n
        BY <1>1, <1>3, <4>1, <4>2
      <4>3. CASE i # n
        <5>1. i + 1 \in 1 .. n /\ 1 \in 1 .. n /\ i + 1 # 1
          BY <1>1, <4>1, <4>3
        <5>2. history[i + 1] = k
          BY <1>3, <4>1, <5>1
        <5>3. QED
          BY <1>1, <5>1, <5>2 DEF Lists
      <4>4. QED
        BY <4>2, <4>3
    <3>2. ASSUME NEW k \in Jobs, n # 0, k = j PROVE Lists(history', k)
      <4>1. n \in 1 .. n
        BY <1>1, <3>2
      <4>2. history'[n] = k
        BY <1>3, <2>2, <3>2, <4>1
      <4>3. QED
        BY <2>2, <4>1, <4>2 DEF Lists
    <3>3. ASSUME NEW k \in Jobs, Lists(history, k), k # history[1] PROVE Lists(history', k)
      <4>1. PICK i \in 1 .. n : history[i] = k
        BY <3>3 DEF Lists
      <4>2. i - 1 \in 1 .. n /\ (i - 1) + 1 = i
        BY <1>1, <3>3, <4>1
      <4>3. history'[i - 1] = k
        BY <1>3, <2>2, <4>1, <4>2
      <4>4. QED
        BY <2>2, <4>2, <4>3 DEF Lists
    <3>4. QED
      BY <3>1, <3>2, <3>3
  <2>4. \A i, k \in 1 .. Len(history') : history'[i] = history'[k] => i = k
    <3> SUFFICES ASSUME NEW i \in 1 .. n, NEW k \in 1 .. n, all[i + 1] = all[k + 1] PROVE i = k
      BY <2>2
    <3>1. CASE i = n \/ k = n
      BY <1>1, <1>3, <3>1
    <3>2. CASE i # n /\ k # n
      <4>1. i + 1 \in 1 .. n /\ k + 1 \in 1 .. n
        BY <1>1, <3>2
      <4>2. i + 1 = k + 1
        BY <1>1, <1>3, <4>1
      <4>3. QED
        BY <1>1, <4>2
    <3>3. QED
      BY <3>1, <3>2
  <2>5. /\ HistoryListsStored'
        /\ \A k \in Jobs : status'[k] = IF ~ Lists(history', k) THEN "absent"
                                       ELSE IF k = j THEN "pending" ELSE status[k]
    <3>1. Len(history') <= MaxHistory
      BY <1>8, <2>2
    <3>2. \A k \in Jobs : k # j /\ Lists(history', k) => Lists(history, k)
      BY <2>3
    <3>3. QED
      BY <1>6, <2>2, <2>4, <3>1, <3>2
  <2>6. CASE n = 0
    <3>1. \A k \in Jobs : ~ Lists(history', k) /\ ~ Lists(history, k)
      BY <2>3, <2>6 DEF Lists
    <3>2. \A k \in Jobs : status'[k] = status[k]
      BY <1>1, <2>5, <3>1
    <3>3. QED
      BY <1>5, <2>5, <3>2 DEF Inserted
  <2>7. CASE n # 0
    <3> DEFINE old == history[1]
    <3>1. 1 \in 1 .. n
      BY <1>1, <2>7
    <3>2. old \in Jobs /\ old # j /\ status[old] # "absent"
      BY <1>1, <1>3, <3>1 DEF Lists
    <3>3. \A k \in Jobs : status'[k] = IF k = j THEN "pending" ELSE IF k = old THEN "absent" ELSE status[k]
      BY <1>1, <2>3, <2>5, <2>7, <3>2
    <3>4. QED
      BY <1>5, <2>5, <3>2, <3>3 DEF Inserted
  <2>8. QED
    BY <2>6, <2>7
<1>9. QED
  BY <1>1, <1>7, <1>8

-----------------------------------------------------------------------------
(* Requests that schedule a job                                            *)

\* What such a request does to the store.
LEMMA RequestWrites ==
    ASSUME Inv, NEW c \in Calls, CreateRecord(c) \/ CreateDropped(c) \/ Replay(c) \/ Retry(c)
    PROVE  /\ status' \in [Jobs -> Statuses] /\ HistoryListsStored'
           /\ \/ UNCHANGED status
              \/ reqPc'[c] = "broken" /\ \A k \in Jobs : status'[k] = "absent"
              \/ status[JobOf[c]] = "absent" /\ reqPc'[c] = "ready" /\ Inserted(JobOf[c])
<1>1. reqPc \in [Calls -> {"new", "denied", "broken", "ready", "refused"}] /\ JobOf[c] \in Jobs
  BY CallsAssumption DEF Inv, Types
<1>2. CASE UNCHANGED <<status, history>>
  BY <1>2 DEF Inv, Types, HistoryListsStored, Lists
<1>3. CASE /\ reqPc' = [reqPc EXCEPT ![c] = "ready"]
           /\ status[JobOf[c]] = "absent" /\ Insert(JobOf[c])
  BY <1>1, <1>3, InsertWrites
<1>4. CASE reqPc' = [reqPc EXCEPT ![c] = "broken"] /\ LoseHistory
  <2>1. status' \in [Jobs -> Statuses] /\ \A k \in Jobs : status'[k] = "absent"
    BY <1>4 DEF LoseHistory, Statuses
  <2>2. history' = << >> /\ Len(history') = 0
    BY <1>4 DEF LoseHistory
  <2>3. HistoryListsStored'
    BY <2>1, <2>2, RequestsAssumption DEF HistoryListsStored, Lists
  <2>4. QED
    BY <1>1, <1>4, <2>1, <2>3
<1>5. QED
  BY <1>2, <1>3, <1>4 DEF CreateRecord, CreateDropped, Replay, Retry, storeVars

\* How it moves the request.
LEMMA RequestBegins ==
    ASSUME Inv, NEW c \in Calls, CreateRecord(c) \/ CreateDropped(c) \/ Replay(c) \/ Retry(c)
    PROVE  /\ UNCHANGED <<callPc, taskPc, abortRequested, tracked, bodyPc, cancelling, cancelled>>
           /\ reqPc[c] = "new" /\ JobOf[c] \in Jobs /\ taskPc[c] = "none"
           /\ reqPc' \in [Calls -> {"new", "denied", "broken", "ready", "refused"}]
           /\ \A d \in Calls \ {c} : reqPc'[d] = reqPc[d]
           /\ reqPc'[c] \in {"denied", "broken", "ready"}
           /\ \A d \in Calls : Begun(d) => Begun(d)'
           /\ \A k : Reused(k) => Reused(k)'
           /\ \A k : Reused(k)' => Reused(k) \/ k = JobOf[c]
<1>1. /\ UNCHANGED <<callPc, taskPc, abortRequested, tracked, bodyPc, cancelling, cancelled>>
      /\ reqPc[c] = "new" /\ JobOf[c] \in Jobs /\ taskPc[c] = "none"
      /\ reqPc \in [Calls -> {"new", "denied", "broken", "ready", "refused"}]
      /\ \E p \in {"denied", "broken", "ready"} : reqPc' = [reqPc EXCEPT ![c] = p]
  BY CallsAssumption, RequestsAssumption DEF CreateRecord, CreateDropped, Replay, Retry, schedVars, cancelVars, Inv, Types, TaskAgrees
<1>2. /\ reqPc' \in [Calls -> {"new", "denied", "broken", "ready", "refused"}]
      /\ \A d \in Calls \ {c} : reqPc'[d] = reqPc[d]
      /\ reqPc'[c] \in {"denied", "broken", "ready"}
  BY <1>1
<1>3. \A d \in Calls : Begun(d) => Begun(d)'
  BY <1>1, <1>2 DEF Begun
<1>4. \A k : Reused(k) => Reused(k)'
  BY <1>1, <1>2 DEF Reused
<1>5. \A k : Reused(k)' => Reused(k) \/ k = JobOf[c]
  BY <1>2 DEF Reused
<1>6. QED
  BY <1>1, <1>2, <1>3, <1>4, <1>5

\* Without a record of its own, a replay or retry finds none under its id.
LEMMA RequestKeeps ==
    ASSUME Inv, NEW c \in Calls, CreateRecord(c) \/ CreateDropped(c) \/ Replay(c) \/ Retry(c)
    PROVE  Inv'
<1> DEFINE j == JobOf[c]
<1>1. /\ UNCHANGED <<callPc, taskPc, abortRequested, tracked, bodyPc, cancelling, cancelled>>
      /\ reqPc[c] = "new" /\ j \in Jobs /\ taskPc[c] = "none"
      /\ reqPc' \in [Calls -> {"new", "denied", "broken", "ready", "refused"}]
      /\ \A d \in Calls \ {c} : reqPc'[d] = reqPc[d]
      /\ reqPc'[c] \in {"denied", "broken", "ready"}
      /\ \A d \in Calls : Begun(d) => Begun(d)'
      /\ \A k : Reused(k) => Reused(k)'
  BY RequestBegins
<1>2. /\ status' \in [Jobs -> Statuses] /\ HistoryListsStored'
      /\ \A k \in Jobs : \/ status'[k] = status[k]
                         \/ status'[k] = "absent"
                         \/ k = j /\ status'[k] = "pending" /\ reqPc'[c] = "ready"
  BY RequestWrites DEF Inserted
<1>3. Types' /\ AbortsAreAsked' /\ CancelledIsAsked'
  BY <1>1, <1>2 DEF Inv, Types, AbortsAreAsked, CancelledIsAsked, CancelAsked
<1>4. \A d \in Calls : TaskAgrees(d)'
  BY <1>1 DEF Inv, TaskAgrees
<1>5. RecordsAreMade'
  <2>1. ASSUME NEW k \in Jobs, status'[k] # "absent" PROVE \E d \in Calls : JobOf[d] = k /\ Begun(d)'
    <3>1. CASE status[k] # "absent"
      BY <1>1, <3>1 DEF Inv, RecordsAreMade
    <3>2. CASE k = j /\ reqPc'[c] = "ready"
      BY <3>2 DEF Begun
    <3>3. QED
      BY <1>2, <2>1, <3>1, <3>2
  <2>2. QED
    BY <2>1 DEF RecordsAreMade
<1>6. bodyPc[c] = "begin"
  BY <1>1 DEF Inv, TaskAgrees, Types
<1>7. ASSUME NEW d \in Calls PROVE StatusFollows(d)'
  <2> SUFFICES ASSUME reqPc'[d] = "ready", ~ CancelAsked(JobOf[d])', ~ Reused(JobOf[d])',
                      status'[JobOf[d]] # "absent"
               PROVE  status'[JobOf[d]] \in Allowed(bodyPc'[d])
    BY DEF StatusFollows, Allowed
  <2>1. JobOf[d] \in Jobs /\ ~ CancelAsked(JobOf[d]) /\ ~ Reused(JobOf[d]) /\ Begun(d)'
    BY <1>1, CallsAssumption DEF CancelAsked, Begun
  <2>2. CASE status'[JobOf[d]] = status[JobOf[d]]
    <3>1. PICK e \in Calls : JobOf[e] = JobOf[d] /\ Begun(e)
      BY <2>1, <2>2 DEF Inv, RecordsAreMade
    <3>2. e = d
      <4>1. Begun(e)' /\ Begun(d)'
        BY <1>1, <2>1, <3>1
      <4>2. QED
        BY <3>1, <4>1 DEF Reused, Begun
    <3>3. d # c /\ reqPc[d] = "ready"
      BY <1>1, <3>1, <3>2 DEF Begun
    <3>4. QED
      BY <1>1, <2>1, <2>2, <3>3 DEF Inv, StatusFollows
  <2>3. CASE JobOf[d] = j /\ status'[JobOf[d]] = "pending" /\ reqPc'[c] = "ready"
    <3>1. d = c
      BY <2>1, <2>3 DEF Reused, Begun
    <3>2. QED
      BY <1>1, <1>6, <2>3, <3>1 DEF Allowed
  <2>4. QED
    BY <1>2, <2>1, <2>2, <2>3
<1>8. QED
  BY <1>2, <1>3, <1>4, <1>5, <1>7 DEF Inv

-----------------------------------------------------------------------------

LEMMA NextInv == ASSUME Inv, [Next]_vars PROVE Inv'
<1>1. CASE \E c \in Calls : CreateRecord(c) \/ CreateDropped(c) \/ Replay(c) \/ Retry(c)
  BY <1>1, RequestKeeps
<1>2. CASE \E c \in Calls : RequestStep(c) \/ Drop(c)
  BY <1>2, ScheduleKeeps, RejectionKeeps, DropKeeps DEF RequestStep
<1>3. CASE \E c \in Calls : JobStep(c)
  BY <1>3, TaskPolledKeeps, ClosureKeeps, TaskEndsKeeps DEF JobStep
<1>4. CASE \E j \in Jobs : CancelTask(j) \/ CancelRecord(j)
  BY <1>4, CancelTaskKeeps, CancelRecordKeeps
<1>5. CASE UNCHANGED vars
  <2>1. UNCHANGED <<callPc, taskPc, abortRequested, tracked, reqPc, bodyPc, status, history, cancelling, cancelled>>
    BY <1>5 DEF vars, schedVars, storeVars, cancelVars
  <2>2. Types' /\ AbortsAreAsked' /\ \A k \in Jobs : CancelAsked(k) => CancelAsked(k)'
    BY <2>1 DEF Inv, Types, AbortsAreAsked, CancelAsked
  <2>3. \A c \in Calls : Moves(c)
    BY <2>1 DEF Moves
  <2>4. QED
    BY <2>1, <2>2, <2>3, SchedulerMoves
<1>6. QED
  BY <1>1, <1>2, <1>3, <1>4, <1>5 DEF Next

LEMMA InvHolds == Spec => []Inv
<1>1. QED
  BY InitInv, NextInv, PTL DEF Spec

\* The store says running only of a job whose task holds a permit, unless the job
\* was cancelled, its id reused, or its handler panicked.
THEOREM RunningIsHeld == Spec => []RunningHoldsPermit
<1>1. Inv => RunningHoldsPermit
  <2> SUFFICES ASSUME Inv, NEW c \in Calls, reqPc[c] = "ready", status[JobOf[c]] = "running",
                      ~ CancelAsked(JobOf[c]), ~ Reused(JobOf[c]), taskPc[c] # "panicked"
               PROVE  taskPc[c] \in Holding
    BY DEF RunningHoldsPermit
  <2>1. status[JobOf[c]] \in Allowed(bodyPc[c]) /\ TaskAgrees(c) /\ bodyPc[c] \in {"begin", "working", "recorded"}
    BY DEF Inv, StatusFollows, Types
  <2>2. c \notin abortRequested
    BY DEF Inv, AbortsAreAsked
  <2>3. bodyPc[c] = "working"
    BY <2>1 DEF Allowed
  <2>4. QED
    BY <2>1, <2>2, <2>3 DEF TaskAgrees, Holding
<1>2. QED
  BY <1>1, InvHolds, PTL

-----------------------------------------------------------------------------
(* The service implements the scheduler                                    *)

LEMMA NextSchedules == ASSUME [Next]_vars PROVE [SchedulerNext]_schedVars
<1>1. CASE \E c \in Calls : CreateRecord(c) \/ CreateDropped(c) \/ Replay(c) \/ Retry(c)
  BY <1>1 DEF CreateRecord, CreateDropped, Replay, Retry
<1>2. CASE \E c \in Calls : RequestStep(c) \/ Drop(c)
  BY <1>2 DEF RequestStep, Schedule, ScheduleReturns, RecordRejection, Drop, SchedulerNext
<1>3. CASE \E c \in Calls : JobStep(c)
  BY <1>3 DEF JobStep, TaskPolled, MarkRunning, RecordResult, ClosureReturns, HandlerPanics,
              TaskAborted, SchedulerNext, TaskStep
<1>4. CASE \E j \in Jobs : CancelTask(j) \/ CancelRecord(j)
  BY <1>4 DEF CancelTask, CancelRecord, SchedulerNext
<1>5. CASE UNCHANGED vars
  BY <1>5 DEF vars
<1>6. QED
  BY <1>1, <1>2, <1>3, <1>4, <1>5 DEF Next

\* What requests and cancellations do to the tasks, the scheduler allows: the API
\* reaches it through schedule() and cancel_job() alone.
THEOREM ServiceImplementsScheduler == Spec => SchedulerSpec
<1>1. Init => SchedulerInit
  BY DEF Init
<1>2. QED
  BY <1>1, NextSchedules, PTL DEF Spec, SchedulerSpec

\* Hence no permit is lost or idle in the service either, no more executors run than
\* it was configured for, and an accepted job can be cancelled until it is over.
THEOREM ServiceKeepsPermits ==
    Spec => [](PermitConservation /\ WorkConserving /\ ConcurrencyLimit /\ AcceptedIsTracked)
<1>1. QED
  BY ServiceImplementsScheduler, PermitsConserved, NoIdlePermit, LimitRespected,
     AcceptedStaysTracked, PTL

\* The gauge counts the closures between their two updates of it; that of a handler
\* that panicked stays in for ever.
Working == {c \in Calls : bodyPc[c] = "working"}

GaugeCounts == gauge = Cardinality(Working)

LEMMA WorkingFinite == IsFiniteSet(Working) /\ Cardinality(Working) \in 0 .. Cardinality(Calls)
<1>1. Working \in SUBSET Calls
  BY DEF Working
<1>2. IsFiniteSet(Working) /\ Cardinality(Working) <= Cardinality(Calls)
  BY <1>1, CallsAssumption, FS_Subset
<1>3. Cardinality(Working) \in Nat /\ Cardinality(Calls) \in Nat
  BY <1>2, CallsAssumption, FS_CardinalityType
<1>4. QED
  BY <1>2, <1>3

LEMMA GaugeNext == ASSUME Inv, GaugeCounts, [Next]_vars PROVE GaugeCounts'
<1>0. bodyPc \in [Calls -> {"begin", "working", "recorded"}]
  BY DEF Inv, Types
<1>1. CASE UNCHANGED <<bodyPc, gauge>>
  BY <1>1 DEF GaugeCounts, Working
<1>2. ASSUME NEW c \in Calls, MarkRunning(c) PROVE GaugeCounts'
  <2>1. c \notin Working /\ Working' = Working \cup {c} /\ gauge' = gauge + 1
    BY <1>0, <1>2 DEF MarkRunning, Working
  <2>2. Cardinality(Working') = Cardinality(Working) + 1
    BY <2>1, WorkingFinite, FS_AddElement
  <2>3. QED
    BY <2>1, <2>2 DEF GaugeCounts
<1>3. ASSUME NEW c \in Calls, RecordResult(c) PROVE GaugeCounts'
  <2>1. c \in Working /\ Working' = Working \ {c} /\ gauge' = gauge - 1
    BY <1>0, <1>3 DEF RecordResult, Working
  <2>2. Cardinality(Working') = Cardinality(Working) - 1
    BY <2>1, WorkingFinite, FS_RemoveElement
  <2>3. QED
    BY <2>1, <2>2 DEF GaugeCounts
<1>4. CASE \E c \in Calls : CreateRecord(c) \/ CreateDropped(c) \/ Replay(c) \/ Retry(c)
  BY <1>1, <1>4 DEF CreateRecord, CreateDropped, Replay, Retry
<1>5. CASE \E c \in Calls : RequestStep(c) \/ Drop(c)
  BY <1>1, <1>5 DEF RequestStep, Schedule, ScheduleReturns, RecordRejection, Drop
<1>6. CASE \E c \in Calls : JobStep(c)
  BY <1>1, <1>2, <1>3, <1>6
  DEF JobStep, TaskPolled, ClosureReturns, HandlerPanics, TaskAborted
<1>7. CASE \E j \in Jobs : CancelTask(j) \/ CancelRecord(j)
  BY <1>1, <1>7 DEF CancelTask, CancelRecord
<1>8. CASE UNCHANGED vars
  BY <1>1, <1>8 DEF vars
<1>9. QED
  BY <1>4, <1>5, <1>6, <1>7, <1>8 DEF Next

LEMMA GaugeHolds == Spec => []GaugeCounts
<1>1. Init => GaugeCounts
  <2> SUFFICES ASSUME Init PROVE GaugeCounts
    OBVIOUS
  <2>1. Working = {} /\ gauge = 0
    BY DEF Init, Working
  <2>2. QED
    BY <2>1, FS_EmptySet DEF GaugeCounts
<1>2. QED
  BY <1>1, GaugeNext, InvHolds, PTL DEF Spec

\* What ci_job_active counts: the handlers at work, and for ever those that a
\* panic or a cancellation cut short (GaugeIsActive leaves out the latter).
AtWork == {c \in Calls : taskPc[c] = "executing" /\ bodyPc[c] = "working"}
CutShort == {c \in Calls : taskPc[c] \in {"panicked", "aborted"} /\ bodyPc[c] = "working"}

THEOREM GaugeDrifts == Spec => [](gauge = Cardinality(AtWork) + Cardinality(CutShort))
<1>1. Inv /\ GaugeCounts => gauge = Cardinality(AtWork) + Cardinality(CutShort)
  <2> SUFFICES ASSUME Inv, GaugeCounts PROVE gauge = Cardinality(AtWork) + Cardinality(CutShort)
    OBVIOUS
  <2>1. AtWork \cap CutShort = {} /\ AtWork \cup CutShort = Working
    BY DEF Inv, TaskAgrees, AtWork, CutShort, Working
  <2>2. AtWork \in SUBSET Calls /\ CutShort \in SUBSET Calls
    BY DEF AtWork, CutShort
  <2>3. /\ IsFiniteSet(AtWork) /\ IsFiniteSet(CutShort)
        /\ Cardinality(AtWork) \in Nat /\ Cardinality(CutShort) \in Nat
    BY <2>2, CallsAssumption, FS_Subset, FS_CardinalityType
  <2>4. Cardinality(Working) = Cardinality(AtWork) + Cardinality(CutShort) - Cardinality({})
    BY <2>1, <2>3, FS_Union
  <2>5. QED
    BY <2>3, <2>4, FS_EmptySet DEF GaugeCounts
<1>2. QED
  BY <1>1, InvHolds, GaugeHolds, PTL

\* A request that only the endpoint for submissions can have taken up has a record,
\* as long as the history is neither full nor lost; of replays and retries AcceptedIsKnown denies it.
SubmittedIsKnown ==
    \A c \in Calls :
        Begun(c) /\ KindsOf[c] = {"submit"} /\ Len(history) < MaxHistory /\ ~ HistoryLost
        => status[JobOf[c]] # "absent"

LEMMA KnownAfterRequest ==
    ASSUME Inv, SubmittedIsKnown, NEW c \in Calls, CreateRecord(c) \/ CreateDropped(c) \/ Replay(c) \/ Retry(c)
    PROVE  SubmittedIsKnown'
<1> SUFFICES ASSUME NEW d \in Calls, Begun(d)', KindsOf[d] = {"submit"}, Len(history') < MaxHistory,
                    ~ HistoryLost'
             PROVE  status'[JobOf[d]] # "absent"
  BY DEF SubmittedIsKnown
<1>0. /\ JobOf[c] \in Jobs /\ JobOf[d] \in Jobs /\ MaxHistory \in Nat
      /\ history \in Seq(Jobs) /\ Len(history) \in Nat
      /\ reqPc \in [Calls -> {"new", "denied", "broken", "ready", "refused"}]
  BY CallsAssumption, RequestsAssumption, LenProperties DEF Inv, Types, HistoryListsStored
<1>6. ~ HistoryLost /\ reqPc'[c] # "broken"
  BY <1>0, RequestBegins DEF HistoryLost
<1>1. CASE UNCHANGED <<status, history>> /\ (d # c \/ reqPc'[c] = "denied")
  <2>1. Begun(d)
    BY <1>0, <1>1, RequestBegins DEF Begun
  <2>2. QED
    BY <1>1, <1>6, <2>1 DEF SubmittedIsKnown
<1>2. CASE Insert(JobOf[c])
  <2> DEFINE all == Append(history, JobOf[c])
  <2>1. all \in Seq(Jobs) /\ Len(all) = Len(history) + 1 /\ history' = Newest(all)
        /\ all[Len(history) + 1] = JobOf[c]
        /\ \A i \in 1 .. Len(history) : all[i] = history[i]
    BY <1>0, <1>2, AppendProperties DEF Insert
  <2> HIDE DEF all
  <2>2. CASE Len(all) > MaxHistory
    <3>1. history' = SubSeq(all, Len(all) - MaxHistory + 1, Len(all))
      BY <2>1, <2>2 DEF Newest
    <3>2. Len(history') = MaxHistory
      BY <1>0, <2>1, <2>2, <3>1, SubSeqProperties
    <3>3. QED
      BY <1>0, <3>2
  <2>3. CASE Len(all) <= MaxHistory
    <3>1. history' = all
      BY <1>0, <2>1, <2>3 DEF Newest
    <3>2. Lists(history', JobOf[d])
      <4>1. CASE d = c
        BY <1>0, <2>1, <3>1, <4>1 DEF Lists
      <4>2. CASE d # c
        <5>1. Begun(d)
          BY <4>2, RequestBegins DEF Begun
        <5>2. Lists(history, JobOf[d])
          BY <1>0, <1>6, <2>1, <2>3, <5>1 DEF SubmittedIsKnown, Inv, HistoryListsStored
        <5>3. QED
          BY <1>0, <2>1, <3>1, <5>2 DEF Lists
      <4>3. QED
        BY <4>1, <4>2
    <3>3. HistoryListsStored'
      BY RequestWrites
    <3>4. QED
      BY <1>0, <3>2, <3>3 DEF HistoryListsStored
  <2>4. QED
    BY <1>0, <2>1, <2>2, <2>3
<1>3. CASE (Replay(c) \/ Retry(c)) /\ d = c
  BY <1>3 DEF Replay, Retry
<1>4. ~ CreateDropped(c)
  BY <1>0, <1>6 DEF CreateDropped
<1>5. QED
  BY <1>0, <1>1, <1>2, <1>3, <1>4 DEF CreateRecord, CreateDropped, Replay, Retry, storeVars

LEMMA KnownNext == ASSUME Inv, SubmittedIsKnown, [Next]_vars PROVE SubmittedIsKnown'
<1>1. ASSUME NEW j \in Jobs, NEW s \in Statuses \ {"absent"}, SetStatus(j, s),
             \A c \in Calls : Begun(c)' => Begun(c), HistoryLost => HistoryLost'
      PROVE  SubmittedIsKnown'
  <2>1. \A k \in Jobs : status[k] # "absent" => status'[k] # "absent"
    BY <1>1, SetStatusWrites
  <2>2. UNCHANGED history
    BY <1>1 DEF SetStatus
  <2>3. QED
    BY <1>1, <2>1, <2>2, CallsAssumption DEF SubmittedIsKnown
<1>2. CASE UNCHANGED <<status, history, reqPc>>
  BY <1>2 DEF SubmittedIsKnown, Begun, HistoryLost
<1>3. CASE \E c \in Calls : CreateRecord(c) \/ CreateDropped(c) \/ Replay(c) \/ Retry(c)
  BY <1>3, KnownAfterRequest
<1>4. ASSUME NEW c \in Calls, RecordRejection(c) \/ MarkRunning(c) \/ RecordResult(c)
      PROVE  SubmittedIsKnown'
  <2>1. (\A d \in Calls : Begun(d)' => Begun(d)) /\ (HistoryLost => HistoryLost')
    BY <1>4 DEF RecordRejection, MarkRunning, RecordResult, Begun, HistoryLost, Inv, Types
  <2>2. \E s \in Statuses \ {"absent"} : SetStatus(JobOf[c], s)
    BY <1>4 DEF RecordRejection, MarkRunning, RecordResult, Statuses, Terminal
  <2>3. QED
    BY <1>1, <2>1, <2>2, CallsAssumption
<1>5. ASSUME NEW j \in Jobs, CancelRecord(j) PROVE SubmittedIsKnown'
  BY <1>1, <1>5 DEF CancelRecord, Begun, HistoryLost, Statuses, Terminal
<1>6. CASE \E c \in Calls : Schedule(c) \/ ScheduleReturns(c) \/ Drop(c) \/ TaskPolled(c) \/ ClosureReturns(c)
                            \/ HandlerPanics(c) \/ TaskAborted(c)
  BY <1>2, <1>6 DEF Schedule, ScheduleReturns, Drop, TaskPolled, ClosureReturns, HandlerPanics, TaskAborted, storeVars
<1>7. CASE \E j \in Jobs : CancelTask(j)
  BY <1>2, <1>7 DEF CancelTask, storeVars
<1>8. CASE UNCHANGED vars
  BY <1>2, <1>8 DEF vars, storeVars
<1>9. QED
  BY <1>3, <1>4, <1>5, <1>6, <1>7, <1>8 DEF Next, RequestStep, JobStep

THEOREM SubmissionsAreKnown == Spec => []SubmittedIsKnown
<1>1. Init => SubmittedIsKnown
  BY DEF Init, SubmittedIsKnown, Begun
<1>2. QED
  BY <1>1, KnownNext, InvHolds, PTL DEF Spec

CancelsType == cancelling \subseteq Jobs /\ cancelled \subseteq Jobs

LEMMA CancelsHold == Spec => []CancelsType
<1>1. Init => CancelsType
  BY DEF Init, CancelsType
<1>2. CancelsType /\ [Next]_vars => CancelsType'
  <2> SUFFICES ASSUME CancelsType, [Next]_vars PROVE CancelsType'
    OBVIOUS
  <2>1. \/ UNCHANGED cancelVars
        \/ \E j \in Jobs : CancelTask(j) \/ CancelRecord(j)
    BY DEF Next, CreateRecord, CreateDropped, Replay, Retry, RequestStep, Schedule, ScheduleReturns,
           RecordRejection, Drop, JobStep, TaskPolled, MarkRunning, RecordResult, ClosureReturns,
           HandlerPanics, TaskAborted, vars
  <2>2. QED
    BY <2>1 DEF CancelsType, cancelVars, CancelTask, CancelRecord
<1>3. QED
  BY <1>1, <1>2, PTL DEF Spec

\* The variables of the service keep their types, those of the scheduler included, and
\* the gauge stays between zero and the number of requests.
THEOREM TypeCorrect == Spec => []TypeOK
<1>1. ASSUME SchedulerTypeOK, Inv, GaugeCounts, CancelsType PROVE TypeOK
  BY <1>1, WorkingFinite DEF TypeOK, Inv, Types, GaugeCounts, HistoryListsStored, CancelsType
<1>2. QED
  BY <1>1, ServiceImplementsScheduler, SchedulerTypeCorrect, InvHolds, GaugeHolds, CancelsHold, PTL

-----------------------------------------------------------------------------
(* The service implements JobLifecycle                                     *)

Disputed(j) == CancelAsked(j) \/ Reused(j)
Seen(j) == IF Disputed(j) THEN "contested" ELSE status[j]
View == [j \in Jobs |-> Seen(j)]

LEMMA ViewType == ASSUME Inv PROVE View \in [Jobs -> Lifecycle!Views]
<1>1. \A j \in Jobs : status[j] \in Statuses /\ (status[j] = "cancelled" => Disputed(j))
  BY DEF Inv, Types, CancelledIsAsked, Disputed
<1>2. \A j \in Jobs : Seen(j) \in Lifecycle!Views
  BY <1>1 DEF Seen, Statuses, Terminal, Lifecycle!Views, Lifecycle!Terminal
<1>3. QED
  BY <1>2 DEF View

\* A write of the status of one job, which leaves all others alone.
LEMMA WriteSeen ==
    ASSUME Inv, NEW j \in Jobs, NEW s \in Statuses \ {"absent"}, SetStatus(j, s),
           \A k \in Jobs : Disputed(k)' <=> Disputed(k)
    PROVE  View' = IF Disputed(j) \/ status[j] = "absent" THEN View ELSE [View EXCEPT ![j] = s]
<1>1. \A k \in Jobs : status'[k] = IF k = j /\ status[j] # "absent" THEN s ELSE status[k]
  BY SetStatusWrites
<1>2. CASE Disputed(j) \/ status[j] = "absent"
  <2>1. \A k \in Jobs : Seen(k)' = Seen(k)
    BY <1>1, <1>2 DEF Seen
  <2>2. QED
    BY <1>2, <2>1 DEF View
<1>3. CASE ~ (Disputed(j) \/ status[j] = "absent")
  <2>1. \A k \in Jobs : Seen(k)' = IF k = j THEN s ELSE Seen(k)
    BY <1>1, <1>3 DEF Seen
  <2>2. QED
    BY <1>3, <2>1 DEF View
<1>4. QED
  BY <1>2, <1>3

\* The closure takes a job that is not contested from pending to running, and from
\* running to its end.
LEMMA ClosureAdvances ==
    ASSUME Inv, NEW c \in Calls, MarkRunning(c) \/ RecordResult(c)
    PROVE  Lifecycle!Next \/ View' = View
<1> DEFINE j == JobOf[c]
<1>1. /\ j \in Jobs /\ reqPc[c] = "ready"
      /\ \A k \in Jobs : Disputed(k)' <=> Disputed(k)
  BY CallsAssumption DEF MarkRunning, RecordResult, cancelVars, Disputed, CancelAsked, Reused, Inv, TaskAgrees
<1>2. {"running", "completed", "failed"} \subseteq Statuses \ {"absent"}
  BY DEF Statuses, Terminal
<1>3. ~ Disputed(j) => status[j] \in Allowed(bodyPc[c]) /\ View[j] = status[j]
  BY <1>1 DEF Inv, StatusFollows, Disputed, View, Seen
<1>4. CASE MarkRunning(c)
  <2>1. View' = IF Disputed(j) \/ status[j] = "absent" THEN View ELSE [View EXCEPT ![j] = "running"]
    BY <1>1, <1>2, <1>4, WriteSeen DEF MarkRunning
  <2>2. ~ (Disputed(j) \/ status[j] = "absent") => View[j] = "pending"
    BY <1>3, <1>4 DEF MarkRunning, Allowed
  <2>3. CASE ~ (Disputed(j) \/ status[j] = "absent")
    BY <1>1, <2>1, <2>2, <2>3 DEF Lifecycle!Next, Lifecycle!Start, Lifecycle!Become, View, Seen, Disputed
  <2>4. QED
    BY <2>1, <2>3
<1>5. CASE RecordResult(c)
  <2>1. PICK s \in {"completed", "failed"} : SetStatus(j, s)
    BY <1>5 DEF RecordResult
  <2>2. View' = IF Disputed(j) \/ status[j] = "absent" THEN View ELSE [View EXCEPT ![j] = s]
    BY <1>1, <1>2, <2>1, WriteSeen
  <2>3. ~ (Disputed(j) \/ status[j] = "absent") => View[j] = "running"
    BY <1>3, <1>5 DEF RecordResult, Allowed
  <2>4. CASE ~ (Disputed(j) \/ status[j] = "absent")
    BY <1>1, <2>2, <2>3, <2>4 DEF Lifecycle!Next, Lifecycle!Finish, Lifecycle!Terminal, Lifecycle!Become,
                                  View, Seen, Disputed
  <2>5. QED
    BY <2>2, <2>4
<1>6. QED
  BY <1>4, <1>5

\* A submission introduces its job, or contests it, and may make the history
\* forget another.
LEMMA RequestAdvances ==
    ASSUME Inv, NEW c \in Calls, CreateRecord(c) \/ CreateDropped(c) \/ Replay(c) \/ Retry(c)
    PROVE  Lifecycle!Next \/ View' = View
<1> DEFINE j == JobOf[c]
<1> USE DEF Lifecycle!Next, Lifecycle!Become
<1>1. /\ j \in Jobs /\ View \in [Jobs -> Lifecycle!Views]
      /\ \A k \in Jobs : Disputed(k) => Disputed(k)'
      /\ \A k \in Jobs \ {j} : Disputed(k)' => Disputed(k)
  BY RequestBegins, ViewType DEF Disputed, CancelAsked
<1>2. CASE \A k \in Jobs : status'[k] = status[k]
  <2>1. \A k \in Jobs : Seen(k)' = IF k = j /\ Disputed(j)' THEN "contested" ELSE Seen(k)
    BY <1>1, <1>2 DEF Seen
  <2>2. View' = IF Disputed(j)' THEN [View EXCEPT ![j] = "contested"] ELSE View
    BY <1>1, <2>1 DEF View
  <2>3. CASE Disputed(j)'
    <3>1. View' = [View EXCEPT ![j] = "contested"] /\ View[j] \in Lifecycle!Views
      BY <1>1, <2>2, <2>3
    <3>2. Lifecycle!Contest(j)
      BY <3>1 DEF Lifecycle!Contest, View, Seen, Disputed
    <3>3. QED
      BY <1>1, <3>2
  <2>4. QED
    BY <2>2, <2>3
<1>3. CASE status[j] = "absent" /\ \A k \in Jobs : status'[k] = IF k = j THEN "pending" ELSE status[k]
  <2>1. \A k \in Jobs : Seen(k)' = IF k # j THEN Seen(k) ELSE IF Disputed(j)' THEN "contested" ELSE "pending"
    BY <1>1, <1>3 DEF Seen
  <2>2. View' = [View EXCEPT ![j] = IF Disputed(j)' THEN "contested" ELSE "pending"]
    BY <1>1, <2>1 DEF View
  <2>3. CASE Disputed(j)'
    <3>1. View' = [View EXCEPT ![j] = "contested"] /\ View[j] \in Lifecycle!Views
      BY <1>1, <2>2, <2>3
    <3>2. Lifecycle!Contest(j)
      BY <3>1 DEF Lifecycle!Contest, View, Seen, Disputed
    <3>3. QED
      BY <1>1, <3>2
  <2>4. CASE ~ Disputed(j)'
    <3>1. View' = [View EXCEPT ![j] = "pending"] /\ View[j] = "absent"
      BY <1>1, <1>3, <2>2, <2>4 DEF View, Seen
    <3>2. Lifecycle!Submit(j)
      BY <3>1 DEF Lifecycle!Submit, View, Seen, Disputed
    <3>3. QED
      BY <1>1, <3>2
  <2>5. QED
    BY <2>3, <2>4
<1>4. ASSUME NEW old \in Jobs \ {j}, status[old] # "absent", status[j] = "absent",
             \A k \in Jobs : status'[k] = IF k = j THEN "pending" ELSE IF k = old THEN "absent" ELSE status[k]
      PROVE  Lifecycle!Next
  <2> DEFINE new == IF Disputed(j)' THEN "contested" ELSE "pending"
             left == IF Disputed(old) THEN "contested" ELSE "absent"
  <2>1. \A k \in Jobs : Seen(k)' = IF k = j THEN new ELSE IF k = old THEN left ELSE Seen(k)
    BY <1>1, <1>4 DEF Seen
  <2>2. View' = [View EXCEPT ![j] = new, ![old] = left]
    BY <1>1, <2>1 DEF View
  <2>3. View[old] = Seen(old) /\ View[j] = Seen(j)
    BY <1>1 DEF View
  <2>4. /\ View[old] # "absent"
        /\ (View[old] = "contested") <=> Disputed(old)
    BY <1>4, <2>3 DEF Seen, Inv, Types, Statuses, Terminal
  <2>5. View' = [View EXCEPT ![j] = new, ![old] = IF View[old] = "contested" THEN View[old] ELSE "absent"]
    BY <2>2, <2>4
  <2>6. CASE Disputed(j)'
    <3>1. View' = [View EXCEPT ![j] = "contested", ![old] = IF View[old] = "contested" THEN View[old] ELSE "absent"]
      BY <2>5, <2>6
    <3>2. Lifecycle!ContestAndForget(j, old)
      BY <3>1 DEF Lifecycle!ContestAndForget, View, Seen, Disputed
    <3>3. QED
      BY <1>1, <3>2
  <2>7. CASE ~ Disputed(j)'
    <3>1. /\ View' = [View EXCEPT ![j] = "pending", ![old] = IF View[old] = "contested" THEN View[old] ELSE "absent"]
          /\ View[j] = "absent"
      BY <1>1, <1>4, <2>3, <2>5, <2>7 DEF Seen
    <3>2. Lifecycle!SubmitAndForget(j, old)
      BY <2>4, <3>1 DEF Lifecycle!SubmitAndForget, View, Seen, Disputed
    <3>3. QED
      BY <1>1, <3>2
  <2>8. QED
    BY <2>6, <2>7
<1>5. CASE reqPc'[c] = "broken" /\ \A k \in Jobs : status'[k] = "absent"
  <2> DEFINE left(k) == IF View[k] = "contested" THEN "contested" ELSE "absent"
  <2>1. \A k \in Jobs : (View[k] = "contested") <=> Disputed(k)
    BY DEF View, Seen, Inv, Types, Statuses, Terminal
  <2>2. \A k \in Jobs : Disputed(k)' <=> Disputed(k)
    <3>1. \A d \in Calls : Begun(d)' <=> Begun(d)
      BY <1>5, RequestBegins DEF Begun
    <3>2. \A k \in Jobs : Reused(k)' <=> Reused(k)
      BY <3>1 DEF Reused, Begun
    <3>3. QED
      BY <3>2, RequestBegins DEF Disputed, CancelAsked
  <2>3. \A k \in Jobs : Seen(k)' = left(k)
    BY <1>5, <2>1, <2>2 DEF Seen
  <2>4. View' = [k \in Jobs |-> left(k)]
    BY <2>3 DEF View
  <2>5. Lifecycle!ForgetAll
    BY <2>4 DEF Lifecycle!ForgetAll, View, Seen, Disputed
  <2>6. QED
    BY <2>5
<1>6. QED
  BY <1>2, <1>3, <1>4, <1>5, RequestWrites DEF Inserted

LEMMA NextAdvances == ASSUME Inv, [Next]_vars PROVE Lifecycle!Next \/ View' = View
<1>1. CASE \E c \in Calls : CreateRecord(c) \/ CreateDropped(c) \/ Replay(c) \/ Retry(c) \/ MarkRunning(c) \/ RecordResult(c)
  BY <1>1, RequestAdvances, ClosureAdvances
<1>2. ASSUME UNCHANGED <<status, reqPc, cancelVars>> PROVE View' = View
  BY <1>2 DEF View, Seen, Disputed, CancelAsked, Reused, cancelVars
<1>3. CASE \E c \in Calls : \/ Schedule(c) \/ ScheduleReturns(c) \/ Drop(c) \/ TaskPolled(c) \/ ClosureReturns(c)
                           \/ HandlerPanics(c) \/ TaskAborted(c)
  BY <1>2, <1>3 DEF Schedule, ScheduleReturns, Drop, TaskPolled, ClosureReturns, HandlerPanics, TaskAborted, storeVars
<1>4. ASSUME NEW c \in Calls, RecordRejection(c) PROVE View' = View
  <2>1. /\ JobOf[c] \in Jobs /\ SetStatus(JobOf[c], "failed") /\ "failed" \in Statuses \ {"absent"}
        /\ Disputed(JobOf[c])
    BY <1>4, CallsAssumption DEF RecordRejection, Inv, TaskAgrees, Disputed, Statuses, Terminal
  <2>2. \A k \in Jobs : Disputed(k)' <=> Disputed(k)
    BY <1>4 DEF RecordRejection, Disputed, CancelAsked, Reused, cancelVars, Inv, Types
  <2>3. QED
    BY <2>1, <2>2, WriteSeen
<1>5. ASSUME NEW j \in Jobs, CancelTask(j) PROVE Lifecycle!Next
  <2>1. \A k \in Jobs : Seen(k)' = IF k = j THEN "contested" ELSE Seen(k)
    BY <1>5 DEF CancelTask, storeVars, Seen, Disputed, CancelAsked, Reused
  <2>2. View' = [View EXCEPT ![j] = "contested"] /\ View[j] \in Lifecycle!Views
    BY <2>1, ViewType DEF View
  <2>3. Lifecycle!Contest(j)
    BY <2>2 DEF Lifecycle!Contest, Lifecycle!Become, View, Seen, Disputed
  <2>4. QED
    BY <2>3 DEF Lifecycle!Next
<1>6. ASSUME NEW j \in Jobs, CancelRecord(j) PROVE View' = View
  <2>1. SetStatus(j, "cancelled") /\ "cancelled" \in Statuses \ {"absent"} /\ Disputed(j)
    BY <1>6 DEF CancelRecord, Statuses, Terminal, Disputed, CancelAsked
  <2>2. \A k \in Jobs : Disputed(k)' <=> Disputed(k)
    BY <1>6 DEF CancelRecord, Disputed, CancelAsked, Reused
  <2>3. QED
    BY <2>1, <2>2, WriteSeen
<1>7. CASE UNCHANGED vars
  BY <1>2, <1>7 DEF vars, storeVars
<1>8. QED
  BY <1>1, <1>3, <1>4, <1>5, <1>6, <1>7 DEF Next, RequestStep, JobStep

\* A job that nobody cancels and whose id is not reused goes through the statuses of
\* JobLifecycle: no late write takes it back or finishes it twice.
THEOREM ServiceImplementsLifecycle == Spec => LifecycleSpec
<1>1. Init => Lifecycle!Init
  <2> SUFFICES ASSUME Init PROVE Lifecycle!Init
    OBVIOUS
  <2>1. \A j \in Jobs : ~ CancelAsked(j) /\ ~ Reused(j) /\ status[j] = "absent"
    BY RequestsAssumption DEF Init, CancelAsked, Reused
  <2>2. QED
    BY <2>1 DEF Lifecycle!Init
<1>2. Inv /\ [Next]_vars =>
          [Lifecycle!Next]_[j \in Jobs |-> IF CancelAsked(j) \/ Reused(j) THEN "contested" ELSE status[j]]
  BY NextAdvances DEF View, Seen, Disputed
<1>3. QED
  BY <1>1, <1>2, InvHolds, PTL DEF Spec, LifecycleSpec, Lifecycle!Spec

=============================================================================
