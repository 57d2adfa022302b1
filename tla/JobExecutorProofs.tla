------------------------- MODULE JobExecutorProofs -------------------------
(***************************************************************************)
(* Theorems about JobExecutor, for every runner.yaml and whatever the      *)
(* Docker daemon fails to do.                                              *)
(*                                                                         *)
(* The container is followed through the set-up: only Create leads to      *)
(* "starting", so what is started was created by this execution.  The      *)
(* attempts are followed through the loop over a step, which never counts  *)
(* beyond the attempts of the step it is at.                               *)
(*                                                                         *)
(* The plan is followed because steps are left behind in order (InOrder),  *)
(* and are decided by the results before them when they are (Decided).     *)
(***************************************************************************)
EXTENDS JobExecutor, FiniteSetTheorems, SequenceTheorems, WellFoundedInduction, TLAPS

StartsOwn == pc = "starting" => container = "created"

AttemptInBudget ==
    pc = "attempting" => /\ todo # {}
                         /\ attempt \in 1 .. config[Current].attempts

Inv == /\ TypeOK
       /\ StartsOwn
       /\ OwnContainer
       /\ AttemptInBudget
       /\ AttemptsUsedUp

-----------------------------------------------------------------------------
(* Lemmas                                                                  *)

\* Every set of natural numbers has a least member: the part of it up to each of its
\* members is finite, so one of these parts has no other strictly within it.
LEMMA LeastOf ==
    ASSUME NEW T \in SUBSET Nat, T # {}
    PROVE  \E i \in T : \A k \in T : i <= k
<1> DEFINE UpTo(i) == {j \in T : j <= i}
           Parts == {UpTo(i) : i \in T}
           R == StrictSubsetOrdering(T)
<1>1. \A i \in T : IsFiniteSet(UpTo(i))
  <2> SUFFICES ASSUME NEW i \in T PROVE IsFiniteSet(UpTo(i))
    OBVIOUS
  <2>1. 0 \in Int /\ i \in Int
    OBVIOUS
  <2>2. IsFiniteSet(0 .. i)
    BY <2>1, FS_Interval
  <2>3. ASSUME NEW j \in T, j <= i PROVE j \in 0 .. i
    <3>1. j \in Nat /\ i \in Nat
      OBVIOUS
    <3>2. QED
      BY <2>3, <3>1
  <2>4. UpTo(i) \subseteq 0 .. i
    BY <2>3
  <2>5. QED
    BY <2>2, <2>4, FS_Subset
<1>2. \A P \in Parts : P \in FiniteSubsetsOf(T)
  BY <1>1 DEF FiniteSubsetsOf
<1>3. \E P \in Parts : \A Q \in Parts : <<Q, P>> \notin R
  <2>1. IsWellFoundedOn(R, FiniteSubsetsOf(T))
    BY FS_StrictSubsetOrderingWellFounded
  <2>2. Parts # {}
    OBVIOUS
  <2> HIDE DEF Parts, R
  <2>3. Parts \subseteq FiniteSubsetsOf(T)
    BY <1>2
  <2>4. QED
    BY <2>1, <2>2, <2>3, WFMin
<1>4. PICK i \in T : \A Q \in Parts : <<Q, UpTo(i)>> \notin R
  BY <1>3
<1>5. ASSUME NEW k \in T, k < i PROVE FALSE
  <2>1. k \in Int /\ i \in Int
    OBVIOUS
  <2>2. ASSUME NEW j \in T, j <= k PROVE j <= i
    <3>1. j \in Int
      OBVIOUS
    <3>2. QED
      BY <1>5, <2>1, <2>2, <3>1
  <2>3. UpTo(k) \subseteq UpTo(i)
    BY <2>2
  <2>4. i \in UpTo(i) /\ i \notin UpTo(k)
    BY <1>5, <2>1
  <2>5. <<UpTo(k), UpTo(i)>> \in R
    BY <2>3, <2>4 DEF StrictSubsetOrdering
  <2>6. QED
    BY <1>4, <2>5
<1>6. QED
  BY <1>5

\* The step that is looked at is one of those to be looked at.
LEMMA CurrentIsNext == ASSUME TypeOK, todo # {} PROVE Current \in todo
<1>1. config \in Seq(Steps) /\ todo \subseteq DOMAIN config
  BY DEF TypeOK
<1>2. DOMAIN config = 1 .. Len(config) /\ Len(config) \in Nat
  BY <1>1, LenProperties
<1>3. todo \in SUBSET Nat
  BY <1>1, <1>2
<1>4. \E i \in todo : \A k \in todo : i <= k
  BY <1>3, LeastOf
<1>5. QED
  BY <1>4 DEF Current

LEMMA StepType ==
    ASSUME TypeOK, todo # {}
    PROVE  /\ Current \in DOMAIN config
           /\ config[Current] \in Steps
           /\ config[Current].attempts \in Nat
           /\ config[Current].tolerant \in BOOLEAN
<1>1. Current \in DOMAIN config
  BY CurrentIsNext DEF TypeOK
<1>2. config \in Seq(Steps)
  BY DEF TypeOK
<1>3. config[Current] \in Steps
  BY <1>1, <1>2
<1>4. QED
  BY <1>1, <1>3 DEF Steps

LEMMA PhaseCount == Len(Phases) = 3
BY DEF Phases

LEMMA ContainerLeft ==
    ASSUME TypeOK, StopAndRemove
    PROVE  container' \in {"absent", "stale", "created", "running"}
BY DEF TypeOK, StopAndRemove, Answers

\* A result that keeps to the rule for its step.
Fair(r) == /\ r.attempt <= config[r.step].attempts
           /\ ~ r.passed /\ ~ config[r.step].tolerant => r.attempt = config[r.step].attempts

LEMMA InitInv == Init => Inv
<1> SUFFICES ASSUME Init PROVE Inv
  OBVIOUS
<1> USE DEF Init
<1>1. TypeOK
  <2>1. config \in Seq(Steps)
    BY ConfigsAssumption
  <2>2. 0 \in 0 .. Len(Phases)
    BY PhaseCount
  <2>3. results \in Seq([step : DOMAIN config, passed : BOOLEAN, attempt : Nat])
    BY EmptySeq
  <2>4. QED
    BY <2>1, <2>2, <2>3 DEF TypeOK, Live, Setup
<1>2. StartsOwn /\ OwnContainer /\ AttemptInBudget
  BY DEF StartsOwn, OwnContainer, AttemptInBudget
<1>3. AttemptsUsedUp
  BY DEF AttemptsUsedUp
<1>4. QED
  BY <1>1, <1>2, <1>3 DEF Inv

\* A call of the set-up touches neither the steps nor the results.
LEMMA SetupKeeps == ASSUME Inv, SetupStep PROVE Inv'
<1> USE DEF Live, Setup, Ended, jobVars
<1>1. UNCHANGED <<config, jobVars>> /\ pc' \notin {"attempting", "cleaning"}
  BY DEF SetupStep, VerifyWorkspace, PullImage, RemoveExisting, Create, ClearConflict, StartContainer
<1>2. AttemptsUsedUp' /\ AttemptInBudget'
  BY <1>1 DEF Inv, AttemptsUsedUp, AttemptInBudget, Current
<1>3. CASE VerifyWorkspace \/ PullImage
  BY <1>2, <1>3 DEF Inv, TypeOK, StartsOwn, OwnContainer, VerifyWorkspace, PullImage
<1>4. CASE RemoveExisting \/ ClearConflict
  <2>1. container' \in {"absent", "stale", "created", "running"}
    BY <1>4, ContainerLeft DEF Inv, TypeOK, RemoveExisting, ClearConflict
  <2>2. QED
    BY <1>2, <1>4, <2>1 DEF Inv, TypeOK, StartsOwn, OwnContainer, RemoveExisting, ClearConflict
<1>5. CASE Create
  BY <1>2, <1>5 DEF Inv, TypeOK, StartsOwn, OwnContainer, Create
<1>6. CASE StartContainer
  BY <1>2, <1>6 DEF Inv, TypeOK, StartsOwn, OwnContainer, StartContainer, Started, Answers
<1>7. QED
  BY <1>3, <1>4, <1>5, <1>6 DEF SetupStep

LEMMA ChooseKeeps == ASSUME Inv, Choose PROVE Inv'
<1> USE DEF Live, Setup, Ended
<1>1. UNCHANGED <<config, results, container>>
  BY DEF Choose, NextPhase, SkipStep, BeginStep
<1>2. AttemptsUsedUp'
  BY <1>1 DEF Inv, AttemptsUsedUp
<1>3. CASE NextPhase
  <2>1. todo' \subseteq DOMAIN config /\ phase' \in 0 .. Len(Phases)
    BY <1>3, PhaseCount DEF NextPhase, Inv, TypeOK, StepsOf
  <2>2. QED
    BY <1>2, <1>3, <2>1 DEF NextPhase, Inv, TypeOK, StartsOwn, OwnContainer, AttemptInBudget
<1>4. CASE SkipStep
  BY <1>2, <1>4 DEF SkipStep, Inv, TypeOK, StartsOwn, OwnContainer, AttemptInBudget
<1>5. CASE BeginStep
  <2>1. AttemptInBudget'
    <3> SUFFICES ASSUME pc' = "attempting"
                 PROVE  todo' # {} /\ attempt' \in 1 .. config'[Current'].attempts
      BY DEF AttemptInBudget
    <3>1. Current' = Current
      BY <1>5 DEF BeginStep, Current
    <3>2. config[Current].attempts \in Nat \ {0}
      BY <1>5, StepType DEF BeginStep, Inv
    <3>3. QED
      BY <1>5, <3>1, <3>2 DEF BeginStep
  <2>2. QED
    BY <1>2, <1>5, <2>1 DEF BeginStep, Inv, TypeOK, StartsOwn, OwnContainer
<1>6. QED
  BY <1>3, <1>4, <1>5 DEF Choose

\* A result that is fair may be appended.
LEMMA ResultAppended ==
    ASSUME Inv, todo # {}, NEW passed \in BOOLEAN, Fair(Result(passed)),
           results' = Append(results, Result(passed)), UNCHANGED config
    PROVE  /\ results' \in Seq([step : DOMAIN config', passed : BOOLEAN, attempt : Nat])
           /\ AttemptsUsedUp'
<1>1. Result(passed) \in [step : DOMAIN config, passed : BOOLEAN, attempt : Nat]
  BY StepType DEF Inv, TypeOK, Result
<1>2. results \in Seq([step : DOMAIN config, passed : BOOLEAN, attempt : Nat])
  BY DEF Inv, TypeOK
<1>3. results' \in Seq([step : DOMAIN config, passed : BOOLEAN, attempt : Nat])
  BY <1>1, <1>2
<1>4. ASSUME NEW k \in DOMAIN results' PROVE Fair(results'[k])
  <2>1. CASE k \in DOMAIN results
    <3>1. results'[k] = results[k]
      BY <1>2, <2>1
    <3>2. QED
      BY <2>1, <3>1 DEF Inv, AttemptsUsedUp, Fair
  <2>2. CASE k \notin DOMAIN results
    <3>1. results'[k] = Result(passed)
      BY <1>2, <1>4, <2>2
    <3>2. QED
      BY <3>1
  <2>3. QED
    BY <2>1, <2>2
<1>5. AttemptsUsedUp'
  BY <1>4 DEF AttemptsUsedUp, Fair
<1>6. QED
  BY <1>3, <1>5

LEMMA AttemptKeeps == ASSUME Inv, AttemptEnds PROVE Inv'
<1> USE DEF Live, Setup, Ended
<1>1. /\ todo # {} /\ pc = "attempting"
      /\ attempt \in 1 .. config[Current].attempts
      /\ UNCHANGED <<config, container>>
  BY DEF Inv, AttemptInBudget, AttemptEnds, StepPasses, StepFails, StepErrors
<1>2. config[Current].attempts \in Nat /\ config[Current].tolerant \in BOOLEAN
  BY <1>1, StepType DEF Inv
<1>3. ASSUME NEW passed \in BOOLEAN
      PROVE  Fair(Result(passed)) <=> (passed \/ config[Current].tolerant
                                              \/ attempt = config[Current].attempts)
  BY <1>1, <1>2, <1>3 DEF Fair, Result
\* One more attempt.
<1>4. ASSUME attempt < config[Current].attempts,
             attempt' = attempt + 1,
             UNCHANGED <<pc, todo, results, jobFailed, phase>>
      PROVE  Inv'
  <2>1. Current' = Current
    BY <1>4 DEF Current
  <2>2. AttemptInBudget'
    BY <1>1, <1>2, <1>4, <2>1 DEF AttemptInBudget
  <2>3. AttemptsUsedUp'
    BY <1>1, <1>4 DEF Inv, AttemptsUsedUp
  <2>4. TypeOK'
    BY <1>1, <1>2, <1>4 DEF Inv, TypeOK
  <2>5. QED
    BY <1>1, <1>4, <2>2, <2>3, <2>4 DEF Inv, StartsOwn, OwnContainer
\* The step has a result.
<1>5. ASSUME NEW passed \in BOOLEAN, Fair(Result(passed)),
             results' = Append(results, Result(passed)),
             pc' = "selecting", todo' \subseteq todo, jobFailed' \in BOOLEAN,
             UNCHANGED <<attempt, phase>>
      PROVE  Inv'
  <2>1. /\ results' \in Seq([step : DOMAIN config', passed : BOOLEAN, attempt : Nat])
        /\ AttemptsUsedUp'
    BY <1>1, <1>5, ResultAppended
  <2>2. TypeOK'
    BY <1>1, <1>5, <2>1 DEF Inv, TypeOK
  <2>3. StartsOwn' /\ OwnContainer' /\ AttemptInBudget'
    BY <1>1, <1>5 DEF Inv, StartsOwn, OwnContainer, AttemptInBudget
  <2>4. QED
    BY <2>1, <2>2, <2>3 DEF Inv
<1>6. CASE StepPasses
  BY <1>3, <1>5, <1>6 DEF StepPasses, Inv, TypeOK
<1>7. CASE StepFails
  <2>1. jobFailed \in BOOLEAN
    BY DEF Inv, TypeOK
  <2>2. CASE attempt' = attempt + 1 /\ attempt < config[Current].attempts
             /\ UNCHANGED <<pc, todo, results, jobFailed>>
    BY <1>4, <1>7, <2>2 DEF StepFails
  <2>3. CASE /\ attempt = config[Current].attempts \/ config[Current].tolerant
             /\ pc' = "selecting" /\ UNCHANGED attempt
             /\ results' = Append(results, Result(FALSE))
             /\ todo' \subseteq todo /\ jobFailed' \in BOOLEAN
    BY <1>3, <1>5, <1>7, <2>3 DEF StepFails
  <2>4. QED
    BY <1>2, <1>7, <2>1, <2>2, <2>3 DEF StepFails
<1>8. CASE StepErrors
  <2>1. CASE attempt < config[Current].attempts /\ attempt' = attempt + 1 /\ UNCHANGED pc
    BY <1>4, <1>8, <2>1 DEF StepErrors
  <2>2. CASE pc' = "error" /\ UNCHANGED attempt
    <3>1. AttemptsUsedUp'
      BY <1>1, <1>8 DEF StepErrors, Inv, AttemptsUsedUp
    <3>2. QED
      BY <1>1, <1>8, <2>2, <3>1
      DEF StepErrors, Inv, TypeOK, StartsOwn, OwnContainer, AttemptInBudget
  <2>3. QED
    BY <1>8, <2>1, <2>2 DEF StepErrors
<1>9. QED
  BY <1>6, <1>7, <1>8 DEF AttemptEnds

LEMMA NextInv == ASSUME Inv, [Next]_vars PROVE Inv'
<1> USE DEF Live, Setup, Ended
<1>1. CASE SetupStep
  BY <1>1, SetupKeeps
<1>2. CASE Choose
  BY <1>2, ChooseKeeps
<1>3. CASE AttemptEnds
  BY <1>3, AttemptKeeps
<1>4. CASE Cleanup \/ Abort
  <2>1. /\ pc' \in Ended /\ UNCHANGED <<config, jobVars>>
        /\ container' \in {"absent", "stale", "created", "running"}
    BY <1>4, ContainerLeft DEF Cleanup, Abort, Inv, TypeOK, Started
  <2>2. AttemptsUsedUp'
    BY <2>1 DEF Inv, AttemptsUsedUp, jobVars
  <2>3. QED
    BY <2>1, <2>2 DEF Inv, TypeOK, StartsOwn, OwnContainer, AttemptInBudget, jobVars
<1>5. CASE Returned \/ UNCHANGED vars
  <2>1. UNCHANGED vars
    BY <1>5 DEF Returned
  <2>2. AttemptsUsedUp' /\ AttemptInBudget'
    BY <2>1 DEF Inv, AttemptsUsedUp, AttemptInBudget, Current, vars, jobVars
  <2>3. QED
    BY <2>1, <2>2 DEF Inv, TypeOK, StartsOwn, OwnContainer, vars, jobVars
<1>6. QED
  BY <1>1, <1>2, <1>3, <1>4, <1>5 DEF Next

LEMMA InvHolds == Spec => []Inv
BY InitInv, NextInv, PTL DEF Spec

\* What NothingLeftBehind claims holds of a job that ran to its end and whose container
\* the daemon agreed to stop and remove; the errors of execute() are what breaks it.
RemovedAtEnd ==
    pc \in {"success", "failed"} =>
        container = "absent" \/ (container = "running" /\ {"stop", "remove"} \cap Flaky # {})

LEMMA RemovedNext == ASSUME Inv, RemovedAtEnd, [Next]_vars PROVE RemovedAtEnd'
<1>1. CASE Cleanup
  <2>1. container = "running"
    BY <1>1 DEF Cleanup, Inv, OwnContainer
  <2>2. container' = "absent" \/ (container' = "running" /\ {"stop", "remove"} \cap Flaky # {})
    BY <1>1, <2>1 DEF Cleanup, StopAndRemove, Answers
  <2>3. QED
    BY <2>2 DEF RemovedAtEnd
<1>2. CASE SetupStep
  BY <1>2 DEF SetupStep, VerifyWorkspace, PullImage, RemoveExisting, Create, ClearConflict,
              StartContainer, RemovedAtEnd
<1>3. CASE Choose \/ AttemptEnds \/ Abort
  BY <1>3 DEF Choose, NextPhase, SkipStep, BeginStep, AttemptEnds, StepPasses, StepFails, StepErrors,
              Abort, Live, Setup, RemovedAtEnd
<1>4. CASE Returned \/ UNCHANGED vars
  BY <1>4 DEF Returned, vars, RemovedAtEnd
<1>5. QED
  BY <1>1, <1>2, <1>3, <1>4 DEF Next

\* The container of a job that succeeded or failed is gone, unless the daemon refused
\* to stop or to remove it (executor.rs:289-322).
THEOREM EndedJobsLeaveNothing == Spec => []RemovedAtEnd
<1>1. Init => RemovedAtEnd
  BY DEF Init, RemovedAtEnd
<1>2. QED
  BY <1>1, RemovedNext, InvHolds, PTL DEF Spec

-----------------------------------------------------------------------------
(* The plan                                                                *)

\* The step is behind the executor: it has a result or never will.
Past(i) == Rank(i) < phase \/ (Rank(i) = phase /\ i \notin todo)

\* Steps are left behind in the order of the phases and of the file.
InOrder ==
    /\ \A i \in todo : Rank(i) = phase
    /\ \A i \in todo, j \in DOMAIN config : Rank(j) = phase /\ j \notin todo => j < i
    /\ \A r \in Known : Past(r.step)
    /\ \A k, l \in DOMAIN results : k < l => Before(results[k].step, results[l].step)

FailureKnown ==
    /\ jobFailed <=> Broken(Known)
    /\ jobFailed /\ phase < 3 => todo = {}

\* What has become of a step is what the plan says, by the results before it.
Decided == \A i \in DOMAIN config : Past(i) => (Ran(i) <=> Planned(i))

AtStep == pc = "attempting" => Due(config[Current])

AtEnd ==
    /\ pc \in {"cleaning", "success", "failed"} => phase = 3 /\ todo = {}
    /\ pc = "success" => ~ AnyFailed

Plan == InOrder /\ FailureKnown /\ Decided

PlanInv == Plan /\ AtStep /\ AtEnd

LEMMA StepTypes ==
    ASSUME TypeOK, NEW i \in DOMAIN config
    PROVE  config[i].type \in {"pre", "exec", "post"}
<1>1. config \in Seq(Steps)
  BY DEF TypeOK
<1>2. config[i] \in Steps
  BY <1>1, ElementOfSeq, LenProperties
<1>3. QED
  BY <1>2 DEF Steps

\* The type of a step gives its phase.
LEMMA RankOf ==
    ASSUME TypeOK, NEW i \in DOMAIN config
    PROVE  Rank(i) \in 1 .. 3 /\ (Rank(i) = 3 <=> config[i].type = "post")
<1>1. config[i].type \in {"pre", "exec", "post"}
  BY StepTypes
<1>2. DOMAIN Phases = 1 .. 3 /\ Phases[1] = "pre" /\ Phases[2] = "exec" /\ Phases[3] = "post"
  BY DEF Phases
<1>3. \E p \in DOMAIN Phases : Phases[p] = config[i].type
  BY <1>1, <1>2
<1>4. Rank(i) \in DOMAIN Phases /\ Phases[Rank(i)] = config[i].type
  BY <1>3 DEF Rank
<1>5. QED
  BY <1>2, <1>4

\* The steps of a phase are those of its rank.
LEMMA StepsOfPhase ==
    ASSUME TypeOK, NEW p \in 1 .. 3
    PROVE  StepsOf(Phases[p]) = {i \in DOMAIN config : Rank(i) = p}
<1>1. DOMAIN Phases = 1 .. 3 /\ Phases[1] = "pre" /\ Phases[2] = "exec" /\ Phases[3] = "post"
  BY DEF Phases
<1>2. ASSUME NEW i \in DOMAIN config PROVE config[i].type = Phases[p] <=> Rank(i) = p
  <2>1. config[i].type \in {"pre", "exec", "post"}
    BY StepTypes
  <2>2. \E q \in DOMAIN Phases : Phases[q] = config[i].type
    BY <1>1, <2>1
  <2>3. Rank(i) \in DOMAIN Phases /\ Phases[Rank(i)] = config[i].type
    BY <2>2 DEF Rank
  <2>4. QED
    BY <1>1, <2>3
<1>3. QED
  BY <1>2 DEF StepsOf

LEMMA KnownTypes ==
    ASSUME TypeOK
    PROVE  \A r \in Known : r.step \in DOMAIN config /\ r.passed \in BOOLEAN
<1> DEFINE R == [step : DOMAIN config, passed : BOOLEAN, attempt : Nat]
<1>1. results \in Seq(R)
  BY DEF TypeOK
<1> HIDE DEF R
<1>2. \A k \in DOMAIN results : results[k] \in R
  BY <1>1, ElementOfSeq, LenProperties
<1>3. QED
  BY <1>2 DEF Known, R

LEMMA Positions == ASSUME TypeOK PROVE DOMAIN config \subseteq Nat
<1>1. config \in Seq(Steps)
  BY DEF TypeOK
<1>2. DOMAIN config = 1 .. Len(config) /\ Len(config) \in Nat
  BY <1>1, LenProperties
<1>3. QED
  BY <1>2

LEMMA BeforeIsOrder ==
    ASSUME TypeOK, NEW i \in DOMAIN config, NEW j \in DOMAIN config
    PROVE  ~ (Before(i, j) /\ Before(j, i)) /\ ~ Before(i, i)
BY RankOf, Positions DEF Before

\* Nothing that is past comes after anything that is not.
LEMMA PastFirst ==
    ASSUME TypeOK, InOrder, NEW i \in DOMAIN config, NEW j \in DOMAIN config,
           Past(i), ~ Past(j)
    PROVE  Before(i, j)
<1>1. Rank(i) \in Int /\ Rank(j) \in Int /\ phase \in Int
  BY RankOf, PhaseCount DEF TypeOK
<1>2. CASE Rank(i) < phase
  BY <1>1, <1>2 DEF Past, Before
<1>3. CASE Rank(i) = phase /\ i \notin todo
  BY <1>1, <1>3 DEF Past, Before, InOrder
<1>4. QED
  BY <1>2, <1>3 DEF Past

\* Of a step that is still ahead nothing is known, and all that is known comes
\* before it.
LEMMA AllPrior ==
    ASSUME TypeOK, InOrder, NEW i \in DOMAIN config, ~ Past(i)
    PROVE  Prior(i) = Known /\ ~ Ran(i)
<1>1. ASSUME NEW r \in Known PROVE Before(r.step, i) /\ r.step # i
  <2>1. r.step \in DOMAIN config /\ Past(r.step)
    BY KnownTypes DEF InOrder
  <2>2. QED
    BY <2>1, PastFirst
<1>2. QED
  BY <1>1 DEF Prior, Ran

LEMMA PlanDepends ==
    ASSUME Plan, UNCHANGED <<config, phase, todo, results, jobFailed>>
    PROVE  Plan'
<1>1. Known' = Known
  BY DEF Known
<1>2. InOrder'
  BY <1>1 DEF Plan, InOrder, Past, Before, Rank
<1>3. FailureKnown'
  BY <1>1 DEF Plan, FailureKnown, Broken
<1>4. \A i : Past(i)' = Past(i) /\ Ran(i)' = Ran(i) /\ Prior(i)' = Prior(i)
  BY <1>1 DEF Past, Ran, Prior, Before, Rank
<1>5. \A i : Planned(i)' = Planned(i)
  BY <1>4 DEF Planned, Broken, Holds
<1>6. Decided'
  BY <1>4, <1>5 DEF Plan, Decided
<1>7. QED
  BY <1>2, <1>3, <1>6 DEF Plan

LEMMA PlanInitially == ASSUME Init, TypeOK PROVE PlanInv
<1> USE DEF Init
<1>1. \A i \in DOMAIN config : ~ Past(i)
  BY RankOf DEF Past
<1>2. Known = {}
  BY DEF Known
<1>3. InOrder /\ FailureKnown
  BY <1>2 DEF InOrder, FailureKnown, Broken
<1>4. Decided /\ AtStep /\ AtEnd
  BY <1>1 DEF Decided, AtStep, AtEnd
<1>5. QED
  BY <1>3, <1>4 DEF PlanInv, Plan

\* Leaving a phase: the steps of the next one are ahead, or all past when none of
\* them may run.
LEMMA PlanNextPhase == ASSUME TypeOK, TypeOK', PlanInv, NextPhase PROVE PlanInv'
<1>1. CASE phase' = phase
  <2>1. pc' = "cleaning" /\ phase = 3 /\ UNCHANGED <<config, phase, todo, results, jobFailed>> /\ todo = {}
    BY <1>1, PhaseCount DEF NextPhase, TypeOK
  <2>2. QED
    BY <2>1, PlanDepends DEF PlanInv, AtStep, AtEnd
<1>2. CASE phase' = phase + 1
  <2> USE <1>2
  <2>1. /\ phase \in 0 .. 2 /\ phase' \in 1 .. 3 /\ todo = {}
        /\ UNCHANGED <<pc, config, results, jobFailed>> /\ pc = "selecting"
        /\ todo' = IF jobFailed /\ Phases[phase'] # "post" THEN {} ELSE StepsOf(Phases[phase'])
    BY PhaseCount DEF NextPhase, TypeOK
  <2>2. Phases[phase'] = "post" <=> phase' = 3
    BY <2>1 DEF Phases
  <2>3. StepsOf(Phases[phase']) = {i \in DOMAIN config : Rank(i) = phase'}
    BY <2>1, StepsOfPhase
  <2>4. /\ \A i \in DOMAIN config : Rank(i)' = Rank(i)
        /\ \A i, j \in DOMAIN config : Before(i, j)' = Before(i, j)
        /\ Known' = Known
        /\ \A i \in DOMAIN config : Ran(i)' = Ran(i) /\ Planned(i)' = Planned(i)
        /\ Broken(Known)' = Broken(Known)
    BY <2>1 DEF Rank, Before, Known, Ran, Planned, Prior, Broken, Holds
  <2>5. \A i \in DOMAIN config : Past(i) <=> Rank(i) < phase'
    BY <2>1, RankOf DEF Past
  <2>6. \A i \in DOMAIN config : Past(i) => Past(i)'
    BY <2>4, <2>5 DEF Past
  <2>7. InOrder'
    <3>1. \A i \in todo' : Rank(i)' = phase'
      BY <2>1, <2>3, <2>4
    <3>2. \A i \in todo', j \in DOMAIN config : Rank(j)' = phase' /\ j \notin todo' => j < i
      BY <2>1, <2>3, <2>4
    <3>3. \A r \in Known' : Past(r.step)'
      BY <2>4, <2>6, KnownTypes DEF PlanInv, Plan, InOrder
    <3>4. \A k, l \in DOMAIN results : results[k].step \in DOMAIN config /\ results[l].step \in DOMAIN config
      BY KnownTypes DEF Known
    <3>5. \A k, l \in DOMAIN results' : k < l => Before(results[k].step, results[l].step)'
      BY <2>1, <2>4, <3>4 DEF PlanInv, Plan, InOrder
    <3>6. QED
      BY <2>1, <3>1, <3>2, <3>3, <3>5 DEF InOrder
  <2>8. FailureKnown'
    BY <2>1, <2>2, <2>4 DEF FailureKnown, PlanInv, Plan
  <2>9. Decided'
    <3> SUFFICES ASSUME NEW i \in DOMAIN config, Past(i)'
                 PROVE  Ran(i) <=> Planned(i)
      BY <2>1, <2>4 DEF Decided
    <3>1. CASE Past(i)
      BY <3>1 DEF PlanInv, Plan, Decided
    <3>2. CASE ~ Past(i)
      <4>1. Rank(i) = phase' /\ i \notin todo'
        BY <2>1, <2>4, <2>5, <3>2, RankOf DEF Past
      <4>2. jobFailed /\ phase' # 3
        BY <2>1, <2>2, <2>3, <4>1
      <4>3. config[i].type # "post"
        BY <4>1, <4>2, RankOf
      <4>4. Prior(i) = Known /\ ~ Ran(i)
        BY <3>2, AllPrior DEF PlanInv, Plan
      <4>5. Broken(Prior(i))
        BY <4>2, <4>4 DEF PlanInv, Plan, FailureKnown
      <4>6. QED
        BY <4>3, <4>4, <4>5 DEF Planned
    <3>3. QED
      BY <3>1, <3>2
  <2>10. QED
    BY <2>1, <2>7, <2>8, <2>9 DEF PlanInv, Plan, AtStep, AtEnd
<1>3. QED
  BY <1>1, <1>2 DEF NextPhase

\* The step in progress is the first of those ahead.
LEMMA CurrentAhead ==
    ASSUME TypeOK, PlanInv, todo # {}
    PROVE  /\ Current \in todo /\ Current \in DOMAIN config
           /\ Rank(Current) = phase
           /\ \A i \in todo : Current <= i
           /\ ~ Past(Current)
           /\ Prior(Current) = Known /\ ~ Ran(Current)
           /\ phase # 3 => ~ jobFailed
<1>1. DOMAIN config \subseteq Nat /\ todo \in SUBSET Nat
  BY Positions DEF TypeOK
<1>2. \E i \in todo : \A k \in todo : i <= k
  BY <1>1, LeastOf
<1>3. Current \in todo /\ \A i \in todo : Current <= i
  BY <1>2 DEF Current
<1>4. Current \in DOMAIN config /\ Rank(Current) = phase /\ phase \in 0 .. 3
  BY <1>3, PhaseCount DEF TypeOK, PlanInv, Plan, InOrder
<1>5. ~ Past(Current)
  BY <1>3, <1>4 DEF Past
<1>6. Prior(Current) = Known /\ ~ Ran(Current)
  BY <1>4, <1>5, AllPrior DEF PlanInv, Plan
<1>7. phase # 3 => ~ jobFailed
  BY <1>4 DEF PlanInv, Plan, FailureKnown
<1>8. QED
  BY <1>3, <1>4, <1>5, <1>6, <1>7

\* A step that is not due is one that the plan leaves out, and the other way round.
LEMMA DueIsPlanned ==
    ASSUME TypeOK, PlanInv, todo # {}
    PROVE  Due(config[Current]) <=> Planned(Current)
<1> DEFINE step == config[Current]
<1>1. /\ Current \in DOMAIN config /\ Prior(Current) = Known
      /\ phase # 3 => ~ jobFailed
      /\ Rank(Current) = phase
  BY CurrentAhead
<1>2. step.when \in {"always", "on_success", "on_failure"}
  BY StepType DEF Steps
<1>3. jobFailed \in BOOLEAN /\ (jobFailed <=> Broken(Known))
  BY DEF TypeOK, PlanInv, Plan, FailureKnown
<1>4. step.type # "post" => ~ jobFailed
  BY <1>1, RankOf
<1> HIDE DEF step
<1>5. Due(step) <=> Holds(step.cond, Known) /\ ShouldRunWhen(step.when, jobFailed)
  BY DEF Due
<1>6. Planned(Current) <=> /\ Holds(step.cond, Known)
                           /\ step.when = "on_success" => ~ jobFailed
                           /\ step.when = "on_failure" => jobFailed
                           /\ step.type # "post" => ~ jobFailed
  BY <1>1, <1>3 DEF Planned, step
<1>7. QED
  BY <1>2, <1>4, <1>5, <1>6 DEF ShouldRunWhen, step

LEMMA PlanSkip == ASSUME TypeOK, TypeOK', PlanInv, SkipStep PROVE PlanInv'
<1>1. /\ pc = "selecting" /\ todo # {} /\ ~ Due(config[Current])
      /\ todo' = todo \ {Current}
      /\ UNCHANGED <<pc, config, phase, results, jobFailed>>
  BY DEF SkipStep
<1>2. /\ \A i \in DOMAIN config : Rank(i)' = Rank(i)
      /\ \A i, j \in DOMAIN config : Before(i, j)' = Before(i, j)
      /\ Known' = Known
      /\ \A i \in DOMAIN config : Ran(i)' = Ran(i) /\ Planned(i)' = Planned(i)
      /\ Broken(Known)' = Broken(Known)
  BY <1>1 DEF Rank, Before, Known, Ran, Planned, Prior, Broken, Holds
<1>3. /\ Current \in todo /\ Current \in DOMAIN config /\ Rank(Current) = phase
      /\ \A i \in todo : Current <= i
      /\ ~ Ran(Current)
  BY <1>1, CurrentAhead
<1>4. \A i \in DOMAIN config : Past(i)' <=> (Past(i) \/ i = Current)
  BY <1>1, <1>2, <1>3 DEF Past
<1>5. InOrder'
  <2>1. \A i \in todo' : Rank(i)' = phase'
    BY <1>1, <1>2 DEF TypeOK, PlanInv, Plan, InOrder
  <2>2. \A i \in todo', j \in DOMAIN config : Rank(j)' = phase' /\ j \notin todo' => j < i
    BY <1>1, <1>2, <1>3, Positions DEF TypeOK, PlanInv, Plan, InOrder
  <2>3. \A r \in Known' : Past(r.step)'
    BY <1>2, <1>4, KnownTypes DEF PlanInv, Plan, InOrder
  <2>4. \A k, l \in DOMAIN results : results[k].step \in DOMAIN config /\ results[l].step \in DOMAIN config
    BY KnownTypes DEF Known
  <2>5. \A k, l \in DOMAIN results' : k < l => Before(results[k].step, results[l].step)'
    BY <1>1, <1>2, <2>4 DEF PlanInv, Plan, InOrder
  <2>6. QED
    BY <1>1, <2>1, <2>2, <2>3, <2>5 DEF InOrder
<1>6. FailureKnown'
  BY <1>1, <1>2 DEF FailureKnown, PlanInv, Plan
<1>7. Decided'
  <2> SUFFICES ASSUME NEW i \in DOMAIN config, Past(i)'
               PROVE  Ran(i) <=> Planned(i)
    BY <1>1, <1>2 DEF Decided
  <2>1. CASE Past(i)
    BY <2>1 DEF PlanInv, Plan, Decided
  <2>2. CASE i = Current
    BY <1>1, <1>3, <2>2, DueIsPlanned
  <2>3. QED
    BY <1>4, <2>1, <2>2
<1>8. QED
  BY <1>1, <1>5, <1>6, <1>7 DEF PlanInv, Plan, AtStep, AtEnd

\* A result: of the steps that are past now, only the current one was not before,
\* or the phase is over for the steps that were ahead.
LEMMA PlanResult ==
    ASSUME TypeOK, TypeOK', PlanInv, pc = "attempting", todo # {},
           NEW passed \in BOOLEAN,
           results' = Append(results, Result(passed)),
           jobFailed' = (jobFailed \/ (~ passed /\ ~ config[Current].tolerant)),
           todo' = IF ~ passed /\ ~ config[Current].tolerant /\ config[Current].type # "post"
                   THEN {} ELSE todo \ {Current},
           pc' = "selecting",
           UNCHANGED <<config, phase>>
    PROVE  PlanInv'
<1> DEFINE step == config[Current]
           new == Result(passed)
           fatal == ~ passed /\ ~ step.tolerant
<1>1. /\ Current \in todo /\ Current \in DOMAIN config /\ Rank(Current) = phase
      /\ \A i \in todo : Current <= i
      /\ ~ Past(Current) /\ Prior(Current) = Known /\ ~ Ran(Current)
      /\ phase # 3 => ~ jobFailed
  BY CurrentAhead
<1>2. /\ \A i \in DOMAIN config : Rank(i)' = Rank(i)
      /\ \A i, j \in DOMAIN config : Before(i, j)' = Before(i, j)
  BY DEF Rank, Before
<1>3. new.step = Current /\ new.passed = passed
  BY DEF Result
<1>4. /\ Len(results) \in Nat /\ DOMAIN results = 1 .. Len(results)
      /\ DOMAIN results' = 1 .. Len(results) + 1
      /\ \A k \in DOMAIN results : results'[k] = results[k]
      /\ results'[Len(results) + 1] = new
  <2> DEFINE R == [step : DOMAIN config, passed : BOOLEAN, attempt : Nat]
  <2>1. results \in Seq(R) /\ new \in R /\ results' = Append(results, new)
    BY <1>1 DEF TypeOK, Result
  <2> HIDE DEF new, R
  <2>2. QED
    BY <2>1, LenProperties, AppendProperties
<1>5. Known' = Known \cup {new}
  BY <1>4 DEF Known
<1>6. \A r \in Known : r.step \in DOMAIN config /\ Past(r.step) /\ r.step # Current
  BY <1>1, KnownTypes DEF PlanInv, Plan, InOrder
<1> HIDE DEF new
<1>7. step.tolerant \in BOOLEAN /\ (step.type = "post" <=> phase = 3) /\ phase \in 1 .. 3
  BY <1>1, StepType, RankOf
<1>8. \A i \in DOMAIN config :
         Past(i)' <=> \/ Past(i) \/ i = Current
                      \/ fatal /\ phase # 3 /\ i \in todo
  BY <1>1, <1>2, <1>7 DEF Past, PlanInv, Plan, InOrder
<1>9. InOrder'
  <2>1. \A i \in todo' : i \in todo /\ i # Current
    OBVIOUS
  <2>2. \A i \in todo' : Rank(i)' = phase'
    BY <1>2, <2>1 DEF TypeOK, PlanInv, Plan, InOrder
  <2>3. \A i \in todo', j \in DOMAIN config : Rank(j)' = phase' /\ j \notin todo' => j < i
    <3> SUFFICES ASSUME NEW i \in todo', NEW j \in DOMAIN config, Rank(j) = phase, j \notin todo'
                 PROVE  j < i
      BY <1>2
    <3>1. i \in Nat /\ j \in Nat /\ i \in todo /\ i # Current /\ (j \notin todo \/ j = Current)
      BY <2>1, Positions DEF TypeOK
    <3>2. QED
      BY <1>1, <3>1 DEF PlanInv, Plan, InOrder
  <2>4. \A r \in Known' : Past(r.step)'
    BY <1>1, <1>3, <1>5, <1>6, <1>8
  <2>5. ASSUME NEW k \in DOMAIN results', NEW l \in DOMAIN results', k < l
        PROVE  Before(results[k].step, results[l].step)'
    <3>1. k \in DOMAIN results /\ results'[k] = results[k] /\ results[k] \in Known
      BY <1>4, <2>5 DEF Known
    <3>2. CASE l \in DOMAIN results
      <4>1. results'[l] = results[l] /\ results[l] \in Known
        BY <1>4, <3>2 DEF Known
      <4>2. Before(results[k].step, results[l].step)
        BY <2>5, <3>1, <3>2 DEF PlanInv, Plan, InOrder
      <4>3. QED
        BY <1>2, <1>6, <3>1, <4>1, <4>2
    <3>3. CASE l = Len(results) + 1
      <4>1. results'[l].step = Current
        BY <1>3, <1>4, <3>3
      <4>2. Before(results[k].step, Current)
        BY <1>1, <1>6, <3>1, PastFirst DEF PlanInv, Plan
      <4>3. QED
        BY <1>1, <1>2, <1>6, <3>1, <4>1, <4>2
    <3>4. QED
      BY <1>4, <3>2, <3>3
  <2>6. QED
    BY <2>2, <2>3, <2>4, <2>5 DEF InOrder
<1>10. Broken(Known') <=> Broken(Known) \/ fatal
  BY <1>3, <1>5 DEF Broken
<1>11. FailureKnown'
  <2>1. Broken(Known)' <=> Broken(Known')
    BY DEF Broken
  <2>2. jobFailed' <=> Broken(Known)'
    BY <1>10, <2>1 DEF PlanInv, Plan, FailureKnown, TypeOK
  <2>3. jobFailed' /\ phase' < 3 => todo' = {}
    BY <1>1, <1>7 DEF TypeOK
  <2>4. QED
    BY <2>2, <2>3 DEF FailureKnown
<1>12. Decided'
  <2> SUFFICES ASSUME NEW i \in DOMAIN config, Past(i)'
               PROVE  Ran(i)' <=> Planned(i)'
    BY DEF Decided
  <2>1. /\ Ran(i)' <=> Ran(i) \/ i = Current
        /\ Prior(i)' = Prior(i) \cup (IF Before(Current, i) THEN {new} ELSE {})
    BY <1>1, <1>2, <1>3, <1>5, <1>6 DEF Ran, Prior
  <2>2. Planned(i)' <=> /\ Holds(config[i].cond, Prior(i)')
                        /\ config[i].when = "on_success" => ~ Broken(Prior(i)')
                        /\ config[i].when = "on_failure" => Broken(Prior(i)')
                        /\ config[i].type # "post" => ~ Broken(Prior(i)')
    BY DEF Planned, Broken, Holds
  <2>3. CASE Past(i) \/ i = Current
    <3>1. ~ Before(Current, i)
      BY <1>1, <2>3, PastFirst, BeforeIsOrder DEF PlanInv, Plan
    <3>2. Prior(i)' = Prior(i)
      BY <2>1, <3>1
    <3>3. Planned(i)' <=> Planned(i)
      BY <2>2, <3>2 DEF Planned
    <3>4. CASE i = Current
      BY <2>1, <3>3, <3>4, DueIsPlanned DEF PlanInv, AtStep
    <3>5. CASE i # Current
      BY <2>1, <2>3, <3>3, <3>5 DEF PlanInv, Plan, Decided
    <3>6. QED
      BY <3>4, <3>5
  <2>4. CASE ~ Past(i) /\ i # Current
    <3>1. fatal /\ phase # 3 /\ i \in todo
      BY <1>8, <2>4
    <3>2. ~ Ran(i)'
      BY <2>1, <2>4, AllPrior DEF PlanInv, Plan
    <3>3. Rank(i) = Rank(Current) /\ Current < i
      <4>1. i \in Nat /\ Current \in Nat
        BY <1>1, Positions
      <4>2. QED
        BY <1>1, <2>4, <3>1, <4>1 DEF PlanInv, Plan, InOrder
    <3>4. new \in Prior(i)'
      BY <2>1, <3>3 DEF Before
    <3>5. Broken(Prior(i)')
      BY <1>3, <3>1, <3>4 DEF Broken
    <3>6. config[i].type # "post"
      BY <1>1, <3>1, <3>3, RankOf
    <3>7. QED
      BY <2>2, <3>2, <3>5, <3>6
  <2>5. QED
    BY <2>3, <2>4
<1>13. QED
  BY <1>9, <1>11, <1>12 DEF PlanInv, Plan, AtStep, AtEnd

\* A step that leaves steps and results alone keeps the plan.
LEMMA PlanKept ==
    ASSUME PlanInv, UNCHANGED <<config, phase, todo, results, jobFailed>>,
           pc' = "attempting" => Due(config[Current]),
           pc' = "success" => ~ AnyFailed,
           pc' \in {"cleaning", "success", "failed"} => phase = 3 /\ todo = {}
    PROVE  PlanInv'
<1>1. Plan'
  BY PlanDepends DEF PlanInv
<1>2. Current' = Current /\ Known' = Known
  BY DEF Current, Known
<1>3. AnyFailed' = AnyFailed /\ Due(config[Current])' = Due(config[Current])
  BY <1>2 DEF AnyFailed, Due, Holds
<1>4. QED
  BY <1>1, <1>3 DEF PlanInv, AtStep, AtEnd

LEMMA PlanNext == ASSUME Inv, Inv', PlanInv, [Next]_vars PROVE PlanInv'
<1>1. CASE SetupStep \/ Abort
  <2>1. /\ pc' \notin {"attempting", "cleaning", "success", "failed"}
        /\ UNCHANGED <<config, phase, todo, results, jobFailed>>
    BY <1>1 DEF SetupStep, VerifyWorkspace, PullImage, RemoveExisting, Create, ClearConflict,
                StartContainer, Abort, jobVars
  <2>2. QED
    BY <2>1, PlanKept
<1>2. CASE NextPhase
  BY <1>2, PlanNextPhase DEF Inv
<1>3. CASE SkipStep
  BY <1>3, PlanSkip DEF Inv
<1>4. CASE BeginStep
  <2>1. /\ Due(config[Current]) /\ pc' \in {"panicked", "attempting"}
        /\ UNCHANGED <<config, phase, todo, results, jobFailed>>
    BY <1>4 DEF BeginStep
  <2>2. QED
    BY <2>1, PlanKept
<1>5. CASE AttemptEnds
  <2>1. pc = "attempting" /\ todo # {} /\ Due(config[Current])
    BY <1>5 DEF AttemptEnds, StepPasses, StepFails, StepErrors, Inv, AttemptInBudget, PlanInv, AtStep
  <2>2. jobFailed \in BOOLEAN /\ config[Current].tolerant \in BOOLEAN
    BY <2>1, StepType DEF Inv, TypeOK
  <2>3. CASE pc' \in {"attempting", "error"} /\ UNCHANGED <<config, phase, todo, results, jobFailed>>
    BY <2>1, <2>3, PlanKept
  <2>4. CASE StepPasses
    BY <2>1, <2>2, <2>4, PlanResult DEF StepPasses, Inv
  <2>5. CASE /\ UNCHANGED <<config, phase>> /\ pc' = "selecting"
             /\ results' = Append(results, Result(FALSE))
             /\ jobFailed' = (jobFailed \/ ~ config[Current].tolerant)
             /\ todo' = IF ~ config[Current].tolerant /\ config[Current].type # "post"
                        THEN {} ELSE todo \ {Current}
    BY <2>1, <2>2, <2>5, PlanResult DEF Inv
  <2>6. QED
    BY <1>5, <2>1, <2>3, <2>4, <2>5 DEF AttemptEnds, StepFails, StepErrors
<1>6. CASE Cleanup
  <2>1. /\ pc = "cleaning" /\ pc' = (IF AnyFailed THEN "failed" ELSE "success")
        /\ UNCHANGED <<config, phase, todo, results, jobFailed>>
    BY <1>6 DEF Cleanup, jobVars
  <2>2. QED
    BY <2>1, PlanKept DEF PlanInv, AtEnd
<1>7. CASE Returned \/ UNCHANGED vars
  <2>1. UNCHANGED <<pc, config, phase, todo, results, jobFailed>>
    BY <1>7 DEF Returned, vars, jobVars
  <2>2. QED
    BY <2>1, PlanKept DEF PlanInv, AtStep, AtEnd
<1>8. QED
  BY <1>1, <1>2, <1>3, <1>4, <1>5, <1>6, <1>7 DEF Next, Choose

LEMMA PlanHolds == Spec => [](Inv /\ PlanInv)
<1>1. Init => Inv /\ PlanInv
  BY InitInv, PlanInitially DEF Inv
<1>2. Inv /\ PlanInv /\ [Next]_vars => (Inv /\ PlanInv)'
  BY NextInv, PlanNext
<1>3. QED
  BY <1>1, <1>2, PTL DEF Spec

LEMMA PlanIsEnough == ASSUME Inv, PlanInv PROVE PlanFollowed
<1> SUFFICES ASSUME pc \in {"cleaning", "success", "failed"}
             PROVE  /\ \A k \in 1 .. Len(results) - 1 : Before(results[k].step, results[k + 1].step)
                    /\ \A i \in DOMAIN config : Ran(i) <=> Planned(i)
                    /\ pc = "success" => \A i \in DOMAIN config :
                          config[i].cond.op = "none" /\ config[i].when # "on_failure" =>
                              \E r \in Known : r.step = i /\ r.passed
  BY DEF PlanFollowed
<1>1. phase = 3 /\ todo = {}
  BY DEF PlanInv, AtEnd
<1>2. \A i \in DOMAIN config : Past(i)
  BY <1>1, RankOf DEF Past, Inv
<1>3. \A i \in DOMAIN config : Ran(i) <=> Planned(i)
  BY <1>2 DEF PlanInv, Plan, Decided
<1>4. DOMAIN results = 1 .. Len(results) /\ Len(results) \in Nat
  BY LenProperties DEF Inv, TypeOK
<1>5. \A k \in 1 .. Len(results) - 1 : Before(results[k].step, results[k + 1].step)
  BY <1>4 DEF PlanInv, Plan, InOrder
<1>6. ASSUME pc = "success", NEW i \in DOMAIN config,
             config[i].cond.op = "none", config[i].when # "on_failure"
      PROVE  \E r \in Known : r.step = i /\ r.passed
  <2>1. \A r \in Known : r.passed
    BY <1>6 DEF PlanInv, AtEnd, AnyFailed
  <2>2. ~ Broken(Prior(i))
    BY <2>1 DEF Broken, Prior
  <2>3. Planned(i)
    BY <1>6, <2>2 DEF Planned, Holds
  <2>4. QED
    BY <1>3, <2>1, <2>3 DEF Ran
<1>7. QED
  BY <1>3, <1>5, <1>6

-----------------------------------------------------------------------------
(* The theorems                                                            *)

\* The variables keep their types, for every set of configurations.
THEOREM TypeCorrect == Spec => []TypeOK
<1>1. Inv => TypeOK
  BY DEF Inv
<1>2. QED
  BY <1>1, InvHolds, PTL

\* No step ever runs in a container that an earlier run of the job left behind,
\* whichever calls of the daemon fail on the way there.
THEOREM WorksInOwnContainer == Spec => []OwnContainer
<1>1. Inv => OwnContainer
  BY DEF Inv
<1>2. QED
  BY <1>1, InvHolds, PTL

\* A step that failed for good has used all its attempts, and none has more.
THEOREM AttemptsAreUsedUp == Spec => []AttemptsUsedUp
<1>1. Inv => AttemptsUsedUp
  BY DEF Inv
<1>2. QED
  BY <1>1, InvHolds, PTL

\* Whatever the configuration and whatever fails, a pipeline that came to its end
\* has run exactly the steps it should have, in the order of the phases, and
\* is a success only if each of them passed.
THEOREM PlanIsFollowed == Spec => []PlanFollowed
<1>1. Inv /\ PlanInv => PlanFollowed
  BY PlanIsEnough
<1>2. QED
  BY <1>1, PlanHolds, PTL

=============================================================================
