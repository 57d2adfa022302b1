---------------------------- MODULE JobExecutor ----------------------------
(***************************************************************************)
(* services/executor.rs: JobExecutor::execute for one job, with the        *)
(* conditions and attempts of utils/step_evaluator.rs.                     *)
(*                                                                         *)
(* A step of this module is what runs between two awaits: a call of the    *)
(* Docker daemon, or one attempt of one step of the pipeline.  The daemon  *)
(* keeps one container per job, under the name ci-job-<job_id>; one of an  *)
(* earlier run of the same id may still be there.                          *)
(***************************************************************************)
EXTENDS Integers, Sequences

CONSTANTS
    Configs,   \* the step lists, in file order, a runner.yaml may give
    Flaky      \* the calls of the Docker daemon that may fail

Calls == {"files", "pull", "inspect", "create", "start", "exec", "stop", "remove"}

Phases == <<"pre", "exec", "post">>

\* An if condition: left == right or left != right.  A subject is a fact of the
\* job (ref name, variable, literal), the result of a step, or an expression
\* that the evaluator does not know.
Conditions == [op : {"none", "eq", "ne"}, subject : {"job", "step", "unknown"},
               of : Nat, wants : BOOLEAN]

Steps == [type : {"pre", "exec", "post"}, attempts : Nat, tolerant : BOOLEAN,
          when : {"always", "on_success", "on_failure"}, cond : Conditions]

ASSUME ConfigsAssumption == Configs \subseteq Seq(Steps) /\ Flaky \subseteq Calls

VARIABLES
    pc,        \* the call in progress, or how execute() ended
    config,    \* job.config.steps
    phase,     \* index of the phase in progress, 0 before the first
    todo,      \* the steps of this phase that are still to be looked at, the
               \* one in progress included
    attempt,   \* number of the attempt in progress
    results,   \* the results so far, with the attempt each one is from
    jobFailed, \* job_failed
    container  \* the container of the job's name

jobVars == <<phase, todo, attempt, results, jobFailed>>
vars == <<pc, config, jobVars, container>>

Setup == {"verifying", "pulling", "removing", "creating", "clearing", "recreating", "starting"}
Live == Setup \cup {"selecting", "attempting", "cleaning"}
Ended == {"success", "failed", "error", "panicked", "aborted"}

Init ==
    /\ pc = "verifying"
    /\ config \in Configs
    /\ phase = 0
    /\ todo = {}
    /\ attempt = 0
    /\ results = << >>
    /\ jobFailed = FALSE
    /\ container \in {"absent", "stale"}

-----------------------------------------------------------------------------
(* The container                                                           *)

Answers(call) == IF call \in Flaky THEN {"ok", "failed"} ELSE {"ok"}

\* Faulty variant: a container that was stopped is not removed.
StopOnly ==
    \E stop \in Answers("stop") :
        container' = IF stop = "ok" THEN "stopped" ELSE container

\* stop_container and remove_container, errors ignored: a container that could
\* not be stopped cannot be removed either.
StopAndRemove ==
    \E stop \in Answers("stop"), remove \in Answers("remove") :
        container' = IF stop = "ok" /\ remove = "ok" THEN "absent" ELSE container

VerifyWorkspace ==
    /\ pc = "verifying"
    /\ \E files \in Answers("files") : pc' = IF files = "ok" THEN "pulling" ELSE "error"
    /\ UNCHANGED <<config, jobVars, container>>

PullImage ==
    /\ pc = "pulling"
    /\ \E pull \in Answers("pull") : pc' = IF pull = "ok" THEN "removing" ELSE "error"
    /\ UNCHANGED <<config, jobVars, container>>

\* A container that is found is removed; nothing here is an error.
RemoveExisting ==
    /\ pc = "removing"
    /\ pc' = "creating"
    /\ \E inspect \in Answers("inspect") :
          IF inspect = "ok" /\ container # "absent" THEN StopAndRemove ELSE UNCHANGED container
    /\ UNCHANGED <<config, jobVars>>

\* Faulty variant: a name conflict counts as a container to work in.
CreateAdopts ==
    /\ pc \in {"creating", "recreating"}
    /\ \/ pc' = "starting" /\ container' = IF container = "absent" THEN "created" ELSE container
       \/ "create" \in Flaky /\ pc' = "error" /\ UNCHANGED container
    /\ UNCHANGED <<config, jobVars>>

\* create_container, the first time or after the conflict was cleared.
Create ==
    /\ pc \in {"creating", "recreating"}
    /\ \/ /\ container = "absent"
          /\ pc' = "starting"
          /\ container' = "created"
       \/ /\ container # "absent"
          /\ pc' = IF pc = "creating" THEN "clearing" ELSE "error"
          /\ UNCHANGED container
       \/ /\ "create" \in Flaky
          /\ pc' = "error"
          /\ UNCHANGED container
    /\ UNCHANGED <<config, jobVars>>

\* The name is in use: clear it and try once more.
ClearConflict ==
    /\ pc = "clearing"
    /\ \/ "inspect" \in Flaky /\ pc' = "error" /\ UNCHANGED container
       \/ pc' = "recreating" /\ StopAndRemove
    /\ UNCHANGED <<config, jobVars>>

\* Starting a container does not make it ours.
Started == IF container = "stale" THEN "stale" ELSE "running"

\* Only a denied mount makes a failed start remove the container.
StartContainer ==
    /\ pc = "starting"
    /\ \/ pc' = "selecting" /\ container' = Started
       \/ "start" \in Flaky /\ pc' = "error" /\ UNCHANGED container
       \/ /\ "start" \in Flaky
          /\ pc' = "error"
          /\ \E remove \in Answers("remove") :
                container' = IF remove = "ok" THEN "absent" ELSE container
    /\ UNCHANGED <<config, jobVars>>

-----------------------------------------------------------------------------
(* The pipeline                                                            *)

\* get_steps_by_type: positions of the steps of a type.  They are looked at in
\* file order.
StepsOf(type) == {i \in DOMAIN config : config[i].type = type}

Current == CHOOSE i \in todo : \A k \in todo : i <= k

\* The results as the conditions and the status of the job read them.
Known == {results[k] : k \in DOMAIN results}

\* evaluate_if_condition: a step without a result equals nothing, and != is the
\* negation of ==, of an unknown expression too.
Holds(cond, prior) ==
    LET equal ==
            \/ cond.subject = "job" /\ cond.wants
            \/ /\ cond.subject = "step"
               /\ \E r \in prior : r.step = cond.of /\ r.passed = cond.wants
    IN  \/ cond.op = "none"
        \/ cond.op = "eq" /\ equal
        \/ cond.op = "ne" /\ ~ equal

\* should_run_when
ShouldRunWhen(when, failedBefore) ==
    \/ when = "always"
    \/ when = "on_success" /\ ~ failedBefore
    \/ when = "on_failure" /\ failedBefore

\* Faulty variant: a failed job skips its post steps as well.
NextPhaseAllSkipped ==
    /\ pc = "selecting"
    /\ todo = {}
    /\ \/ /\ phase < Len(Phases)
          /\ phase' = phase + 1
          /\ todo' = IF jobFailed THEN {} ELSE StepsOf(Phases[phase + 1])
          /\ UNCHANGED pc
       \/ /\ phase = Len(Phases)
          /\ pc' = "cleaning"
          /\ UNCHANGED <<phase, todo>>
    /\ UNCHANGED <<config, attempt, results, jobFailed, container>>

\* The outer loop: a failed job goes on to its post steps only.
NextPhase ==
    /\ pc = "selecting"
    /\ todo = {}
    /\ \/ /\ phase < Len(Phases)
          /\ phase' = phase + 1
          /\ todo' = IF jobFailed /\ Phases[phase + 1] # "post" THEN {}
                     ELSE StepsOf(Phases[phase + 1])
          /\ UNCHANGED pc
       \/ /\ phase = Len(Phases)
          /\ pc' = "cleaning"
          /\ UNCHANGED <<phase, todo>>
    /\ UNCHANGED <<config, attempt, results, jobFailed, container>>

Due(step) == Holds(step.cond, Known) /\ ShouldRunWhen(step.when, jobFailed)

SkipStep ==
    /\ pc = "selecting"
    /\ todo # {}
    /\ ~ Due(config[Current])
    /\ todo' = todo \ {Current}
    /\ UNCHANGED <<pc, config, phase, attempt, results, jobFailed, container>>

\* A step without attempts has no result to unwrap: the executor panics.
BeginStep ==
    /\ pc = "selecting"
    /\ todo # {}
    /\ Due(config[Current])
    /\ pc' = IF config[Current].attempts = 0 THEN "panicked" ELSE "attempting"
    /\ attempt' = 1
    /\ UNCHANGED <<config, phase, todo, results, jobFailed, container>>

Result(passed) == [step |-> Current, passed |-> passed, attempt |-> attempt]

\* The command exits with 0.
StepPasses ==
    /\ pc = "attempting"
    /\ pc' = "selecting"
    /\ results' = Append(results, Result(TRUE))
    /\ todo' = todo \ {Current}
    /\ UNCHANGED <<config, phase, attempt, jobFailed, container>>

\* Faulty variant: the last attempt of the budget is never made.
StepFailsEarly ==
    LET step == config[Current]
    IN  /\ pc = "attempting"
        /\ \/ /\ attempt + 1 < step.attempts /\ ~ step.tolerant
              /\ attempt' = attempt + 1
              /\ UNCHANGED <<pc, todo, results, jobFailed>>
           \/ /\ attempt + 1 >= step.attempts \/ step.tolerant
              /\ pc' = "selecting"
              /\ results' = Append(results, Result(FALSE))
              /\ jobFailed' = (jobFailed \/ ~ step.tolerant)
              /\ todo' = IF ~ step.tolerant /\ step.type # "post" THEN {} ELSE todo \ {Current}
              /\ UNCHANGED attempt
        /\ UNCHANGED <<config, phase, container>>

\* The command exits with another code: one more attempt, or the result.  A
\* failure that is not tolerated ends the phase, unless it is the last one.
StepFails ==
    LET step == config[Current]
    IN  /\ pc = "attempting"
        /\ \/ /\ attempt < step.attempts /\ ~ step.tolerant
              /\ attempt' = attempt + 1
              /\ UNCHANGED <<pc, todo, results, jobFailed>>
           \/ /\ attempt = step.attempts \/ step.tolerant
              /\ pc' = "selecting"
              /\ results' = Append(results, Result(FALSE))
              /\ jobFailed' = (jobFailed \/ ~ step.tolerant)
              /\ todo' = IF ~ step.tolerant /\ step.type # "post" THEN {} ELSE todo \ {Current}
              /\ UNCHANGED attempt
        /\ UNCHANGED <<config, phase, container>>

\* Faulty variant: an error of the last attempt starts over.
StepErrorsStartOver ==
    /\ pc = "attempting"
    /\ "exec" \in Flaky
    /\ attempt' = IF attempt < config[Current].attempts THEN attempt + 1 ELSE 1
    /\ UNCHANGED <<pc, config, phase, todo, results, jobFailed, container>>

\* The attempt could not be executed or its exit code not be read: one more
\* attempt, or execute() returns the error there and then.
StepErrors ==
    /\ pc = "attempting"
    /\ "exec" \in Flaky
    /\ \/ /\ attempt < config[Current].attempts
          /\ attempt' = attempt + 1
          /\ UNCHANGED pc
       \/ /\ attempt = config[Current].attempts
          /\ pc' = "error"
          /\ UNCHANGED attempt
    /\ UNCHANGED <<config, phase, todo, results, jobFailed, container>>

AnyFailed == \E r \in Known : ~ r.passed

\* cleanup_container, then the status: any failure counts, tolerated or not.
Cleanup ==
    /\ pc = "cleaning"
    /\ StopAndRemove
    /\ pc' = IF AnyFailed THEN "failed" ELSE "success"
    /\ UNCHANGED <<config, jobVars>>

\* The task is aborted at an await: nothing else runs.  The daemon may still
\* complete the call that was in flight.
Abort ==
    /\ pc \in Live \ {"selecting"}
    /\ pc' = "aborted"
    /\ \/ UNCHANGED container
       \/ pc \in {"removing", "clearing", "cleaning"} /\ container' = "absent"
       \/ pc \in {"creating", "recreating"} /\ container = "absent" /\ container' = "created"
       \/ pc = "starting" /\ container' = Started
    /\ UNCHANGED <<config, jobVars>>

-----------------------------------------------------------------------------

SetupStep ==
    \/ VerifyWorkspace
    \/ PullImage
    \/ RemoveExisting
    \/ Create
    \/ ClearConflict
    \/ StartContainer

Choose == NextPhase \/ SkipStep \/ BeginStep

AttemptEnds == StepPasses \/ StepFails \/ StepErrors

Returned == pc \in Ended /\ UNCHANGED vars

Next == SetupStep \/ Choose \/ AttemptEnds \/ Cleanup \/ Abort \/ Returned

Spec == Init /\ [][Next]_vars

\* The daemon answers every call within the client's timeout, and the runtime
\* polls the task.  A pull and the output of a command are streams: nothing
\* bounds their length, so an attempt or a pull may hang; one that ends counts.
Fairness ==
    /\ WF_vars(SetupStep /\ pc # "pulling")
    /\ WF_vars(Choose)
    /\ WF_vars(Cleanup)

FairSpec == Spec /\ Fairness

-----------------------------------------------------------------------------
(* Properties                                                              *)

TypeOK ==
    /\ pc \in Live \cup Ended
    /\ config \in Seq(Steps)
    /\ phase \in 0 .. Len(Phases)
    /\ todo \subseteq DOMAIN config
    /\ attempt \in Nat
    /\ results \in Seq([step : DOMAIN config, passed : BOOLEAN, attempt : Nat])
    /\ jobFailed \in BOOLEAN
    /\ container \in {"absent", "stale", "created", "running"}

\* The position of a step in the order of the phases.
Rank(i) == CHOOSE p \in DOMAIN Phases : Phases[p] = config[i].type
Before(i, k) == Rank(i) < Rank(k) \/ (Rank(i) = Rank(k) /\ i < k)

Ran(i) == \E r \in Known : r.step = i
Prior(i) == {r \in Known : Before(r.step, i)}
Broken(prior) == \E r \in prior : ~ r.passed /\ ~ config[r.step].tolerant

\* What the job's configuration asks of a step, given the results before it.
Planned(i) ==
    /\ Holds(config[i].cond, Prior(i))
    /\ config[i].when = "on_success" => ~ Broken(Prior(i))
    /\ config[i].when = "on_failure" => Broken(Prior(i))
    /\ config[i].type # "post" => ~ Broken(Prior(i))

\* When every phase is over, exactly the steps have run, once and in the order
\* of the phases, that should have, given what came before each: no step that
\* is due is lost to a failure or a skip, and after a failure that is not
\* tolerated nothing but post steps runs (executor.rs:163-287).  And a job that is
\* reported successful has run every step it was not told to skip, and each of
\* them passed.
PlanFollowed ==
    pc \in {"cleaning", "success", "failed"} =>
        /\ \A k \in 1 .. Len(results) - 1 : Before(results[k].step, results[k + 1].step)
        /\ \A i \in DOMAIN config : Ran(i) <=> Planned(i)
        /\ pc = "success" => \A i \in DOMAIN config :
              config[i].cond.op = "none" /\ config[i].when # "on_failure" =>
                  \E r \in Known : r.step = i /\ r.passed

\* A result is final for a reason: a step that failed for good has used all its
\* attempts, whatever mix of failures and errors they ended in.
AttemptsUsedUp ==
    \A k \in DOMAIN results :
        LET step == config[results[k].step]
        IN  /\ results[k].attempt <= step.attempts
            /\ ~ results[k].passed /\ ~ step.tolerant => results[k].attempt = step.attempts

\* Steps run in the container this execution created and started, never in one
\* left behind by an earlier run of the same job id.
OwnContainer == pc \in {"selecting", "attempting", "cleaning"} => container = "running"

\* execute() returns if every pull and every attempt comes to an end: retries,
\* phases and the one retry of a name conflict are bounded.
Returns == WF_vars(PullImage) /\ WF_vars(AttemptEnds) => <>(pc \in Ended)

\* "Ensure cleanup" (executor.rs:131): execute() leaves no container behind of
\* those it created.
NothingLeftBehind ==
    pc \in {"success", "failed", "error"} => container \notin {"created", "running"}

=============================================================================
