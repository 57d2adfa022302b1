----------------------------- MODULE JobHandler -----------------------------
(***************************************************************************)
(* The directories of one job id: the handler of main.rs with the cloner   *)
(* (services/cloner.rs), which work in <root>/<id> and <root>/<id>.tmp, and *)
(* the hourly clean-up of utils/workspace.rs, which goes over everything    *)
(* under the root.  The id is run several times, one run after another: a   *)
(* run that failed or was aborted is submitted again.                      *)
(*                                                                         *)
(* A step is one call that is awaited.  Aborting the handler abandons a git *)
(* process and does not stop it; a timeout does the same.  Nor does it stop *)
(* the removal of a directory, which a thread of its own goes on with, file *)
(* by file.                                                                *)
(***************************************************************************)
EXTENDS Integers

CONSTANTS
    Runs,    \* how often the job id is run
    Absent   \* no such directory

\* by: the run that created the directory.  files: the runs its files come from.
\* whole: no removal has taken any of its files.
\* age: "old" if it has not changed for a day, "touched" if it has existed longer
\* than that but has changed.  locked: it holds files that the runner may not
\* remove (containers need not run as its user).
Directories ==
    [by : 1 .. Runs, files : SUBSET (1 .. Runs), whole : BOOLEAN,
     age : {"new", "touched", "old"}, locked : BOOLEAN]

ASSUME HandlerAssumption == Runs \in Nat /\ Absent \notin Directories

VARIABLES
    run,     \* the current run, 0 before the first
    pc,      \* where its handler is
    dir,     \* the two directories
    git,     \* the git clone of each run
    thread,  \* the directory that the abort of each run has left to be removed
    pass     \* the pass of the hourly clean-up

others == <<git, thread, pass>>
vars == <<run, pc, dir, others>>

Names == {"workspace", "temp"}

Fresh(r) == [by |-> r, files |-> {}, whole |-> TRUE, age |-> "new", locked |-> FALSE]

Touched(age) == IF age = "old" THEN "touched" ELSE age

Exists(d) == dir[d] # Absent
Locked(d) == Exists(d) /\ dir[d].locked

Ended == {"idle", "ok", "unclonable", "error", "aborted"}

Init ==
    /\ run = 0
    /\ pc = "idle"
    /\ dir = [d \in Names |-> Absent]
    /\ git = [r \in 1 .. Runs |-> "none"]
    /\ thread = [r \in 1 .. Runs |-> "none"]
    /\ pass = [at |-> "idle", left |-> {}, by |-> 0]

Goto(from, to) == pc = from /\ pc' = to /\ UNCHANGED run

\* remove_dir_all and its like.
Removed(d) == ~Locked(d) /\ dir' = [dir EXCEPT ![d] = Absent]

\* The same, an error being logged and no more.
Attempted(d) == dir' = IF Locked(d) THEN dir ELSE [dir EXCEPT ![d] = Absent]

-----------------------------------------------------------------------------
(* RepositoryCloner::clone                                                 *)

Begin ==
    /\ pc \in Ended /\ pc' = "clearing"
    /\ run < Runs /\ run' = run + 1
    /\ UNCHANGED <<dir, others>>

\* What an earlier run has left.
ClearWorkspace == Goto("clearing", "clearingTemp") /\ Removed("workspace") /\ UNCHANGED others

ClearTemp == Goto("clearingTemp", "spawning") /\ Removed("temp") /\ UNCHANGED others

SpawnGit ==
    /\ Goto("spawning", "cloning")
    /\ git' = [git EXCEPT ![run] = "started"]
    /\ UNCHANGED <<dir, thread, pass>>

\* git refuses a directory that exists.
GitCreates(r) ==
    /\ git[r] = "started"
    /\ IF Exists("temp")
       THEN git' = [git EXCEPT ![r] = "failed"] /\ UNCHANGED dir
       ELSE /\ git' = [git EXCEPT ![r] = "writing"]
            /\ dir' = [dir EXCEPT !["temp"] = Fresh(r)]
    /\ UNCHANGED <<run, pc, thread, pass>>

\* "late": nobody waits for this git any more.
GitWrites(r) ==
    /\ git[r] = "writing"
    /\ Exists("temp")
    /\ git' = [git EXCEPT ![r] = IF r = run /\ pc = "cloning" THEN "done" ELSE "late"]
    /\ dir' = [dir EXCEPT !["temp"].files = @ \cup {r}, !["temp"].age = Touched(@)]
    /\ UNCHANGED <<run, pc, thread, pass>>

\* A git that fails removes the directory it was writing to, even if that was
\* replaced under it.
GitFails(r) ==
    /\ git[r] \in {"started", "writing"}
    /\ git' = [git EXCEPT ![r] = "failed"]
    /\ dir' = IF git[r] = "writing" THEN [dir EXCEPT !["temp"] = Absent] ELSE dir
    /\ UNCHANGED <<run, pc, thread, pass>>

CloneReturns ==
    /\ Goto("cloning", "verifying")
    /\ git[run] = "done"
    /\ UNCHANGED <<dir, others>>

\* .git is there, whoever has written it.
VerifyClone ==
    /\ Goto("verifying", "creating")
    /\ Exists("temp") /\ dir["temp"].files # {}
    /\ UNCHANGED <<dir, others>>

CreateWorkspace ==
    /\ Goto("creating", "moving")
    /\ ~Locked("workspace")
    /\ dir' = [dir EXCEPT !["workspace"] = Fresh(run)]
    /\ UNCHANGED others

\* An error after some of the entries (MoveFails) leaves both directories.
Move ==
    /\ Goto("moving", "removingTemp")
    /\ \A d \in Names : Exists(d)
    /\ dir' = [dir EXCEPT !["workspace"].files = dir["temp"].files, !["temp"].files = {}]
    /\ UNCHANGED others

MoveFails ==
    /\ Goto("moving", "unclonable")
    /\ \A d \in Names : Exists(d)
    /\ dir' = [dir EXCEPT !["workspace"].files = dir["temp"].files]
    /\ UNCHANGED others

\* remove_dir: only if it is empty.
RemoveTemp ==
    /\ Goto("removingTemp", "checkingOut")
    /\ Exists("temp") /\ dir["temp"].files = {}
    /\ Removed("temp")
    /\ UNCHANGED others

\* The git commands in the workspace.  Submodules and LFS may fail, but must not
\* time out.
CheckOut ==
    /\ Goto("checkingOut", "fetching")
    /\ Exists("workspace")
    /\ UNCHANGED <<dir, others>>

FetchMore == Goto("fetching", "validating") /\ UNCHANGED <<dir, others>>

\* Faulty variant: any commit will do.
ValidateNothing ==
    /\ Goto("validating", "parsing")
    /\ Exists("workspace")
    /\ UNCHANGED <<dir, others>>

\* HEAD is the commit of this run; runs of one id need not name one commit.
ValidateCommit ==
    /\ Goto("validating", "parsing")
    /\ Exists("workspace") /\ run \in dir["workspace"].files
    /\ UNCHANGED <<dir, others>>

Cloning ==
    {"clearing", "clearingTemp", "spawning", "cloning", "verifying", "creating", "moving",
     "removingTemp", "checkingOut", "fetching", "validating"}

\* Any of these calls may fail or time out; a git that is waited for goes on.
CloneFails ==
    /\ \E at \in Cloning : Goto(at, "unclonable")
    /\ UNCHANGED <<dir, others>>

-----------------------------------------------------------------------------
(* The rest of the handler                                                 *)

Parse ==
    /\ Goto("parsing", "executing")
    /\ Exists("workspace")
    /\ UNCHANGED <<dir, others>>

\* A step of the job writes into the mounted directory, as whatever user.
StepWrites ==
    /\ pc = "executing" /\ Exists("workspace")
    /\ \E locked \in {dir["workspace"].locked, TRUE} :
          dir' = [dir EXCEPT !["workspace"].age = Touched(@), !["workspace"].locked = locked]
    /\ UNCHANGED <<run, pc, others>>

ExecutorReturns == Goto("executing", "reporting") /\ UNCHANGED <<dir, others>>

\* The parser or the executor returns an error.
HandlerFails ==
    /\ \E at \in {"parsing", "executing"} : Goto(at, "error")
    /\ UNCHANGED <<dir, others>>

\* Artifacts and the completion event: errors are only logged.
Report == Goto("reporting", "cleaning") /\ UNCHANGED <<dir, others>>

\* A directory that cannot be removed is only logged.
CleanUp ==
    /\ Goto("cleaning", "ok")
    /\ Attempted("workspace")
    /\ UNCHANGED others

\* The directory that the handler is removing.
Clearing(d) ==
    \/ pc \in {"clearing", "creating", "cleaning"} /\ d = "workspace"
    \/ pc = "clearingTemp" /\ d = "temp"

\* The job is cancelled, or panics; a removal goes on.
Abort ==
    /\ pc \notin Ended
    /\ pc' = "aborted"
    /\ \/ \E d \in Names : /\ Clearing(d) /\ Exists(d)
                           /\ thread' = [thread EXCEPT ![run] = d]
       \/ /\ \A d \in Names : ~(Clearing(d) /\ Exists(d))
          /\ UNCHANGED thread
    /\ UNCHANGED <<run, dir, git, pass>>

\* The thread is done with what it was left to remove, by its path.
ThreadRemoves(r) ==
    /\ thread[r] \in Names
    /\ thread' = [thread EXCEPT ![r] = "none"]
    /\ Attempted(thread[r])
    /\ UNCHANGED <<run, pc, git, pass>>

\* A removal takes one file after the other, and stops at one it may not take.
RemovalGoesOn(d) ==
    /\ Clearing(d) \/ pass.at = d \/ \E r \in 1 .. Runs : thread[r] = d
    /\ Exists(d) /\ dir[d].files # {}
    /\ \E kept \in SUBSET dir[d].files :
          /\ dir[d].whole \/ kept # dir[d].files
          /\ dir' = [dir EXCEPT ![d].files = kept, ![d].whole = FALSE, ![d].age = Touched(@)]
    /\ UNCHANGED <<run, pc, others>>

-----------------------------------------------------------------------------
(* cleanup_old_workspaces                                                  *)

\* Only the steps of a job take that long.
DayPasses ==
    /\ pc \in Ended \cup {"executing"}
    /\ \E d \in Names : Exists(d) /\ dir[d].age # "old"
    /\ dir' = [d \in Names |-> IF Exists(d) THEN [dir[d] EXCEPT !.age = "old"] ELSE Absent]
    /\ UNCHANGED <<run, pc, others>>

ListEntries ==
    /\ pass.at = "idle"
    /\ \E d \in Names : Exists(d)
    /\ pass' = [pass EXCEPT !.at = "listed", !.left = {d \in Names : Exists(d)}]
    /\ UNCHANGED <<run, pc, dir, git, thread>>

Idle == [at |-> "idle", left |-> {}, by |-> 0]

\* The pass goes on with the other entries or is over.
Continue(left) == pass' = IF left = {} THEN Idle ELSE [at |-> "listed", left |-> left, by |-> 0]

\* Faulty variant: the age is not looked at.
ExamineAny(d) ==
    /\ pass.at = "listed" /\ d \in pass.left
    /\ IF Exists(d) THEN pass' = [at |-> d, left |-> pass.left \ {d}, by |-> dir[d].by]
       ELSE pass' = Idle
    /\ UNCHANGED <<run, pc, dir, git, thread>>

\* Faulty variant: the entry stays on the list.
ExamineAgain(d) ==
    /\ pass.at = "listed" /\ d \in pass.left
    /\ \/ ~Exists(d) /\ pass' = Idle
       \/ Exists(d) /\ pass' = [pass EXCEPT !.at = d, !.by = dir[d].by]
    /\ UNCHANGED <<run, pc, dir, git, thread>>

\* The metadata of an entry; one that is gone by now ends the pass.
Examine(d) ==
    /\ pass.at = "listed" /\ d \in pass.left
    /\ \/ ~Exists(d) /\ pass' = Idle
       \/ Exists(d) /\ dir[d].age # "old" /\ Continue(pass.left \ {d})
       \/ /\ Exists(d) /\ dir[d].age = "old"
          /\ pass' = [at |-> d, left |-> pass.left \ {d}, by |-> dir[d].by]
    /\ UNCHANGED <<run, pc, dir, git, thread>>


\* The removal, by path; an error is only logged.
RemoveOld(d) ==
    /\ pass.at = d
    /\ Continue(pass.left)
    /\ Attempted(d)
    /\ UNCHANGED <<run, pc, git, thread>>

-----------------------------------------------------------------------------

Clone ==
    \/ ClearWorkspace \/ ClearTemp \/ SpawnGit \/ CloneReturns \/ VerifyClone
    \/ CreateWorkspace \/ Move \/ MoveFails \/ RemoveTemp
    \/ CheckOut \/ FetchMore \/ ValidateCommit \/ CloneFails

Handle == Begin \/ Parse \/ StepWrites \/ ExecutorReturns \/ HandlerFails \/ Report \/ CleanUp \/ Abort

GitSteps == \E r \in 1 .. Runs : GitCreates(r) \/ GitWrites(r) \/ GitFails(r)

CleanerSteps == ListEntries \/ \E d \in Names : Examine(d) \/ RemoveOld(d)

RemovalSteps == (\E r \in 1 .. Runs : ThreadRemoves(r)) \/ (\E d \in Names : RemovalGoesOn(d))

Next == Clone \/ Handle \/ GitSteps \/ CleanerSteps \/ RemovalSteps \/ DayPasses

Spec == Init /\ [][Next]_vars

\* Time passes, and the clean-up runs every hour.
FairSpec == Spec /\ WF_vars(DayPasses) /\ WF_vars(CleanerSteps)

-----------------------------------------------------------------------------
(* Properties                                                              *)

TypeOK ==
    /\ run \in 0 .. Runs
    /\ pc \in Ended \cup Cloning \cup {"parsing", "executing", "reporting", "cleaning"}
    /\ dir \in [Names -> Directories \cup {Absent}]
    /\ git \in [1 .. Runs -> {"none", "started", "writing", "done", "late", "failed"}]
    /\ thread \in [1 .. Runs -> Names \cup {"none"}]
    /\ pass \in [at : {"idle", "listed"} \cup Names, left : SUBSET Names, by : 0 .. Runs]
    /\ pass.at \notin pass.left

\* The handler counts on its workspace.
InUse ==
    {"moving", "removingTemp", "checkingOut", "fetching", "validating", "parsing", "executing",
     "reporting"}

\* A workspace in use is removed, or loses its first file, only when it is more than
\* a day old, by a pass that had examined its predecessor at the same path
\* (utils/workspace.rs:74-79), or by the thread of an earlier run that was aborted
\* while it removed the directory (services/cloner.rs:64, utils/workspace.rs:44).
RemovedForAReason ==
    [][ (/\ pc \in InUse /\ Exists("workspace")
         /\ \/ dir'["workspace"] = Absent
            \/ dir["workspace"].whole /\ ~dir'["workspace"].whole)
        => \/ dir["workspace"].age # "new"
           \/ pass.at = "workspace" /\ pass.by # dir["workspace"].by
           \/ \E r \in 1 .. Runs : r < run /\ thread[r] = "workspace" ]_vars

\* The steps of a job see the files of their own run, unless a removal has taken
\* some, and no others unless an abandoned git has written to the directory of its
\* successor (services/cloner.rs:163-169, 268-312).
RunsOwnCheckout ==
    pc \in {"parsing", "executing", "reporting"} /\ Exists("workspace") =>
        /\ run \in dir["workspace"].files \/ ~dir["workspace"].whole
        /\ \A r \in dir["workspace"].files \ {run} : git[r] = "late"


=============================================================================
