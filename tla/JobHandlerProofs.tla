-------------------------- MODULE JobHandlerProofs --------------------------
(***************************************************************************)
(* Proofs about JobHandler: the types, whose files a running job sees, and *)
(* why the hourly clean-up takes no workspace that is in use.              *)
(***************************************************************************)
EXTENDS JobHandler, TLAPS

Middle == {"verifying", "creating", "moving", "removingTemp", "checkingOut", "fetching", "validating"}

\* From when on the workspace is the one this run has created.
Owned == InUse \cup {"cleaning"}

\* Git processes that are not waited for are the only others to have written.
OnlyLate(d) ==
    Exists(d) => \A r \in dir[d].files \ {run} : git[r] = "late"

Checkouts ==
    /\ pc \in {"spawning", "cloning"} \cup Middle => OnlyLate("temp")
    /\ pc \in Owned => OnlyLate("workspace")
    /\ pc \in {"parsing", "executing", "reporting"} /\ Exists("workspace") => run \in dir["workspace"].files \/ ~dir["workspace"].whole

\* The workspace is of an earlier run before this one creates its own.
Earlier == pc \in Cloning \ InUse

\* A workspace that the pass has examined and is about to remove has aged, unless
\* it was replaced since.
Aged ==
    /\ Exists("workspace") => dir["workspace"].by <= run /\ (Earlier => dir["workspace"].by < run)
    /\ pass.at = "workspace" =>
        /\ pass.by <= run /\ (Earlier => pass.by < run)
        /\ Exists("workspace") /\ dir["workspace"].by = pass.by => dir["workspace"].age # "new"

Started == pc # "idle" => run # 0

\* A thread removes what an earlier run, or this one if it was aborted, has left.
Threads == \A r \in 1 .. Runs : thread[r] # "none" => r < run \/ (r = run /\ pc = "aborted")

Inv == TypeOK /\ Started /\ Checkouts /\ Aged /\ Threads

USE DEF others

Steps == Ended \cup Cloning \cup {"parsing", "executing", "reporting", "cleaning"}

LEMMA InitInv == Init => Inv
<1> USE HandlerAssumption
<1>1. ASSUME Init PROVE TypeOK
  BY <1>1 DEF Init, TypeOK, Names, Ended
<1>2. ASSUME Init PROVE Started /\ Checkouts /\ Aged /\ Threads
  BY <1>2 DEF Init, Started, Checkouts, Aged, Threads, Exists, Names, Owned, InUse, Middle
<1>3. QED
  BY <1>1, <1>2 DEF Inv

\* Steps that move the handler on and leave the directories alone.
LEMMA HandlerMoves ==
    ASSUME Inv, UNCHANGED <<run, dir, others>>, pc' \in Steps, pc # "idle",
           pc = "aborted" => pc' = "aborted",
           pc' \in {"spawning", "cloning"} \cup Middle => pc \in {"spawning", "cloning"} \cup Middle,
           pc' \in Owned => pc \in Owned,
           pc' \in {"parsing", "executing", "reporting"} /\ Exists("workspace") =>
               \/ pc \in {"parsing", "executing", "reporting"}
               \/ run \in dir["workspace"].files \/ ~dir["workspace"].whole,
           Earlier' => Earlier
    PROVE  Inv'
<1>1. TypeOK'
  BY DEF Inv, TypeOK, Steps
<1>2. Started' /\ Checkouts'
  BY DEF Inv, Started, Checkouts, OnlyLate, Exists
<1>3. Aged' /\ Threads'
  BY DEF Inv, Aged, Exists, Threads
<1>4. QED
  BY <1>1, <1>2, <1>3 DEF Inv

LEMMA HandlerWaits ==
    ASSUME Inv,
           \/ CloneReturns \/ VerifyClone \/ CheckOut \/ FetchMore \/ ValidateCommit \/ CloneFails
           \/ Parse \/ ExecutorReturns \/ HandlerFails \/ Report
    PROVE  Inv'
<1> USE DEF Goto, Steps, Ended, Cloning, Middle, Owned, InUse, Earlier
<1>1. CASE CloneReturns \/ VerifyClone \/ CheckOut \/ FetchMore
  BY <1>1, HandlerMoves DEF CloneReturns, VerifyClone, CheckOut, FetchMore
<1>2. CASE ValidateCommit
  BY <1>2, HandlerMoves DEF ValidateCommit
<1>3. CASE CloneFails \/ HandlerFails
  BY <1>3, HandlerMoves DEF CloneFails, HandlerFails
<1>4. CASE Parse \/ ExecutorReturns \/ Report
  BY <1>4, HandlerMoves DEF Parse, ExecutorReturns, Report
<1>5. QED
  BY <1>1, <1>2, <1>3, <1>4

\* An abort leaves at most a removal of the directory that is being removed.
LEMMA AbortKeeps == ASSUME Inv, Abort PROVE Inv'
<1> USE HandlerAssumption DEF Abort
<1>1. run \in 1 .. Runs
  BY DEF Inv, TypeOK, Started, Ended
<1>2. /\ thread' \in [1 .. Runs -> Names \cup {"none"}]
      /\ \A r \in 1 .. Runs : r # run => thread'[r] = thread[r]
  BY <1>1 DEF Inv, TypeOK
<1>3. TypeOK'
  BY <1>2 DEF Inv, TypeOK, Ended
<1>4. Started' /\ Checkouts' /\ Aged'
  BY DEF Inv, Started, Checkouts, Aged, OnlyLate, Exists, Ended, Middle, Owned, InUse, Earlier, Cloning
<1>5. Threads'
  BY <1>2 DEF Inv, Threads, Ended
<1>6. QED
  BY <1>3, <1>4, <1>5 DEF Inv

\* One directory is removed.
Without(d) == [dir EXCEPT ![d] = Absent]

LEMMA RemovalKeeps ==
    ASSUME Inv, UNCHANGED <<run, git>>, pc' \in Steps, pc # "idle" \/ pc' = pc,
           pc = "aborted" => pc' = "aborted",
           UNCHANGED thread \/ \E r \in 1 .. Runs : thread' = [thread EXCEPT ![r] = "none"],
           NEW d \in Names, dir' = Without(d),
           pc' \in {"spawning", "cloning"} \cup Middle =>
               d = "temp" \/ pc \in {"spawning", "cloning"} \cup Middle,
           pc' \in Owned => d = "workspace" \/ pc \in Owned,
           pc' \in {"parsing", "executing", "reporting"} =>
               d = "workspace" \/ pc \in {"parsing", "executing", "reporting"},
           Earlier' => Earlier,
           TypeOK' \/ UNCHANGED pass,
           UNCHANGED pass \/ pass'.at # "workspace"
    PROVE  Inv'
<1>1. dir[d] \in Directories \cup {Absent} /\ dir'[d] = Absent /\ \A e \in Names \ {d} : dir'[e] = dir[e]
  BY DEF Inv, TypeOK, Without
<1>2. TypeOK'
  BY DEF Inv, TypeOK, Steps, Without
<1>3. Started' /\ Checkouts'
  BY <1>1 DEF Inv, Started, Checkouts, OnlyLate, Exists, Names
<1>4. Aged' /\ Threads'
  BY <1>1 DEF Inv, TypeOK, Aged, Exists, Names, Idle, Threads
<1>5. QED
  BY <1>2, <1>3, <1>4 DEF Inv

LEMMA ClearingKeeps ==
    ASSUME Inv, ClearWorkspace \/ ClearTemp \/ RemoveTemp \/ CleanUp
    PROVE  Inv'
<1> USE DEF Goto, Steps, Ended, Cloning, Middle, Owned, InUse, Earlier
<1>1. CASE ClearWorkspace
  <2>1. dir' = Without("workspace")
    BY <1>1 DEF ClearWorkspace, Removed, Without
  <2>2. /\ pc = "clearing" /\ pc' = "clearingTemp" /\ UNCHANGED <<run, others>>
        /\ "workspace" \in Names
    BY <1>1 DEF ClearWorkspace, Names
  <2>3. QED
    BY <2>1, <2>2, RemovalKeeps
<1>2. CASE ClearTemp
  <2>1. dir' = Without("temp")
    BY <1>2 DEF ClearTemp, Removed, Without
  <2>2. /\ pc = "clearingTemp" /\ pc' = "spawning" /\ UNCHANGED <<run, others>>
        /\ "temp" \in Names
    BY <1>2 DEF ClearTemp, Names
  <2>3. QED
    BY <2>1, <2>2, RemovalKeeps
<1>3. CASE RemoveTemp
  <2>1. dir' = Without("temp")
    BY <1>3 DEF RemoveTemp, Removed, Without
  <2>2. /\ pc = "removingTemp" /\ pc' = "checkingOut" /\ UNCHANGED <<run, others>>
        /\ "temp" \in Names
    BY <1>3 DEF RemoveTemp, Names
  <2>3. QED
    BY <2>1, <2>2, RemovalKeeps
<1>4. CASE CleanUp
  <2>1. /\ pc = "cleaning" /\ pc' = "ok" /\ UNCHANGED <<run, others>>
        /\ "workspace" \in Names
    BY <1>4 DEF CleanUp, Names
  <2>2. CASE dir' = Without("workspace")
    BY <2>1, <2>2, RemovalKeeps
  <2>3. CASE UNCHANGED dir
    BY <2>1, <2>3, HandlerMoves
  <2>4. QED
    BY <1>4, <2>2, <2>3 DEF CleanUp, Attempted, Without
<1>5. QED
  BY <1>1, <1>2, <1>3, <1>4

\* A new run owns nothing yet, and everything that is there is of an earlier one.
LEMMA BeginKeeps == ASSUME Inv, Begin PROVE Inv'
<1> USE HandlerAssumption DEF Begin
<1>1. TypeOK'
  BY DEF Inv, TypeOK, Cloning
<1>2. Started' /\ Checkouts'
  BY DEF Inv, TypeOK, Started, Checkouts, Middle, Owned, InUse
<1>3. Aged'
  <2>1. Exists("workspace") => dir["workspace"].by \in Nat /\ dir["workspace"].by < run'
    BY DEF Inv, TypeOK, Aged, Directories, Names, Exists
  <2>2. pass.at = "workspace" => pass.by \in Nat /\ pass.by < run'
    BY DEF Inv, TypeOK, Aged
  <2>3. UNCHANGED <<dir, pass>> /\ run' \in Nat
    BY DEF Inv, TypeOK
  <2>4. QED
    BY <2>1, <2>2, <2>3 DEF Inv, Aged, Exists
<1>5. Threads'
  BY DEF Inv, TypeOK, Threads
<1>4. QED
  BY <1>1, <1>2, <1>3, <1>5 DEF Inv

LEMMA SpawnKeeps == ASSUME Inv, SpawnGit PROVE Inv'
<1> USE DEF SpawnGit, Goto
<1>1. TypeOK'
  BY DEF Inv, TypeOK, Cloning
<1>2. Started' /\ Checkouts'
  BY DEF Inv, TypeOK, Started, Checkouts, OnlyLate, Exists, Owned, InUse
<1>3. Aged' /\ Threads'
  BY DEF Inv, Aged, Exists, Earlier, Cloning, InUse, Threads
<1>4. QED
  BY <1>1, <1>2, <1>3 DEF Inv

LEMMA CreateKeeps == ASSUME Inv, CreateWorkspace PROVE Inv'
<1> USE HandlerAssumption DEF CreateWorkspace, Goto
<1>1. run \in 1 .. Runs /\ UNCHANGED <<run, others>> /\ pc = "creating" /\ pc' = "moving"
  BY DEF Inv, TypeOK, Started
<1>2. Fresh(run) \in Directories /\ Fresh(run).by = run /\ Fresh(run).files = {}
  BY <1>1 DEF Fresh, Directories
<1>3. dir'["workspace"] = Fresh(run) /\ dir'["temp"] = dir["temp"]
  BY DEF Inv, TypeOK, Names
<1>4. TypeOK'
  BY <1>1, <1>2 DEF Inv, TypeOK, Cloning, Names
<1>5. Started' /\ Checkouts'
  BY <1>1, <1>2, <1>3 DEF Inv, Started, Checkouts, OnlyLate, Exists, Middle, Owned, InUse
<1>6. Aged'
  <2>1. pass.at = "workspace" => pass.by <= run /\ pass.by < run /\ pass.by # run
    BY <1>1 DEF Inv, Aged, Earlier, Cloning, InUse, TypeOK
  <2>2. ~Earlier'
    BY <1>1 DEF Earlier, InUse
  <2>3. QED
    BY <1>1, <1>2, <1>3, <2>1, <2>2 DEF Aged
<1>8. Threads'
  BY <1>1 DEF Inv, Threads
<1>7. QED
  BY <1>4, <1>5, <1>6, <1>8 DEF Inv

\* The files of the temporary directory become those of the workspace; it keeps
\* its creator and its age.
LEMMA MoveKeeps == ASSUME Inv, Move \/ MoveFails PROVE Inv'
<1> USE HandlerAssumption DEF Names
<1> DEFINE w == dir["workspace"]  t == dir["temp"]
<1>1. /\ w \in Directories /\ t \in Directories
      /\ pc = "moving" /\ pc' \in {"removingTemp", "unclonable"} /\ UNCHANGED <<run, others>>
  BY DEF Move, MoveFails, Goto, Exists, Inv, TypeOK
<1>2. /\ dir'["workspace"].files = t.files
      /\ dir'["workspace"].by = w.by /\ dir'["workspace"].age = w.age
      /\ dir'["temp"].files \in {t.files, {}}
      /\ dir' \in [Names -> Directories]
  <2>1. dir' = [dir EXCEPT !["workspace"].files = t.files, !["temp"].files = {}]
        \/ dir' = [dir EXCEPT !["workspace"].files = t.files]
    BY DEF Move, MoveFails
  <2>2. dir \in [Names -> Directories]
    BY <1>1 DEF Inv, TypeOK
  <2>3. t.files \in SUBSET (1 .. Runs)
    BY <1>1 DEF Directories
  <2>4. QED
    BY <1>1, <2>1, <2>2, <2>3 DEF Directories
<1>3. TypeOK'
  BY <1>1, <1>2 DEF Inv, TypeOK, Cloning, Ended
<1>4. \A r \in t.files \ {run} : git[r] = "late"
  BY <1>1 DEF Inv, Checkouts, OnlyLate, Middle, Exists
<1>5. Started' /\ Checkouts'
  BY <1>1, <1>2, <1>4 DEF Inv, Started, Checkouts, OnlyLate, Middle
<1>6. Aged'
  BY <1>1, <1>2 DEF Inv, Aged, Exists, Earlier, Cloning, InUse
<1>8. Threads'
  BY <1>1 DEF Inv, Threads
<1>7. QED
  BY <1>3, <1>5, <1>6, <1>8 DEF Inv

\* A directory that gets older, is written to, or loses files, never looks new again.
LEMMA AgeKeeps ==
    ASSUME Inv, UNCHANGED <<run, pc, others>>,
           dir' \in [Names -> Directories \cup {Absent}],
           \A d \in Names : \/ dir'[d] = dir[d]
                           \/ /\ Exists(d) /\ Exists(d)'
                              /\ dir'[d].by = dir[d].by /\ dir'[d].files \subseteq dir[d].files
                              /\ \/ dir'[d].files = dir[d].files /\ dir'[d].whole = dir[d].whole
                                 \/ ~dir'[d].whole
                              /\ dir[d].age # "new" => dir'[d].age # "new"
    PROVE  Inv'
<1> USE DEF Names
<1>1. TypeOK'
  BY DEF Inv, TypeOK
<1>2. Started' /\ Checkouts'
  BY DEF Inv, Started, Checkouts, OnlyLate, Exists
<1>3. Aged' /\ Threads'
  BY DEF Inv, Aged, Exists, Earlier, Threads
<1>4. QED
  BY <1>1, <1>2, <1>3 DEF Inv

LEMMA TimeKeeps == ASSUME Inv, StepWrites \/ DayPasses PROVE Inv'
<1>1. CASE StepWrites
  <2> DEFINE w == dir["workspace"]
  <2>1. PICK locked \in {w.locked, TRUE} :
            dir' = [dir EXCEPT !["workspace"].age = Touched(w.age), !["workspace"].locked = locked]
    BY <1>1 DEF StepWrites
  <2>2. w \in Directories /\ dir \in [Names -> Directories \cup {Absent}]
    BY <1>1 DEF StepWrites, Exists, Inv, TypeOK, Names
  <2>3. Touched(w.age) \in {"new", "touched"} /\ (w.age # "new" => Touched(w.age) # "new") /\ locked \in BOOLEAN
    BY <2>1, <2>2 DEF Touched, Directories
  <2> DEFINE v == [w EXCEPT !.age = Touched(w.age), !.locked = locked]
  <2>4. v \in Directories /\ v.by = w.by /\ v.files = w.files /\ v.whole = w.whole /\ v.age = Touched(w.age)
    BY <2>2, <2>3 DEF Directories
  <2>5. dir' = [dir EXCEPT !["workspace"] = v]
    BY <2>1, <2>2, <2>4 DEF Names
  <2> HIDE DEF v
  <2>6. dir' \in [Names -> Directories \cup {Absent}] /\ dir'["workspace"] = v /\ dir'["temp"] = dir["temp"]
    BY <2>2, <2>4, <2>5 DEF Names
  <2>7. QED
    BY <1>1, <2>3, <2>4, <2>6, AgeKeeps, HandlerAssumption DEF StepWrites, Exists, Names
<1>2. CASE DayPasses
  <2>1. \A d \in Names : Exists(d) => /\ dir[d] \in Directories
                                     /\ [dir[d] EXCEPT !.age = "old"] \in Directories
                                     /\ [dir[d] EXCEPT !.age = "old"].by = dir[d].by
                                     /\ [dir[d] EXCEPT !.age = "old"].files = dir[d].files
                                     /\ [dir[d] EXCEPT !.age = "old"].whole = dir[d].whole
                                     /\ [dir[d] EXCEPT !.age = "old"].age = "old"
    BY DEF Inv, TypeOK, Directories, Exists
  <2>2. \A d \in Names : dir'[d] = IF Exists(d) THEN [dir[d] EXCEPT !.age = "old"] ELSE Absent
    BY <1>2 DEF DayPasses
  <2>3. dir' \in [Names -> Directories \cup {Absent}]
    BY <1>2, <2>1 DEF DayPasses
  <2>4. QED
    BY <1>2, <2>1, <2>2, <2>3, AgeKeeps, HandlerAssumption DEF DayPasses, Exists
<1>3. QED
  BY <1>1, <1>2

\* A removal takes files of a directory.
LEMMA RemovalGoesOnKeeps == ASSUME Inv, NEW d \in Names, RemovalGoesOn(d) PROVE Inv'
<1> DEFINE w == dir[d]
<1>1. w \in Directories /\ dir \in [Names -> Directories \cup {Absent}]
  BY DEF RemovalGoesOn, Exists, Inv, TypeOK
<1>2. PICK kept \in SUBSET w.files :
          dir' = [dir EXCEPT ![d].files = kept, ![d].whole = FALSE, ![d].age = Touched(w.age)]
  BY DEF RemovalGoesOn
<1> DEFINE v == [w EXCEPT !.files = kept, !.whole = FALSE, !.age = Touched(w.age)]
<1>3. /\ v \in Directories /\ v.by = w.by /\ v.files \subseteq w.files /\ ~v.whole
      /\ w.age # "new" => v.age # "new"
  BY <1>1, <1>2 DEF Directories, Touched
<1>4. dir' = [dir EXCEPT ![d] = v]
  BY <1>1, <1>2
<1> HIDE DEF v
<1>5. /\ dir' \in [Names -> Directories \cup {Absent}] /\ dir'[d] = v
      /\ \A e \in Names \ {d} : dir'[e] = dir[e]
  BY <1>1, <1>3, <1>4
<1>6. QED
  BY <1>3, <1>5, AgeKeeps, HandlerAssumption DEF RemovalGoesOn, Exists

\* What an abort has left is removed.
LEMMA ThreadKeeps == ASSUME Inv, NEW r \in 1 .. Runs, ThreadRemoves(r) PROVE Inv'
<1> USE DEF ThreadRemoves
<1>1. thread[r] \in Names /\ UNCHANGED <<run, pc, git, pass>> /\ pc \in Steps
  BY DEF Inv, TypeOK, Steps
<1>2. CASE dir' = Without(thread[r])
  <2>1. PICK d \in Names : d = thread[r]
    BY <1>1
  <2>2. Earlier' => Earlier
    BY DEF Earlier
  <2>3. dir' = Without(d)
    BY <1>2, <2>1
  <2>4. \E q \in 1 .. Runs : thread' = [thread EXCEPT ![q] = "none"]
    OBVIOUS
  <2>5. QED
    BY <1>1, <2>2, <2>3, <2>4, RemovalKeeps
<1>3. CASE UNCHANGED dir
  <2>1. TypeOK' /\ Threads'
    BY <1>1, <1>3 DEF Inv, TypeOK, Threads
  <2>2. Started' /\ Checkouts' /\ Aged'
    BY <1>1, <1>3 DEF Inv, Started, Checkouts, OnlyLate, Exists, Aged, Earlier
  <2>3. QED
    BY <2>1, <2>2 DEF Inv
<1>4. QED
  BY <1>2, <1>3 DEF Attempted, Without

\* What a git process does to the temporary directory: only one that is late, or
\* that of the current run, puts files there.
LEMMA GitKeeps ==
    ASSUME Inv, NEW r \in 1 .. Runs, GitCreates(r) \/ GitWrites(r) \/ GitFails(r)
    PROVE  Inv'
<1> USE HandlerAssumption DEF Names
<1> DEFINE t == dir["temp"]
<1>1. /\ UNCHANGED <<run, pc, thread, pass>>
      /\ dir'["workspace"] = dir["workspace"]
      /\ dir' \in [Names -> Directories \cup {Absent}]
      /\ git' \in [1 .. Runs -> {"none", "started", "writing", "done", "late", "failed"}]
      /\ \A q \in 1 .. Runs : git[q] = "late" => git'[q] = "late"
      /\ \/ dir'["temp"] = t
         \/ dir'["temp"] = Absent
         \/ dir'["temp"].files = {}
         \/ /\ Exists("temp") /\ dir'["temp"].files = t.files \cup {r}
            /\ r # run \/ pc # "cloning" => git'[r] = "late"
  <2>1. dir \in [Names -> Directories \cup {Absent}] /\ git \in [1 .. Runs -> {"none", "started", "writing", "done", "late", "failed"}]
    BY DEF Inv, TypeOK
  <2>2. CASE GitCreates(r)
    <3>1. Fresh(r) \in Directories /\ Fresh(r).files = {}
      BY DEF Fresh, Directories
    <3>2. QED
      BY <2>1, <2>2, <3>1 DEF GitCreates
  <2>3. CASE GitWrites(r)
    <3> DEFINE v == [t EXCEPT !.files = t.files \cup {r}, !.age = Touched(t.age)]
    <3>1. t \in Directories
      BY <2>1, <2>3 DEF GitWrites, Exists
    <3>2. v \in Directories /\ v.files = t.files \cup {r}
      BY <3>1 DEF Directories, Touched
    <3>3. dir' = [dir EXCEPT !["temp"] = v]
      BY <2>1, <2>3 DEF GitWrites
    <3> HIDE DEF v
    <3>4. dir' \in [Names -> Directories \cup {Absent}] /\ dir'["temp"] = v /\ dir'["workspace"] = dir["workspace"]
      BY <2>1, <3>2, <3>3
    <3>5. QED
      BY <2>1, <2>3, <3>2, <3>4 DEF GitWrites
  <2>4. CASE GitFails(r)
    BY <2>1, <2>4 DEF GitFails
  <2>5. QED
    BY <2>2, <2>3, <2>4
<1>2. TypeOK'
  BY <1>1 DEF Inv, TypeOK
<1>3. Started' /\ Checkouts'
  <2>1. \A q : q \in t.files /\ Exists("temp") => q \in 1 .. Runs
    BY DEF Inv, TypeOK, Directories, Exists
  <2>2. ASSUME pc \in {"spawning", "cloning"} \cup Middle, Exists("temp")', NEW q \in dir'["temp"].files \ {run}
        PROVE  git'[q] = "late"
    <3>1. CASE dir'["temp"] = t
      BY <1>1, <2>1, <2>2, <3>1 DEF Inv, Checkouts, OnlyLate, Exists
    <3>2. CASE Exists("temp") /\ dir'["temp"].files = t.files \cup {r} /\ (r # run \/ pc # "cloning" => git'[r] = "late")
      BY <1>1, <2>1, <2>2, <3>2 DEF Inv, Checkouts, OnlyLate
    <3>3. QED
      BY <1>1, <2>2, <3>1, <3>2 DEF Exists
  <2>3. ASSUME pc \in Owned, Exists("workspace") PROVE \A q \in dir["workspace"].files \ {run} : git'[q] = "late"
    BY <1>1, <2>3 DEF Inv, TypeOK, Directories, Checkouts, OnlyLate, Exists
  <2>4. QED
    BY <1>1, <2>2, <2>3 DEF Inv, Started, Checkouts, OnlyLate, Exists
<1>4. Aged' /\ Threads'
  BY <1>1 DEF Inv, Aged, Exists, Earlier, Threads
<1>5. QED
  BY <1>2, <1>3, <1>4 DEF Inv

\* The hourly clean-up examines an entry, and removes it later by its path.
LEMMA CleanerKeeps ==
    ASSUME Inv, ListEntries \/ \E d \in Names : Examine(d) \/ RemoveOld(d)
    PROVE  Inv'
<1> USE HandlerAssumption
<1>1. ASSUME UNCHANGED <<run, pc, dir, git, thread>>, TypeOK',
             pass'.at = "workspace" => Exists("workspace") /\ dir["workspace"].age = "old" /\ pass'.by = dir["workspace"].by
      PROVE  Inv'
  <2>1. Started' /\ Checkouts'
    BY <1>1 DEF Inv, Started, Checkouts, OnlyLate, Exists
  <2>2. Aged' /\ Threads'
    BY <1>1 DEF Inv, Aged, Exists, Earlier, Threads
  <2>3. QED
    BY <1>1, <2>1, <2>2 DEF Inv
<1>2. CASE ListEntries
  <2> DEFINE found == {d \in Names : Exists(d)}
  <2>1. pass' = [pass EXCEPT !.at = "listed", !.left = found] /\ found \in SUBSET Names
    BY <1>2 DEF ListEntries
  <2> HIDE DEF found
  <2>2. /\ pass' \in [at : {"idle", "listed"}, left : SUBSET Names, by : 0 .. Runs]
        /\ pass'.at = "listed" /\ pass'.left \in SUBSET Names
    BY <2>1 DEF Inv, TypeOK
  <2>3. TypeOK'
    BY <1>2, <2>2 DEF ListEntries, Inv, TypeOK, Names
  <2>4. QED
    BY <1>1, <1>2, <2>2, <2>3 DEF ListEntries
<1>3. ASSUME NEW d \in Names, Examine(d) PROVE Inv'
  <2>1. pass.left \in SUBSET Names /\ run \in 0 .. Runs
    BY DEF Inv, TypeOK
  <2>2. Exists(d) => dir[d].by \in 0 .. Runs
    BY DEF Inv, TypeOK, Exists, Directories
  <2>3. \/ pass' \in [at : {"idle", "listed"}, left : SUBSET Names, by : 0 .. Runs]
        \/ /\ pass' = [at |-> d, left |-> pass.left \ {d}, by |-> dir[d].by]
           /\ Exists(d) /\ dir[d].age = "old"
    BY <1>3, <2>1 DEF Examine, Continue, Idle
  <2>4. TypeOK'
    BY <1>3, <2>1, <2>2, <2>3 DEF Examine, Inv, TypeOK, Names
  <2>5. QED
    BY <1>1, <1>3, <2>3, <2>4 DEF Examine
<1>4. ASSUME NEW d \in Names, RemoveOld(d) PROVE Inv'
  <2>1. pass' \in [at : {"idle", "listed"}, left : SUBSET Names, by : 0 .. Runs]
    BY <1>4 DEF RemoveOld, Continue, Idle, Inv, TypeOK
  <2>2. dir' \in [Names -> Directories \cup {Absent}]
    BY <1>4 DEF RemoveOld, Attempted, Inv, TypeOK
  <2>3. TypeOK'
    BY <1>4, <2>1, <2>2 DEF RemoveOld, Inv, TypeOK, Names
  <2>4. pass'.at # "workspace" /\ UNCHANGED <<run, pc, git, thread>>
    BY <1>4, <2>1 DEF RemoveOld
  <2>5. CASE dir' = Without(d)
    BY <2>3, <2>4, <2>5, RemovalKeeps DEF Inv, TypeOK, Steps, Earlier
  <2>6. CASE UNCHANGED dir
    BY <1>1, <2>3, <2>4, <2>6
  <2>7. QED
    BY <1>4, <2>5, <2>6 DEF RemoveOld, Attempted, Without
<1>5. QED
  BY <1>2, <1>3, <1>4

LEMMA NextInv == ASSUME Inv, [Next]_vars PROVE Inv'
<1>1. CASE Clone
  BY <1>1, HandlerWaits, ClearingKeeps, SpawnKeeps, CreateKeeps, MoveKeeps DEF Clone
<1>2. CASE Handle
  BY <1>2, HandlerWaits, ClearingKeeps, BeginKeeps, TimeKeeps, AbortKeeps DEF Handle
<1>3. CASE GitSteps
  BY <1>3, GitKeeps DEF GitSteps
<1>4. CASE CleanerSteps
  BY <1>4, CleanerKeeps DEF CleanerSteps
<1>5. CASE DayPasses
  BY <1>5, TimeKeeps
<1>6. CASE UNCHANGED vars
  <2>1. TypeOK' /\ Started'
    BY <1>6 DEF vars, Inv, TypeOK, Started
  <2>2. Checkouts'
    BY <1>6 DEF vars, Inv, Checkouts, OnlyLate, Exists
  <2>3. Aged' /\ Threads'
    BY <1>6 DEF vars, Inv, Aged, Exists, Earlier, Threads
  <2>4. QED
    BY <2>1, <2>2, <2>3 DEF Inv
<1>7. CASE RemovalSteps
  BY <1>7, ThreadKeeps, RemovalGoesOnKeeps DEF RemovalSteps
<1>8. QED
  BY <1>1, <1>2, <1>3, <1>4, <1>5, <1>6, <1>7 DEF Next

LEMMA InvHolds == Spec => []Inv
<1>1. QED
  BY InitInv, NextInv, PTL DEF Spec

\* The variables keep their types, for any number of runs.
THEOREM TypeCorrect == Spec => []TypeOK
<1>1. Inv => TypeOK
  BY DEF Inv
<1>2. QED
  BY <1>1, InvHolds, PTL

\* The steps of a job see the files of their own run, unless a removal has taken some,
\* and no others unless an abandoned git process has written to the directory of its
\* successor.
THEOREM SeesItsOwnFiles == Spec => []RunsOwnCheckout
<1>1. Inv => RunsOwnCheckout
  <2>1. {"parsing", "executing", "reporting"} \subseteq Owned
    BY DEF Owned, InUse
  <2>2. QED
    BY <2>1 DEF Inv, Checkouts, OnlyLate, RunsOwnCheckout
<1>2. QED
  BY <1>1, InvHolds, PTL

\* Only a workspace that is more than a day old is removed, or loses a file, while it is
\* in use, or one whose predecessor at the same path was examined, or was being
\* removed by an earlier run that was aborted.
THEOREM InUseIsKept == Spec => RemovedForAReason
<1> DEFINE Taken == /\ pc \in InUse /\ Exists("workspace")
                    /\ \/ dir'["workspace"] = Absent
                       \/ dir["workspace"].whole /\ ~dir'["workspace"].whole
           Reason == \/ dir["workspace"].age # "new"
                     \/ pass.at = "workspace" /\ pass.by # dir["workspace"].by
                     \/ \E r \in 1 .. Runs : r < run /\ thread[r] = "workspace"
           Kept == Taken => Reason
<1>1. ASSUME Inv, [Next]_vars PROVE [Kept]_vars
  <2> SUFFICES ASSUME Taken PROVE Reason
    OBVIOUS
  <2> USE <1>1
  <2> DEFINE w == dir["workspace"]
  <2>1. /\ dir \in [Names -> Directories \cup {Absent}] /\ "workspace" \in Names
        /\ w # Absent /\ w \in Directories
    BY DEF Inv, TypeOK, Exists, Names
  <2>2. dir'["workspace"] # w
    BY <2>1
  <2>3. ASSUME dir'["workspace"] \in Directories, dir'["workspace"].whole = w.whole PROVE FALSE
    BY <2>3, HandlerAssumption
  <2>4. CASE Move \/ MoveFails
    <3>1. dir["temp"] \in Directories
      BY <2>1, <2>4 DEF Move, MoveFails, Exists, Names
    <3>2. [w EXCEPT !.files = dir["temp"].files] \in Directories
      BY <2>1, <3>1 DEF Directories
    <3>3. dir'["workspace"] = [w EXCEPT !.files = dir["temp"].files]
      BY <2>1, <2>4, <3>1 DEF Move, MoveFails, Names
    <3>4. [w EXCEPT !.files = dir["temp"].files].whole = w.whole
      BY <2>1 DEF Directories
    <3>5. QED
      BY <2>3, <3>2, <3>3, <3>4
  <2>5. CASE ClearWorkspace \/ CreateWorkspace \/ CleanUp
    BY <2>5 DEF ClearWorkspace, CreateWorkspace, CleanUp, Goto, InUse
  <2>6. CASE ClearTemp \/ RemoveTemp
    BY <2>1, <2>2, <2>6 DEF ClearTemp, RemoveTemp, Removed, Names
  <2>7. CASE StepWrites
    <3>1. PICK locked \in {w.locked, TRUE} :
              dir' = [dir EXCEPT !["workspace"].age = Touched(w.age), !["workspace"].locked = locked]
      BY <2>7 DEF StepWrites
    <3>2. dir'["workspace"] = [w EXCEPT !.age = Touched(w.age), !.locked = locked]
      BY <2>1, <3>1
    <3>3. /\ [w EXCEPT !.age = Touched(w.age), !.locked = locked] \in Directories
          /\ [w EXCEPT !.age = Touched(w.age), !.locked = locked].whole = w.whole
      BY <2>1, <3>1 DEF Directories, Touched
    <3>4. QED
      BY <2>3, <3>2, <3>3
  <2>8. CASE DayPasses
    <3>1. [w EXCEPT !.age = "old"] \in Directories /\ [w EXCEPT !.age = "old"].whole = w.whole
      BY <2>1 DEF Directories
    <3>2. dir'["workspace"] = [w EXCEPT !.age = "old"]
      BY <2>1, <2>8 DEF DayPasses, Exists
    <3>3. QED
      BY <2>3, <3>1, <3>2
  <2>9. CASE GitSteps
    BY <2>1, <2>2, <2>9 DEF GitSteps, GitCreates, GitWrites, GitFails, Names
  <2>10. Threads /\ ~(pc = "aborted")
    BY DEF Inv, InUse
  <2>11. ASSUME NEW r \in 1 .. Runs, thread[r] = "workspace" PROVE Reason
    BY <2>10, <2>11 DEF Threads
  <2>12. ASSUME pass.at = "workspace" PROVE Reason
    BY <2>12 DEF Inv, Aged
  <2>13. CASE CleanerSteps
    <3>1. PICK d \in Names : RemoveOld(d)
      BY <2>2, <2>13 DEF CleanerSteps, ListEntries, Examine
    <3>2. d = "workspace"
      BY <2>1, <2>2, <3>1 DEF RemoveOld, Attempted
    <3>3. QED
      BY <2>12, <3>1, <3>2 DEF RemoveOld
  <2>14. CASE RemovalSteps
    <3>1. ASSUME NEW r \in 1 .. Runs, ThreadRemoves(r) PROVE Reason
      <4>1. thread[r] = "workspace"
        BY <2>1, <2>2, <3>1 DEF ThreadRemoves, Attempted
      <4>2. QED
        BY <2>11, <4>1
    <3>2. ASSUME NEW d \in Names, RemovalGoesOn(d) PROVE Reason
      <4>1. d = "workspace"
        BY <2>1, <2>2, <3>2 DEF RemovalGoesOn
      <4>2. ~Clearing(d)
        BY DEF Clearing, InUse
      <4>3. QED
        BY <2>11, <2>12, <3>2, <4>1, <4>2 DEF RemovalGoesOn
    <3>3. QED
      BY <2>14, <3>1, <3>2 DEF RemovalSteps
  <2>15. UNCHANGED dir \/ Move \/ MoveFails \/ ClearWorkspace \/ CreateWorkspace \/ CleanUp \/ ClearTemp
         \/ RemoveTemp \/ StepWrites \/ DayPasses \/ GitSteps \/ CleanerSteps \/ RemovalSteps
    BY DEF Next, Clone, Handle, vars, Begin, SpawnGit, CloneReturns, VerifyClone, CheckOut, FetchMore,
           ValidateCommit, CloneFails, Parse, ExecutorReturns, HandlerFails, Report, Abort
  <2>16. QED
    BY <2>2, <2>4, <2>5, <2>6, <2>7, <2>8, <2>9, <2>13, <2>14, <2>15
<1>2. QED
  BY <1>1, InvHolds, PTL DEF Spec, RemovedForAReason

=============================================================================
