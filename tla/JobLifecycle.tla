---------------------------- MODULE JobLifecycle ----------------------------
(***************************************************************************)
(* What GET /api/v1/jobs/{job_id} promises a client that neither cancels   *)
(* the job nor reuses its id: the status it reads moves forward through    *)
(* pending, running and one terminal value, and leaves the last one only   *)
(* when the bounded history forgets the job.                               *)
(*                                                                         *)
(* A job that is cancelled or whose id is submitted twice is "contested":  *)
(* nothing is promised about it here (see JobService for what happens).    *)
(***************************************************************************)
CONSTANT Jobs

VARIABLE view   \* what the client reads of each job

Terminal == {"completed", "failed"}

Views == {"absent", "pending", "running", "contested"} \cup Terminal

Init == view = [j \in Jobs |-> "absent"]

Become(j, from, to) ==
    /\ view[j] \in from
    /\ view' = [view EXCEPT ![j] = to]

Submit(j) == Become(j, {"absent"}, "pending")
Start(j) == Become(j, {"pending"}, "running")
Finish(j) == \E to \in Terminal : Become(j, {"running"}, to)
Forget(j) == Become(j, {"pending", "running"} \cup Terminal, "absent")

\* Cancelling or reusing an id takes the job out of the promise.
Contest(j) == Become(j, Views, "contested")

\* A submission may push the oldest job out of the history in the same step.
SubmitAndForget(j, old) ==
    /\ view[j] = "absent"
    /\ view[old] # "absent"
    /\ view' = [view EXCEPT ![j] = "pending",
                            ![old] = IF @ = "contested" THEN @ ELSE "absent"]

ContestAndForget(j, old) ==
    /\ j # old
    /\ view' = [view EXCEPT ![j] = "contested",
                            ![old] = IF @ = "contested" THEN @ ELSE "absent"]

\* A submission that breaks off while it evicts loses all records (JobService).
ForgetAll == view' = [j \in Jobs |-> IF view[j] = "contested" THEN "contested" ELSE "absent"]

Next ==
    \/ ForgetAll
    \/ \E j \in Jobs : Submit(j) \/ Start(j) \/ Finish(j) \/ Forget(j) \/ Contest(j)
    \/ \E j, old \in Jobs : SubmitAndForget(j, old) \/ ContestAndForget(j, old)

Spec == Init /\ [][Next]_view
=============================================================================
