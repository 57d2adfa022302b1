--------------------------- MODULE MCJobExecutor ---------------------------
(* Instances of JobExecutor for TLC. *)
EXTENDS JobExecutor

Anyway == [op |-> "none", subject |-> "job", of |-> 0, wants |-> TRUE]
Step(i, op, wants) == [op |-> op, subject |-> "step", of |-> i, wants |-> wants]
Unknown(op) == [op |-> op, subject |-> "unknown", of |-> 0, wants |-> TRUE]

\* Three steps: the first with a retry, the second of any phase, in file order or
\* not, conditional, possibly without attempts, the third a post step.
First == [type : {"pre", "exec", "post"}, attempts : {1, 2}, tolerant : BOOLEAN,
          when : {"always"}, cond : {Anyway}]
Second == [type : {"pre", "exec", "post"}, attempts : {0, 1}, tolerant : BOOLEAN,
           when : {"always", "on_success", "on_failure"},
           cond : {Anyway, Step(1, "eq", FALSE), Step(1, "ne", TRUE), Unknown("ne")}]
Third == [type : {"post"}, attempts : {1}, tolerant : {FALSE},
          when : {"always", "on_success", "on_failure"}, cond : {Anyway}]

MCConfigs == {<<s, t, u>> : s \in First, t \in Second, u \in Third}
MCFlaky == Calls
OnlyExec == {"exec"}

=============================================================================
