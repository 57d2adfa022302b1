----------------------------- MODULE RedisStore -----------------------------
(***************************************************************************)
(* stores/redis.rs: the job store on a Redis server.  The server executes  *)
(* one command at a time; an operation of the store is several commands    *)
(* and no transaction, so a step of this module is one command.  Any of    *)
(* them may fail, which ends the operation that sent it.                   *)
(*                                                                         *)
(* The index is a sorted set of jobs: by the second of creation, and by    *)
(* key among the jobs of one second.  Creations are numbered in that       *)
(* order, in which they need not happen, and the index is modelled by the  *)
(* creations that give its members their scores.  Nothing keeps an id from *)
(* being created again: its member then moves to its new place.            *)
(***************************************************************************)
EXTENDS Integers, FiniteSets, Sequences

CONSTANTS
    Jobs,
    Creations,  \* possible calls of create_job
    MaxCreations, \* bound of those that are made
    IdOf,       \* the job each of them creates
    Writers,    \* concurrent callers of the update operations
    Target,     \* the job each of them updates
    PlanOf,     \* the updates each of them makes, in order
    MaxHistory, \* store.max_history
    MaxFailures, \* bound of the commands that fail
    Limit,      \* page size of list_jobs
    Absent      \* no such key

Updates == {"running", "cancelled", "success", "failure", "error"}

Statuses == {"pending", "running", "completed", "failed", "cancelled"}
Records == [status : Statuses, result : BOOLEAN, error : BOOLEAN]

ASSUME StoreAssumption ==
    /\ Creations \subseteq Nat
    /\ IdOf \in [Creations -> Jobs]
    /\ Target \in [Writers -> Jobs]
    /\ PlanOf \in [Writers -> Seq(SUBSET Updates)]
    /\ {MaxCreations, MaxHistory, MaxFailures} \subseteq Nat
    /\ Limit \in Nat \ {0}
    /\ Absent \notin Records

VARIABLES
    records,    \* <prefix>:job:<id>
    index,      \* <prefix>:index, each member by the creation that added it last
    creating,   \* progress of each create_job
    done,       \* updates each writer has finished, failed ones included
    copy,       \* the record a writer has read and will write back
    enforcer,   \* the enforce_max_history task each create_job spawns
    failures,   \* commands that failed so far
    overlapped, \* jobs of which a record was written or deleted while another
                \* call was at it: a writer held a copy, a creation had yet to
                \* add it to the index, or an enforcer to take it out
    uncounted   \* creations that added a job to the index without an answer, since
                \* an enforcer last counted it

dataVars == <<records, index>>
callVars == <<creating, done, copy, enforcer, failures>>
ghostVars == <<overlapped, uncounted>>
vars == <<dataVars, callVars, ghostVars>>

Fresh == [status |-> "pending", result |-> FALSE, error |-> FALSE]

Idle == [pc |-> "none", excess |-> 0, keys |-> {}]

Init ==
    /\ records = [j \in Jobs |-> Absent]
    /\ index = {}
    /\ creating = [c \in Creations |-> "new"]
    /\ done = [w \in Writers |-> 0]
    /\ copy = [w \in Writers |-> Absent]
    /\ enforcer = [c \in Creations |-> Idle]
    /\ failures = 0
    /\ overlapped = {}
    /\ uncounted = {}

CommandFails == failures < MaxFailures /\ failures' = failures + 1

-----------------------------------------------------------------------------
(* Sorted sets                                                             *)

Indexed(j) == \E c \in index : IdOf[c] = j

\* ZADD of a member and ZREM of one.
Without(j) == {c \in index : IdOf[c] # j}
With(c) == Without(IdOf[c]) \cup {c}

Rank(c) == Cardinality({d \in index : d < c})

\* ZRANGE first..last and ZREVRANGE first..last, both ends included.
KeyRange(first, last) == {c \in index : Rank(c) \in first..last}
RevRange(first, last) == {c \in index : Cardinality(index) - 1 - Rank(c) \in first..last}

First(keys) == CHOOSE c \in keys : \A d \in keys \ {c} : c < d

\* The job an enforcer is at.
At(e) == IdOf[First(enforcer[e].keys)]

-----------------------------------------------------------------------------
(* create_job                                                              *)

Holders(j) == {w \in Writers : Target[w] = j /\ copy[w] # Absent}

Adding(j) == {c \in Creations : IdOf[c] = j /\ creating[c] = "set"}

Unindexing(j) == {e \in Creations : enforcer[e].pc = "unindex" /\ At(e) = j}

\* SET of a fresh record, without a look at what the key holds.
SetFresh(c) ==
    LET j == IdOf[c]
    IN  /\ creating[c] = "new"
        /\ Cardinality({d \in Creations : creating[d] # "new"}) < MaxCreations
        /\ creating' = [creating EXCEPT ![c] = "set"]
        /\ records' = [records EXCEPT ![j] = Fresh]
        /\ overlapped' = IF Holders(j) = {} /\ Unindexing(j) = {} THEN overlapped
                         ELSE overlapped \cup {j}
    /\ UNCHANGED <<index, done, copy, enforcer, failures, uncounted>>

\* ZADD; the eviction is left to a spawned task.
AddToIndex(c) ==
    /\ creating[c] = "set"
    /\ creating' = [creating EXCEPT ![c] = "created"]
    /\ index' = With(c)
    /\ enforcer' = [enforcer EXCEPT ![c].pc = "spawned"]
    /\ UNCHANGED <<records, done, copy, failures, ghostVars>>

\* ZADD fails: the record stays, outside the index unless the job was there
\* before, and nothing evicts it.
CreateFails(c) ==
    /\ creating[c] = "set"
    /\ creating' = [creating EXCEPT ![c] = "failed"]
    /\ CommandFails
    /\ UNCHANGED <<dataVars, done, copy, enforcer, ghostVars>>

\* The server executes ZADD, but the answer is lost or the caller is dropped
\* while it waits: the index grows and no task is spawned.
CreateUnanswered(c) ==
    /\ creating[c] = "set"
    /\ creating' = [creating EXCEPT ![c] = "failed"]
    /\ index' = With(c)
    /\ uncounted' = uncounted \cup {c}
    /\ CommandFails
    /\ UNCHANGED <<records, done, copy, enforcer, overlapped>>

-----------------------------------------------------------------------------
(* update_job_status, set_job_result and set_job_error                     *)

\* Faulty variant: the status operation builds its record anew.
ChangedAnew(r, u) ==
    CASE u = "running"   -> [Fresh EXCEPT !.status = "running"]
      [] u = "cancelled" -> [Fresh EXCEPT !.status = "cancelled"]
      [] u = "success"   -> [r EXCEPT !.status = "completed", !.result = TRUE]
      [] u = "failure"   -> [r EXCEPT !.status = "failed", !.result = TRUE]
      [] u = "error"     -> [r EXCEPT !.status = "failed", !.error = TRUE]

\* What each operation changes in the record it has read.
Changed(r, u) ==
    CASE u = "running"   -> [r EXCEPT !.status = "running"]
      [] u = "cancelled" -> [r EXCEPT !.status = "cancelled"]
      [] u = "success"   -> [r EXCEPT !.status = "completed", !.result = TRUE]
      [] u = "failure"   -> [r EXCEPT !.status = "failed", !.result = TRUE]
      [] u = "error"     -> [r EXCEPT !.status = "failed", !.error = TRUE]

\* GET.  Updates are made by the task of a job and by its cancellation, both
\* after a create_job of it has returned.  A missing key is an error that ends the call.
Read(w) ==
    LET j == Target[w]
    IN  /\ copy[w] = Absent
        /\ done[w] + 1 \in DOMAIN PlanOf[w]
        /\ \E c \in Creations : IdOf[c] = j /\ creating[c] = "created"
        /\ copy' = [copy EXCEPT ![w] = records[j]]
        /\ done' = IF records[j] = Absent THEN [done EXCEPT ![w] = @ + 1] ELSE done
    /\ UNCHANGED <<dataVars, creating, enforcer, failures, ghostVars>>

\* SET of the whole record, whatever became of the key in between.
Write(w) ==
    LET j == Target[w]
    IN  /\ copy[w] # Absent
        /\ \E u \in PlanOf[w][done[w] + 1] : records' = [records EXCEPT ![j] = Changed(copy[w], u)]
        /\ copy' = [copy EXCEPT ![w] = Absent]
        /\ done' = [done EXCEPT ![w] = @ + 1]
        /\ overlapped' = IF Holders(j) = {w} THEN overlapped ELSE overlapped \cup {j}
    /\ UNCHANGED <<index, creating, enforcer, failures, uncounted>>

WriteFails(w) ==
    /\ copy[w] # Absent
    /\ copy' = [copy EXCEPT ![w] = Absent]
    /\ done' = [done EXCEPT ![w] = @ + 1]
    /\ CommandFails
    /\ UNCHANGED <<dataVars, creating, enforcer, ghostVars>>

-----------------------------------------------------------------------------
(* enforce_max_history, one task per create_job                            *)

Active == {"counted", "delete", "unindex"}

\* Faulty variant: without the comparison, which keeps the difference from
\* going below zero.
CountAnyway(e) ==
    /\ enforcer[e].pc = "spawned"
    /\ enforcer' = [enforcer EXCEPT ![e].pc = "counted",
                                    ![e].excess = Cardinality(index) - MaxHistory]
    /\ UNCHANGED <<dataVars, creating, done, copy, failures, ghostVars>>

\* ZCARD.
Count(e) ==
    LET n == Cardinality(index)
    IN  /\ enforcer[e].pc = "spawned"
        /\ enforcer' = [enforcer EXCEPT ![e] =
                IF n > MaxHistory THEN [@ EXCEPT !.pc = "counted", !.excess = n - MaxHistory]
                ELSE [@ EXCEPT !.pc = "finished"]]
        /\ uncounted' = {}
    /\ UNCHANGED <<dataVars, creating, done, copy, failures, overlapped>>

Deleting(keys) == [pc |-> IF keys = {} THEN "finished" ELSE "delete", excess |-> 0, keys |-> keys]

\* Faulty variant: one key too few is selected.
SelectFewer(e) ==
    /\ enforcer[e].pc = "counted"
    /\ enforcer' = [enforcer EXCEPT ![e] = Deleting(KeyRange(0, enforcer[e].excess - 2))]
    /\ UNCHANGED <<dataVars, creating, done, copy, failures, ghostVars>>

\* ZRANGE 0 to_remove: one key more than the index has too many.
Select(e) ==
    /\ enforcer[e].pc = "counted"
    /\ enforcer' = [enforcer EXCEPT ![e] = Deleting(KeyRange(0, enforcer[e].excess))]
    /\ UNCHANGED <<dataVars, creating, done, copy, failures, ghostVars>>

\* Faulty variant: the record is left to expire.
KeepRecord(e) ==
    /\ enforcer[e].pc = "delete"
    /\ enforcer' = [enforcer EXCEPT ![e].pc = "unindex"]
    /\ UNCHANGED <<dataVars, creating, done, copy, failures, ghostVars>>

\* DEL of the record, key by key ...
DeleteRecord(e) ==
    LET j == At(e)
    IN  /\ enforcer[e].pc = "delete"
        /\ records' = [records EXCEPT ![j] = Absent]
        /\ overlapped' = IF Holders(j) = {} /\ Adding(j) = {} THEN overlapped
                         ELSE overlapped \cup {j}
        /\ enforcer' = [enforcer EXCEPT ![e].pc = "unindex"]
    /\ UNCHANGED <<index, creating, done, copy, failures, uncounted>>

\* ... then ZREM.  The DEL of its logs, on a key of their own, has no effect here.
RemoveFromIndex(e) ==
    /\ enforcer[e].pc = "unindex"
    /\ index' = Without(At(e))
    /\ enforcer' = [enforcer EXCEPT ![e] = Deleting(@.keys \ {First(@.keys)})]
    /\ UNCHANGED <<records, creating, done, copy, failures, ghostVars>>

\* A command fails: the rest is left to the task of the next create_job.
EnforcerFails(e) ==
    /\ enforcer[e].pc \in Active \cup {"spawned"}
    /\ enforcer' = [enforcer EXCEPT ![e].pc = "failed"]
    /\ CommandFails
    /\ UNCHANGED <<dataVars, creating, done, copy, ghostVars>>

-----------------------------------------------------------------------------
Next ==
    \/ \E c \in Creations : \/ SetFresh(c) \/ AddToIndex(c)
                           \/ CreateFails(c) \/ CreateUnanswered(c)
    \/ \E w \in Writers : Read(w) \/ Write(w) \/ WriteFails(w)
    \/ \E e \in Creations : \/ Count(e) \/ Select(e) \/ EnforcerFails(e)
                           \/ DeleteRecord(e) \/ RemoveFromIndex(e)

Spec == Init /\ [][Next]_vars

-----------------------------------------------------------------------------
(* list_jobs without a filter, for the index and records as they are       *)

\* saturating_sub.
Minus(n, m) == IF m > n THEN 0 ELSE n - m

\* The jobs with these scores that have a record.
Shown(range) == {j \in {IdOf[c] : c \in range} : records[j] # Absent}

\* Faulty variant: the end of the range is taken as excluded.
PageOverlaps(offset) ==
    LET total == Cardinality(index)
    IN  Shown(RevRange(Minus(total, offset + Limit), Minus(total, offset)))

Page(offset) ==
    LET total == Cardinality(index)
    IN  Shown(RevRange(Minus(total, offset + Limit), Minus(Minus(total, offset), 1)))

-----------------------------------------------------------------------------
(* Properties                                                              *)

\* Types of the variables.
TypeOK ==
    /\ records \in [Jobs -> Records \cup {Absent}]
    /\ index \subseteq Creations
    /\ creating \in [Creations -> {"new", "set", "created", "failed"}]
    /\ done \in [Writers -> Nat] /\ \A w \in Writers : done[w] <= Len(PlanOf[w])
    /\ copy \in [Writers -> Records \cup {Absent}]
    /\ enforcer \in [Creations -> [pc : Active \cup {"none", "spawned", "finished", "failed"},
                                   excess : Nat, keys : SUBSET Creations]]
    /\ failures \in 0..MaxFailures
    /\ overlapped \subseteq Jobs
    /\ uncounted \subseteq Creations

\* Enforcers that are deleting job j, or failed while they did.
Removing(j) == {e \in Creations : /\ enforcer[e].pc \in {"unindex", "failed"}
                                  /\ enforcer[e].keys # {}
                                  /\ At(e) = j}

\* Every create_job of j that was called has returned, and there was one.
Created(j) ==
    /\ \E c \in Creations : IdOf[c] = j /\ creating[c] = "created"
    /\ \A c \in Creations : IdOf[c] = j => creating[c] \in {"new", "created"}

\* The index and the records agree on every job that was created, once or again,
\* but for a job an enforcer is removing or failed to remove, and for one whose
\* record was deleted or written while another call was at it: a writer with a
\* copy brings a deleted record back, outside the index and for good, and so
\* does a creation between the two commands of an eviction.
IndexMatchesRecords ==
    \A j \in Jobs :
        (/\ Created(j)
         /\ j \notin overlapped
         /\ Removing(j) = {})
        => (Indexed(j) <=> records[j] # Absent)

\* A new submission of j overwrites what was there.
Recreated(j) == \E c \in Creations : IdOf[c] = j /\ creating[c] = "new" /\ creating'[c] = "set"

\* A result that was stored is not lost to a later update of the same job: the
\* record keeps it, unless the calls overlapped (there is no transaction) or the
\* job is created again.
ResultKept ==
    [][\A j \in Jobs :
        (/\ records[j] # Absent
         /\ records[j].result \/ records[j].error
         /\ records'[j] # Absent
         /\ j \notin overlapped'
         /\ ~ Recreated(j))
        => /\ records[j].result => records'[j].result
           /\ records[j].error => records'[j].error]_vars

\* Concurrent enforcers count, select and delete in any order, but once all of
\* them have finished, none by an error, the index is no longer than configured.
\* A creation that adds its job and is broken off spawns no enforcer: the index
\* then has that many jobs too many, until one that is spawned later counts it.
HistoryBounded ==
    (\A e \in Creations : enforcer[e].pc \in {"none", "finished"})
    => Cardinality(index) <= MaxHistory + Cardinality(uncounted)

\* The offsets 0, Limit, 2 * Limit, ... below the number of jobs show every job
\* that has a record exactly once, although each page is cut from the wrong end
\* (the first one has the oldest jobs).
PagesPartition ==
    \A j \in Jobs :
        Indexed(j) /\ records[j] # Absent =>
            Cardinality({p \in 0..(Cardinality(index) - 1) : p % Limit = 0 /\ j \in Page(p)}) = 1
=============================================================================
