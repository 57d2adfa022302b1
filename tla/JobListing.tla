----------------------------- MODULE JobListing -----------------------------
(***************************************************************************)
(* GET /api/v1/jobs: a client goes through the jobs of the in-memory store *)
(* (stores/memory.rs) page by page while jobs are submitted, change their  *)
(* status and are evicted, and while its requests pass the rate limiter.   *)
(*                                                                         *)
(* A page and the total it is answered with are two looks at the store.    *)
(***************************************************************************)
EXTENDS RateLimiter, SequencesExt

CONSTANTS
    Jobs,
    MaxHistory, \* store.max_history
    Asked,      \* the limit the client asks for
    MaxPage,    \* the largest limit that is granted
    NoCall      \* no request is under way

ASSUME ListingAssumption ==
    /\ MaxHistory \in Nat
    /\ {Asked, MaxPage} \subseteq Nat \ {0}

VARIABLES
    history,    \* the stored jobs, newest first
    matching,   \* stored jobs that match the status filter of the client
    client,     \* "idle", "asking", "waiting", "counting" or "finished"
    call,       \* the request that asks for the page
    offset,     \* the page
    seen,       \* jobs on the pages so far
    throughout, \* jobs that have matched since the client began
    left        \* a stored job has ceased to match since the client began

storeVars == <<history, matching>>
clientVars == <<client, call, offset, seen>>
listingVars == <<storeVars, clientVars, throughout, left>>
vars == <<limiterVars, listingVars>>

Init ==
    /\ LimiterInit
    /\ history = << >>
    /\ matching = {}
    /\ client = "idle"
    /\ call = NoCall
    /\ offset = 0
    /\ seen = {}
    /\ throughout = {}
    /\ left = FALSE

Limiter == LimiterNext /\ UNCHANGED listingVars

-----------------------------------------------------------------------------
(* The store                                                               *)

\* create_job: a new job is the newest, unless the wall clock was set back.
\* enforce_max_history keeps the newest, possibly without the new one.
Create(j, place, matches) ==
    LET all == InsertAt(history, place, j)
        kept == IF Len(all) > MaxHistory THEN SubSeq(all, 1, MaxHistory) ELSE all
    IN  /\ j \notin ToSet(history)
        /\ j \notin seen \cup throughout
        /\ history' = kept
        /\ matching' = (IF matches THEN matching \cup {j} ELSE matching) \cap ToSet(kept)
        /\ throughout' = throughout \cap ToSet(kept)
        /\ UNCHANGED <<limiterVars, clientVars, left>>

\* The status of a job changes to one of the filter, or from it.
Join(j) ==
    /\ j \in ToSet(history) \ matching
    /\ matching' = matching \cup {j}
    /\ UNCHANGED <<limiterVars, history, clientVars, throughout, left>>

Leave(j) ==
    /\ j \in matching
    /\ matching' = matching \ {j}
    /\ throughout' = throughout \ {j}
    /\ left' = (left \/ client # "idle")
    /\ UNCHANGED <<limiterVars, history, clientVars>>

\* Faulty variant: the oldest jobs come first.
Older(j) == {k \in matching : \E g, h \in DOMAIN history :
                                 g > h /\ history[g] = k /\ history[h] = j}

\* list_jobs: newest first, so a job comes after the matching ones that are newer.
Ahead(j) == {k \in matching : \E g, h \in DOMAIN history :
                                 g < h /\ history[g] = k /\ history[h] = j}

PageSize == IF Asked > MaxPage THEN MaxPage ELSE Asked

\* skip(offset), take(limit).
Page == {j \in matching : Cardinality(Ahead(j)) \in offset..(offset + PageSize - 1)}

\* count_jobs
Total == Cardinality(matching)

-----------------------------------------------------------------------------
(* The client                                                              *)

Begin ==
    /\ client = "idle"
    /\ client' = "asking"
    /\ throughout' = matching
    /\ UNCHANGED <<limiterVars, storeVars, call, offset, seen, left>>

Ask(c) ==
    /\ client = "asking"
    /\ phase[c] = "new"
    /\ client' = "waiting"
    /\ call' = c
    /\ UNCHANGED <<limiterVars, storeVars, offset, seen, throughout, left>>

\* The request is refused or lost: the client asks for the page again.
Fail ==
    /\ client = "waiting"
    /\ phase[call] \in {"limited", "gone", "unauthorized"}
    /\ client' = "asking"
    /\ call' = NoCall
    /\ UNCHANGED <<limiterVars, storeVars, offset, seen, throughout, left>>

\* The handler reads the page ...
List ==
    /\ client = "waiting"
    /\ phase[call] \in {"admitted", "open"}
    /\ client' = "counting"
    /\ seen' = seen \cup Page
    /\ UNCHANGED <<limiterVars, storeVars, call, offset, throughout, left>>

\* ... and then the total.  The client goes on with the limit and the total of
\* the answer.
Count ==
    /\ client = "counting"
    /\ call' = NoCall
    /\ IF offset + PageSize < Total
       THEN client' = "asking" /\ offset' = offset + PageSize
       ELSE client' = "finished" /\ UNCHANGED offset
    /\ UNCHANGED <<limiterVars, storeVars, seen, throughout, left>>

Next ==
    \/ Limiter
    \/ \E j \in Jobs : \E place \in 1..(Len(history) + 1), matches \in BOOLEAN :
          Create(j, place, matches)
    \/ \E j \in Jobs : Join(j) \/ Leave(j)
    \/ Begin \/ (\E c \in Calls : Ask(c)) \/ Fail \/ List \/ Count

Spec == Init /\ [][Next]_vars

-----------------------------------------------------------------------------
(* Properties                                                              *)

\* Types; the store never holds more than the configured history.
TypeOK ==
    /\ LimiterTypeOK
    /\ history \in Seq(Jobs) /\ Len(history) <= MaxHistory
    /\ matching \subseteq ToSet(history)
    /\ client \in {"idle", "asking", "waiting", "counting", "finished"}
    /\ call \in Calls \cup {NoCall}
    /\ offset \in Nat
    /\ seen \subseteq Jobs
    /\ throughout \subseteq matching
    /\ left \in BOOLEAN

\* A client that has gone through all pages has seen every job that was stored
\* and matched its filter from the first page to the last, although jobs arrive
\* in front of those it has yet to see and old ones are evicted, unless a job
\* left the filter meanwhile, which moves the others to a page already read.
\* Without a filter no job does.
NothingSkipped ==
    (client = "finished" /\ ~left) => throughout \subseteq seen
=============================================================================
