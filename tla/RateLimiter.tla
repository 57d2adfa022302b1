----------------------------- MODULE RateLimiter -----------------------------
(***************************************************************************)
(* middleware/auth.rs and check_auth of routes/api.rs: every endpoint asks *)
(* for an API key and admits a number of requests per key and window.      *)
(*                                                                         *)
(* A request takes the time before it waits for the lock of the limiter,   *)
(* so requests are counted in an order that their times need not have.     *)
(***************************************************************************)
EXTENDS Integers, FiniteSets

CONSTANTS
    Calls,      \* requests to the API
    Keys,       \* what a request may present as its key
    Configured, \* the sets of keys that a configuration may have
    Limit,      \* rate_limit_per_minute
    Window,     \* the window of the limiter, in ticks of the clock
    MaxDelay,   \* bound of the ticks a request waits for the lock
    MaxTime     \* bound of the clock

ASSUME LimiterAssumption ==
    /\ IsFiniteSet(Calls)
    /\ Configured \subseteq SUBSET Keys
    /\ {Limit, Window, MaxDelay, MaxTime} \subseteq Nat
    /\ MaxDelay < Window

VARIABLES
    apiKeys,    \* the keys of the configuration; none of them: no authentication
    clock,      \* Instant::now()
    key,        \* the key each request has presented
    phase,      \* progress of each request
    stamp,      \* the time each request has taken
    at,         \* when each request was admitted
    known,      \* keys that have an entry
    requests    \* the entry of each key: the requests counted

limiterVars == <<apiKeys, clock, key, phase, stamp, at, known, requests>>

Phases == {"new", "waiting", "admitted", "limited", "unauthorized", "open", "gone"}

LimiterInit ==
    /\ apiKeys \in Configured
    /\ clock = 0
    /\ key \in [Calls -> Keys]
    /\ phase = [c \in Calls |-> "new"]
    /\ stamp = [c \in Calls |-> 0]
    /\ at = [c \in Calls |-> 0]
    /\ known = {}
    /\ requests = [k \in Keys |-> {}]

Tick ==
    /\ clock < MaxTime
    /\ \A c \in Calls : phase[c] = "waiting" => clock - stamp[c] < MaxDelay
    /\ clock' = clock + 1
    /\ UNCHANGED <<apiKeys, key, phase, stamp, at, known, requests>>

\* check_auth without configured keys.
PassUnchecked(c) ==
    /\ phase[c] = "new"
    /\ apiKeys = {}
    /\ phase' = [phase EXCEPT ![c] = "open"]
    /\ UNCHANGED <<apiKeys, clock, key, stamp, at, known, requests>>

\* A key that is missing or is not one of the configuration: 401.
Refuse(c) ==
    /\ phase[c] = "new"
    /\ apiKeys # {} /\ key[c] \notin apiKeys
    /\ phase' = [phase EXCEPT ![c] = "unauthorized"]
    /\ UNCHANGED <<apiKeys, clock, key, stamp, at, known, requests>>

\* check() takes the time and asks for the lock.
TakeTime(c) ==
    /\ phase[c] = "new"
    /\ key[c] \in apiKeys
    /\ phase' = [phase EXCEPT ![c] = "waiting"]
    /\ stamp' = [stamp EXCEPT ![c] = clock]
    /\ UNCHANGED <<apiKeys, clock, key, at, known, requests>>

\* The age of a request at the time c has taken; duration_since saturates.
Age(d, c) == IF stamp[d] > stamp[c] THEN 0 ELSE stamp[c] - stamp[d]

\* Faulty variant: old requests are not forgotten.
KeptAll(c) == requests[key[c]]

Kept(c) == {d \in requests[key[c]] : Age(d, c) < Window}

\* A key without an entry gets one, whatever the limit.
Allowed(c) == key[c] \notin known \/ Cardinality(Kept(c)) < Limit

\* Faulty variant: a request at the limit is let through.
AdmitAtLimit(c) ==
    /\ phase[c] = "waiting"
    /\ key[c] \notin known \/ Cardinality(Kept(c)) <= Limit
    /\ phase' = [phase EXCEPT ![c] = "admitted"]
    /\ at' = [at EXCEPT ![c] = clock]
    /\ known' = known \cup {key[c]}
    /\ requests' = [requests EXCEPT ![key[c]] = Kept(c) \cup {c}]
    /\ UNCHANGED <<apiKeys, clock, key, stamp>>

\* Under the lock: old requests are forgotten and this one is counted.
Admit(c) ==
    /\ phase[c] = "waiting"
    /\ Allowed(c)
    /\ phase' = [phase EXCEPT ![c] = "admitted"]
    /\ at' = [at EXCEPT ![c] = clock]
    /\ known' = known \cup {key[c]}
    /\ requests' = [requests EXCEPT ![key[c]] = Kept(c) \cup {c}]
    /\ UNCHANGED <<apiKeys, clock, key, stamp>>

\* Faulty variant: a refused request is counted as well, by the name it has.
LimitCounting(c) ==
    /\ phase[c] = "waiting"
    /\ ~Allowed(c)
    /\ phase' = [phase EXCEPT ![c] = "limited"]
    /\ requests' = [requests EXCEPT ![key[c]] = Kept(c) \cup {c}]
    /\ UNCHANGED <<apiKeys, clock, key, stamp, at, known>>

\* Old requests are forgotten, but there are too many: 429.
LimitExceeded(c) ==
    /\ phase[c] = "waiting"
    /\ ~Allowed(c)
    /\ phase' = [phase EXCEPT ![c] = "limited"]
    /\ requests' = [requests EXCEPT ![key[c]] = Kept(c)]
    /\ UNCHANGED <<apiKeys, clock, key, stamp, at, known>>

\* The client goes away while its request waits for the lock.
Drop(c) ==
    /\ phase[c] = "waiting"
    /\ phase' = [phase EXCEPT ![c] = "gone"]
    /\ UNCHANGED <<apiKeys, clock, key, stamp, at, known, requests>>

LimiterNext ==
    \/ Tick
    \/ \E c \in Calls : \/ PassUnchecked(c) \/ Refuse(c) \/ TakeTime(c)
                        \/ Admit(c) \/ LimitExceeded(c) \/ Drop(c)

LimiterSpec == LimiterInit /\ [][LimiterNext]_limiterVars

-----------------------------------------------------------------------------
(* Properties                                                              *)

\* Types; only keys of the configuration get as far as the limiter, and only
\* admitted requests of a known key are counted.
LimiterTypeOK ==
    /\ apiKeys \subseteq Keys
    /\ clock \in 0..MaxTime
    /\ key \in [Calls -> Keys]
    /\ phase \in [Calls -> Phases]
    /\ stamp \in [Calls -> 0..MaxTime]
    /\ at \in [Calls -> 0..MaxTime]
    /\ known \subseteq apiKeys
    /\ requests \in [Keys -> SUBSET Calls]
    /\ \A k \in Keys : \A c \in requests[k] :
          key[c] = k /\ phase[c] = "admitted" /\ k \in known
    /\ \A c \in Calls : phase[c] \in {"waiting", "admitted", "limited"} => key[c] \in apiKeys

AtLeastOne(n) == IF n = 0 THEN 1 ELSE n

\* Requests of the same key admitted up to the admission of c and less than a
\* window before it, less the time that one may have waited for the lock.
Recent(c) == {d \in Calls : /\ phase[d] = "admitted"
                            /\ key[d] = key[c]
                            /\ at[d] <= at[c]
                            /\ at[c] - at[d] < Window - MaxDelay}

\* Whatever the order in which requests get the lock, a key is admitted no more
\* often in a window than the limit says (once if it says never), where waiting
\* for the lock shortens the window by the time waited.
WindowLimit ==
    \A c \in Calls : phase[c] = "admitted" => Cardinality(Recent(c)) <= AtLeastOne(Limit)

\* Requests that count against c: admitted for its key, with a time less than a
\* window before that of c, or after it.
Against(c) == {d \in Calls : /\ phase[d] = "admitted"
                             /\ key[d] = key[c]
                             /\ stamp[c] - stamp[d] < Window}

\* A request is refused only for requests that were admitted, at least as many as
\* the limit: refused ones do not count, and none counts longer than a window.
RefusedForAReason ==
    \A c \in Calls : phase[c] = "limited" => Cardinality(Against(c)) >= Limit
=============================================================================
