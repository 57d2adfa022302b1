-------------------------- MODULE JobListingProofs --------------------------
(***************************************************************************)
(* Theorems about JobListing and the RateLimiter its requests pass, for    *)
(* every finite set of requests, every limit, window and delay, and every  *)
(* set of jobs, history and page size.                                     *)
(*                                                                         *)
(* The limit on a window follows from two facts that the limiter keeps for *)
(* each key: the requests it counts are no more than the limit, and every  *)
(* request admitted less than a window ago, less the longest wait for the  *)
(* lock, is among them.                                                    *)
(*                                                                         *)
(* That no job is skipped follows from where the jobs are that the client  *)
(* has yet to see: as long as none leaves the filter, the matching jobs    *)
(* ahead of such a job become no fewer, so it stays on a page to come.     *)
(***************************************************************************)
EXTENDS JobListing, FiniteSetTheorems, SequenceTheorems, TLAPS

-----------------------------------------------------------------------------
(* The limiter                                                             *)

\* A request is counted at most MaxDelay after the time it has taken.
TimesOrdered ==
    \A c \in Calls :
        /\ phase[c] = "waiting" => stamp[c] <= clock /\ clock - stamp[c] <= MaxDelay
        /\ phase[c] = "admitted" => /\ stamp[c] <= at[c] /\ at[c] <= clock
                                    /\ at[c] - stamp[c] <= MaxDelay

RecentCounted ==
    \A c \in Calls :
        phase[c] = "admitted" /\ clock - at[c] < Window - MaxDelay => c \in requests[key[c]]

CountBounded == \A k \in Keys : Cardinality(requests[k]) <= AtLeastOne(Limit)

LimiterInv ==
    /\ LimiterTypeOK
    /\ TimesOrdered
    /\ RecentCounted
    /\ CountBounded
    /\ WindowLimit
    /\ RefusedForAReason

-----------------------------------------------------------------------------
(* Lemmas about the limiter                                                *)

\* Every set of requests is finite, and a part of it is no larger.
LEMMA CallSets ==
    ASSUME NEW S \in SUBSET Calls, NEW T \in SUBSET S
    PROVE  /\ IsFiniteSet(S) /\ Cardinality(S) \in Nat
           /\ IsFiniteSet(T) /\ Cardinality(T) \in Nat
           /\ Cardinality(T) <= Cardinality(S)
BY LimiterAssumption, FS_Subset, FS_CardinalityType

LEMMA AtLeastOneType == AtLeastOne(Limit) \in Nat /\ AtLeastOne(Limit) >= 1 /\ AtLeastOne(Limit) >= Limit
BY LimiterAssumption DEF AtLeastOne

\* Forgetting old requests keeps those that RecentCounted is about: what a
\* request had waited for the lock is allowed for in its bound.
LEMMA RecentKept ==
    ASSUME LimiterTypeOK, TimesOrdered, RecentCounted,
           NEW c \in Calls, phase[c] = "waiting",
           NEW d \in Calls, phase[d] = "admitted", key[d] = key[c],
           clock - at[d] < Window - MaxDelay
    PROVE  d \in Kept(c)
<1>1. d \in requests[key[c]]
  BY DEF RecentCounted
<1>2. /\ stamp[c] <= clock
      /\ at[d] - stamp[d] <= MaxDelay
  BY DEF TimesOrdered
<1>3. {clock, stamp[c], stamp[d], at[d], Window, MaxDelay} \subseteq Nat
  BY LimiterAssumption DEF LimiterTypeOK
<1>4. Age(d, c) < Window
  BY <1>2, <1>3, LimiterAssumption DEF Age
<1>5. QED
  BY <1>1, <1>4 DEF Kept

\* A step that leaves all requests as they are but for one that is neither
\* admitted nor refused, before and after, keeps what is said of the others.
LEMMA Bystander ==
    ASSUME LimiterTypeOK, WindowLimit, RefusedForAReason,
           NEW c \in Calls,
           phase[c] \notin {"admitted", "limited"}, phase'[c] \notin {"admitted", "limited"},
           \A d \in Calls \ {c} : phase'[d] = phase[d] /\ stamp'[d] = stamp[d],
           key' = key, at' = at
    PROVE  WindowLimit' /\ RefusedForAReason'
<1>1. ASSUME NEW e \in Calls, phase'[e] = "admitted"
      PROVE  Recent(e)' = Recent(e)
  BY <1>1 DEF Recent
<1>2. ASSUME NEW e \in Calls, phase'[e] = "limited"
      PROVE  Against(e)' = Against(e)
  BY <1>2 DEF Against
<1>3. \A e \in Calls : phase'[e] \in {"admitted", "limited"} => phase[e] = phase'[e]
  OBVIOUS
<1>4. WindowLimit'
  BY <1>1, <1>3 DEF WindowLimit
<1>5. RefusedForAReason'
  BY <1>2, <1>3 DEF RefusedForAReason
<1>6. QED
  BY <1>4, <1>5

-----------------------------------------------------------------------------
(* The invariant of the limiter                                            *)

LEMMA LimiterInitially == LimiterInit => LimiterInv
<1> SUFFICES ASSUME LimiterInit PROVE LimiterInv
  OBVIOUS
<1> USE LimiterAssumption DEF LimiterInit
<1>1. LimiterTypeOK
  BY DEF LimiterTypeOK, Phases
<1>2. CountBounded
  BY FS_EmptySet, AtLeastOneType DEF CountBounded
<1>3. TimesOrdered /\ RecentCounted /\ WindowLimit /\ RefusedForAReason
  BY DEF TimesOrdered, RecentCounted, WindowLimit, RefusedForAReason
<1>4. QED
  BY <1>1, <1>2, <1>3 DEF LimiterInv

\* The sets that admitting c leaves behind.
LEMMA AdmitCounts ==
    ASSUME LimiterInv, NEW c \in Calls, Admit(c)
    PROVE  LimiterTypeOK' /\ TimesOrdered' /\ RecentCounted' /\ CountBounded'
<1> USE DEF Admit
<1>1. LimiterTypeOK'
  BY LimiterAssumption DEF LimiterInv, LimiterTypeOK, TimesOrdered, Kept, Phases
<1>2. TimesOrdered'
  BY LimiterAssumption DEF LimiterInv, TimesOrdered, LimiterTypeOK
<1>3. RecentCounted'
  <2> SUFFICES ASSUME NEW d \in Calls, phase'[d] = "admitted",
                      clock' - at'[d] < Window - MaxDelay
               PROVE  d \in requests'[key'[d]]
    BY DEF RecentCounted
  <2>1. CASE d = c
    BY <2>1 DEF LimiterInv, LimiterTypeOK
  <2>2. CASE d # c /\ key[d] # key[c]
    BY <2>2 DEF LimiterInv, LimiterTypeOK, RecentCounted
  <2>3. CASE d # c /\ key[d] = key[c]
    <3>1. d \in Kept(c)
      BY <2>3, RecentKept DEF LimiterInv, LimiterTypeOK
    <3>2. QED
      BY <2>3, <3>1 DEF LimiterInv, LimiterTypeOK
  <2>4. QED
    BY <2>1, <2>2, <2>3
<1>4. CountBounded'
  <2> SUFFICES ASSUME NEW k \in Keys
               PROVE  Cardinality(requests'[k]) <= AtLeastOne(Limit)
    BY DEF CountBounded, AtLeastOne
  <2>1. CASE k # key[c]
    BY <2>1 DEF LimiterInv, CountBounded, LimiterTypeOK
  <2>2. CASE k = key[c]
    <3>1. /\ Kept(c) \in SUBSET Calls
          /\ c \notin Kept(c)
      BY DEF LimiterInv, LimiterTypeOK, Kept
    <3>2. Cardinality(requests'[k]) = Cardinality(Kept(c)) + 1
      BY <2>2, <3>1, CallSets, FS_AddElement DEF LimiterInv, LimiterTypeOK
    <3>3. CASE key[c] \notin known
      <4>1. Kept(c) = {}
        BY <3>3 DEF LimiterInv, LimiterTypeOK, Kept
      <4>2. QED
        BY <3>2, <4>1, FS_EmptySet, AtLeastOneType
    <3>4. CASE Cardinality(Kept(c)) < Limit
      <4>1. Cardinality(Kept(c)) \in Nat
        BY <3>1, CallSets
      <4>2. QED
        BY <3>2, <3>4, <4>1, AtLeastOneType, LimiterAssumption
    <3>5. QED
      BY <3>3, <3>4 DEF Allowed
  <2>3. QED
    BY <2>1, <2>2
<1>5. QED
  BY <1>1, <1>2, <1>3, <1>4

\* A window that reaches up to now has nothing but requests that are counted.
LEMMA AdmitWindow ==
    ASSUME LimiterInv, NEW c \in Calls, Admit(c)
    PROVE  WindowLimit'
<1>1. LimiterTypeOK' /\ TimesOrdered' /\ RecentCounted' /\ CountBounded'
  BY AdmitCounts
<1> SUFFICES ASSUME NEW e \in Calls, phase'[e] = "admitted"
             PROVE  Cardinality(Recent(e)') <= AtLeastOne(Limit)
  BY DEF WindowLimit, AtLeastOne
<1>2. CASE at'[e] = clock'
  <2>1. requests'[key'[e]] \in SUBSET Calls /\ key'[e] \in Keys
    BY <1>1 DEF LimiterTypeOK
  <2>2. Recent(e)' \in SUBSET requests'[key'[e]]
    BY <1>1, <1>2 DEF Recent, RecentCounted
  <2>3. /\ Cardinality(Recent(e)') <= Cardinality(requests'[key'[e]])
        /\ Cardinality(Recent(e)') \in Nat /\ Cardinality(requests'[key'[e]]) \in Nat
    BY <2>1, <2>2, CallSets
  <2>4. Cardinality(requests'[key'[e]]) <= AtLeastOne(Limit)
    BY <1>1, <2>1 DEF CountBounded, AtLeastOne
  <2>5. QED
    BY <2>3, <2>4, AtLeastOneType
<1>3. CASE at'[e] # clock'
  <2>1. e # c /\ phase[e] = "admitted" /\ at[e] < clock
    BY <1>3 DEF Admit, LimiterInv, LimiterTypeOK, TimesOrdered
  <2>2. Recent(e)' = Recent(e)
    BY <2>1 DEF Recent, Admit, LimiterInv, LimiterTypeOK
  <2>3. QED
    BY <2>1, <2>2 DEF LimiterInv, WindowLimit
<1>4. QED
  BY <1>2, <1>3

LEMMA AdmitRefusals ==
    ASSUME LimiterInv, NEW c \in Calls, Admit(c)
    PROVE  RefusedForAReason'
<1> SUFFICES ASSUME NEW e \in Calls, phase'[e] = "limited"
             PROVE  Cardinality(Against(e)') >= Limit
  BY DEF RefusedForAReason
<1>1. e # c /\ phase[e] = "limited"
  BY DEF Admit, LimiterInv, LimiterTypeOK
<1>2. Against(e) \in SUBSET Against(e)' /\ Against(e)' \in SUBSET Calls
  BY <1>1 DEF Against, Admit, LimiterInv, LimiterTypeOK
<1>3. /\ Cardinality(Against(e)) <= Cardinality(Against(e)')
      /\ Cardinality(Against(e)) \in Nat /\ Cardinality(Against(e)') \in Nat
  BY <1>2, CallSets
<1>4. QED
  BY <1>1, <1>3, LimiterAssumption DEF LimiterInv, RefusedForAReason

\* A refusal changes nothing but what is forgotten.
LEMMA LimitExceededKeeps ==
    ASSUME LimiterInv, NEW c \in Calls, LimitExceeded(c)
    PROVE  LimiterInv'
<1> USE DEF LimitExceeded
<1>1. Kept(c) \in SUBSET requests[key[c]] /\ Kept(c) \in SUBSET Calls
  BY DEF Kept, LimiterInv, LimiterTypeOK
<1>2. LimiterTypeOK'
  BY <1>1 DEF LimiterInv, LimiterTypeOK, Phases
<1>3. TimesOrdered'
  BY DEF LimiterInv, TimesOrdered, LimiterTypeOK
<1>4. RecentCounted'
  <2> SUFFICES ASSUME NEW d \in Calls, phase'[d] = "admitted",
                      clock' - at'[d] < Window - MaxDelay
               PROVE  d \in requests'[key'[d]]
    BY DEF RecentCounted
  <2>1. d # c /\ phase[d] = "admitted"
    BY DEF LimiterInv, LimiterTypeOK
  <2>2. CASE key[d] # key[c]
    BY <2>1, <2>2 DEF LimiterInv, LimiterTypeOK, RecentCounted
  <2>3. CASE key[d] = key[c]
    <3>1. d \in Kept(c)
      BY <2>1, <2>3, RecentKept DEF LimiterInv, LimiterTypeOK
    <3>2. QED
      BY <2>3, <3>1 DEF LimiterInv, LimiterTypeOK
  <2>4. QED
    BY <2>2, <2>3
<1>5. CountBounded'
  <2> SUFFICES ASSUME NEW k \in Keys
               PROVE  Cardinality(requests'[k]) <= AtLeastOne(Limit)
    BY DEF CountBounded, AtLeastOne
  <2>1. requests'[k] \in SUBSET requests[k] /\ requests[k] \in SUBSET Calls
    BY <1>1 DEF LimiterInv, LimiterTypeOK
  <2>2. /\ Cardinality(requests'[k]) <= Cardinality(requests[k])
        /\ Cardinality(requests'[k]) \in Nat /\ Cardinality(requests[k]) \in Nat
    BY <2>1, CallSets
  <2>3. QED
    BY <2>2, AtLeastOneType DEF LimiterInv, CountBounded
<1>6. WindowLimit'
  <2>1. \A e \in Calls : phase'[e] = "admitted" => phase[e] = "admitted" /\ Recent(e)' = Recent(e)
    BY DEF Recent, LimiterInv, LimiterTypeOK
  <2>2. QED
    BY <2>1 DEF LimiterInv, WindowLimit
<1>7. RefusedForAReason'
  <2> SUFFICES ASSUME NEW e \in Calls, phase'[e] = "limited"
               PROVE  Cardinality(Against(e)') >= Limit
    BY DEF RefusedForAReason
  <2>1. Against(e)' = Against(e) /\ Against(e) \in SUBSET Calls
    BY DEF Against, LimiterInv, LimiterTypeOK
  <2>2. CASE e # c
    BY <2>1, <2>2 DEF LimiterInv, LimiterTypeOK, RefusedForAReason
  <2>3. CASE e = c
    <3>1. Kept(c) \in SUBSET Against(e)
      <4> SUFFICES ASSUME NEW d \in Kept(c) PROVE d \in Against(c)
        BY <2>3
      <4>1. d \in requests[key[c]] /\ Age(d, c) < Window
        BY DEF Kept
      <4>2. d \in Calls /\ phase[d] = "admitted" /\ key[d] = key[c]
        BY <4>1 DEF LimiterInv, LimiterTypeOK
      <4>3. stamp[c] - stamp[d] < Window
        BY <4>1, <4>2, LimiterAssumption DEF Age, LimiterInv, LimiterTypeOK
      <4>4. QED
        BY <4>2, <4>3 DEF Against
    <3>2. /\ Cardinality(Kept(c)) <= Cardinality(Against(e))
          /\ Cardinality(Kept(c)) \in Nat /\ Cardinality(Against(e)) \in Nat
      BY <2>1, <3>1, CallSets
    <3>3. Cardinality(Kept(c)) >= Limit
      BY <3>2, LimiterAssumption DEF Allowed
    <3>4. QED
      BY <2>1, <3>2, <3>3, LimiterAssumption
  <2>4. QED
    BY <2>2, <2>3
<1>8. QED
  BY <1>2, <1>3, <1>4, <1>5, <1>6, <1>7 DEF LimiterInv

LEMMA TickKeeps ==
    ASSUME LimiterInv, Tick
    PROVE  LimiterInv'
<1> USE DEF Tick
<1>1. LimiterTypeOK'
  BY LimiterAssumption DEF LimiterInv, LimiterTypeOK
<1>2. TimesOrdered' /\ RecentCounted'
  BY LimiterAssumption DEF LimiterInv, LimiterTypeOK, TimesOrdered, RecentCounted
<1>3. CountBounded'
  BY DEF LimiterInv, CountBounded, AtLeastOne
<1>4. WindowLimit' /\ RefusedForAReason'
  BY DEF LimiterInv, WindowLimit, RefusedForAReason, Recent, Against, AtLeastOne
<1>5. QED
  BY <1>1, <1>2, <1>3, <1>4 DEF LimiterInv

LEMMA LimiterKeeps == LimiterInv /\ [LimiterNext]_limiterVars => LimiterInv'
<1> SUFFICES ASSUME LimiterInv, [LimiterNext]_limiterVars PROVE LimiterInv'
  OBVIOUS
<1>1. CASE Tick
  BY <1>1, TickKeeps
<1>2. ASSUME NEW c \in Calls, PassUnchecked(c) \/ Refuse(c) \/ TakeTime(c) \/ Drop(c)
      PROVE  LimiterInv'
  <2> USE <1>2 DEF PassUnchecked, Refuse, TakeTime, Drop
  <2>1. LimiterTypeOK'
    BY DEF LimiterInv, LimiterTypeOK, Phases
  <2>2. TimesOrdered' /\ RecentCounted'
    BY LimiterAssumption DEF LimiterInv, LimiterTypeOK, TimesOrdered, RecentCounted
  <2>3. CountBounded'
    BY DEF LimiterInv, CountBounded, AtLeastOne
  <2>4. WindowLimit' /\ RefusedForAReason'
    <3>1. /\ phase[c] \notin {"admitted", "limited"}
          /\ phase'[c] \notin {"admitted", "limited"}
          /\ \A d \in Calls \ {c} : phase'[d] = phase[d] /\ stamp'[d] = stamp[d]
          /\ key' = key /\ at' = at
      BY DEF LimiterInv, LimiterTypeOK
    <3>2. QED
      BY <3>1, Bystander DEF LimiterInv
  <2>5. QED
    BY <2>1, <2>2, <2>3, <2>4 DEF LimiterInv
<1>3. ASSUME NEW c \in Calls, Admit(c)
      PROVE  LimiterInv'
  BY <1>3, AdmitCounts, AdmitWindow, AdmitRefusals DEF LimiterInv
<1>4. ASSUME NEW c \in Calls, LimitExceeded(c)
      PROVE  LimiterInv'
  BY <1>4, LimitExceededKeeps
<1>5. CASE UNCHANGED limiterVars
  BY <1>5 DEF limiterVars, LimiterInv, LimiterTypeOK, TimesOrdered, RecentCounted, CountBounded, WindowLimit,
              RefusedForAReason, Recent, Against, AtLeastOne
<1>6. QED
  BY <1>1, <1>2, <1>3, <1>4, <1>5 DEF LimiterNext

LEMMA LimiterHolds == LimiterSpec => []LimiterInv
<1>1. LimiterInit => LimiterInv
  BY LimiterInitially
<1>2. LimiterInv /\ [LimiterNext]_limiterVars => LimiterInv'
  BY LimiterKeeps
<1>3. QED
  BY <1>1, <1>2, PTL DEF LimiterSpec

-----------------------------------------------------------------------------
(* Theorems about the limiter                                              *)

\* No key is admitted more often in a window than the limit says, whatever the
\* order in which requests get the lock (middleware/auth.rs:32-50).
THEOREM LimitHolds == LimiterSpec => []WindowLimit
BY LimiterHolds, PTL DEF LimiterInv

\* No request is refused unless the limit was reached by admitted ones.
THEOREM RefusalsJustified == LimiterSpec => []RefusedForAReason
BY LimiterHolds, PTL DEF LimiterInv

\* The types of the limiter's variables.
THEOREM LimiterTypeCorrect == LimiterSpec => []LimiterTypeOK
BY LimiterHolds, PTL DEF LimiterInv
-----------------------------------------------------------------------------
(* The listing                                                             *)

Distinct == \A g, h \in DOMAIN history : history[g] = history[h] => g = h

\* As long as no job has left the filter, a job that was there all along and was
\* not seen yet is on a page to come.
OnPageToCome ==
    /\ client = "idle" => throughout = {} /\ offset = 0
    /\ ~left /\ client \in {"asking", "waiting"} =>
          \A j \in throughout \ seen : Cardinality(Ahead(j)) >= offset
    /\ ~left /\ client = "counting" =>
          \A j \in throughout \ seen : Cardinality(Ahead(j)) >= offset + PageSize

Inv == /\ LimiterInv
       /\ TypeOK
       /\ Distinct
       /\ OnPageToCome
       /\ NothingSkipped

-----------------------------------------------------------------------------
(* Lemmas about the store                                                  *)

LEMMA PageSizeType == PageSize \in Nat \ {0}
BY ListingAssumption DEF PageSize

\* The elements of a sequence are finitely many.
LEMMA FiniteRange ==
    ASSUME NEW S, NEW s \in Seq(S)
    PROVE  IsFiniteSet(ToSet(s))
<1> DEFINE D == 1 .. Len(s)
<1>1. Len(s) \in Nat /\ DOMAIN s = D /\ s \in [D -> S]
  BY LenProperties
<1>2. IsFiniteSet(D)
  BY <1>1, FS_Interval
<1>3. ToSet(s) = {s[i] : i \in D}
  BY <1>1 DEF ToSet
<1> HIDE DEF D
<1>4. s \in Surjection(D, ToSet(s))
  BY <1>1, <1>3 DEF Surjection
<1>5. QED
  BY <1>2, <1>4, FS_Surjection

\* Every set of matching jobs is finite.
LEMMA MatchingFinite ==
    ASSUME TypeOK
    PROVE  /\ IsFiniteSet(matching)
           /\ \A S \in SUBSET matching : IsFiniteSet(S) /\ Cardinality(S) \in Nat
           /\ \A j : Cardinality(Ahead(j)) \in Nat
<1>1. IsFiniteSet(matching)
  BY FiniteRange, FS_Subset DEF TypeOK
<1>2. \A S \in SUBSET matching : IsFiniteSet(S) /\ Cardinality(S) \in Nat
  BY <1>1, FS_Subset, FS_CardinalityType
<1>3. \A j : Ahead(j) \in SUBSET matching
  BY DEF Ahead
<1>4. QED
  BY <1>1, <1>2, <1>3

\* A larger set of jobs ahead counts no less.
LEMMA AheadGrows ==
    ASSUME TypeOK, TypeOK', NEW j, Ahead(j) \subseteq Ahead(j)'
    PROVE  Cardinality(Ahead(j)) <= Cardinality(Ahead(j)')
<1>1. IsFiniteSet(matching')
  BY FiniteRange, FS_Subset DEF TypeOK
<1>2. Ahead(j)' \in SUBSET matching'
  BY DEF Ahead
<1>3. QED
  BY <1>1, <1>2, FS_Subset

\* Where InsertAt puts what.
LEMMA InsertShape ==
    \A s \in Seq(Jobs), e \in Jobs : \A p \in 1 .. Len(s) + 1 :
        /\ InsertAt(s, p, e) \in Seq(Jobs)
        /\ Len(InsertAt(s, p, e)) = Len(s) + 1
        /\ \A i \in 1 .. Len(s) + 1 :
              InsertAt(s, p, e)[i] = IF i < p THEN s[i] ELSE IF i = p THEN e ELSE s[i - 1]
<1> SUFFICES ASSUME NEW s \in Seq(Jobs), NEW e \in Jobs, NEW p \in 1 .. Len(s) + 1
             PROVE  /\ InsertAt(s, p, e) \in Seq(Jobs)
                    /\ Len(InsertAt(s, p, e)) = Len(s) + 1
                    /\ \A i \in 1 .. Len(s) + 1 :
                          InsertAt(s, p, e)[i] = IF i < p THEN s[i] ELSE IF i = p THEN e ELSE s[i - 1]
  OBVIOUS
<1> DEFINE front == SubSeq(s, 1, p - 1)
           back == SubSeq(s, p, Len(s))
           mid == front \o <<e>>
<1>1. Len(s) \in Nat /\ p \in Int /\ \A i \in 1 .. Len(s) : s[i] \in Jobs
  BY LenProperties, ElementOfSeq
<1>2. /\ front \in Seq(Jobs) /\ Len(front) = p - 1
      /\ \A i \in 1 .. p - 1 : front[i] = s[i]
  <2>1. \A i \in 1 .. p - 1 : s[i] \in Jobs
    BY <1>1
  <2>2. /\ front \in Seq(Jobs) /\ Len(front) = IF 1 <= p - 1 THEN (p - 1) - 1 + 1 ELSE 0
        /\ \A i \in 1 .. (p - 1) - 1 + 1 : front[i] = s[1 + i - 1]
    BY <1>1, <2>1, SubSeqProperties
  <2> HIDE DEF front
  <2>3. QED
    BY <1>1, <2>2
<1>3. /\ back \in Seq(Jobs) /\ Len(back) = Len(s) - p + 1
      /\ \A i \in 1 .. Len(s) - p + 1 : back[i] = s[p + i - 1]
  <2>1. \A i \in p .. Len(s) : s[i] \in Jobs
    BY <1>1
  <2>2. /\ back \in Seq(Jobs) /\ Len(back) = IF p <= Len(s) THEN Len(s) - p + 1 ELSE 0
        /\ \A i \in 1 .. Len(s) - p + 1 : back[i] = s[p + i - 1]
    BY <1>1, <2>1, SubSeqProperties
  <2> HIDE DEF back
  <2>3. QED
    BY <1>1, <2>2
<1>4. <<e>> \in Seq(Jobs) /\ Len(<<e>>) = 1 /\ <<e>>[1] = e
  OBVIOUS
<1> HIDE DEF front, back
<1>5. /\ mid \in Seq(Jobs) /\ Len(mid) = p
      /\ \A i \in 1 .. p : mid[i] = IF i <= p - 1 THEN front[i] ELSE <<e>>[i - (p - 1)]
  <2> DEFINE one == <<e>>
  <2>1. one \in Seq(Jobs) /\ Len(one) = 1
    BY <1>4
  <2> HIDE DEF one
  <2>2. /\ front \o one \in Seq(Jobs) /\ Len(front \o one) = Len(front) + Len(one)
        /\ \A i \in 1 .. Len(front) + Len(one) :
              (front \o one)[i] = IF i <= Len(front) THEN front[i] ELSE one[i - Len(front)]
    BY <1>2, <2>1, ConcatProperties
  <2>3. Len(front) + Len(one) = p
    BY <1>1, <1>2, <2>1
  <2>4. QED
    BY <1>2, <2>2, <2>3 DEF one
<1>6. mid[p] = e /\ \A i \in 1 .. p - 1 : mid[i] = s[i]
  <2>1. p - (p - 1) = 1 /\ ~ (p <= p - 1) /\ p \in 1 .. p
    BY <1>1
  <2>2. mid[p] = <<e>>[p - (p - 1)]
    BY <1>5, <2>1
  <2>3. \A i \in 1 .. p - 1 : i \in 1 .. p /\ i <= p - 1
    BY <1>1
  <2> HIDE DEF mid
  <2>4. QED
    BY <1>2, <1>4, <1>5, <2>1, <2>2, <2>3
<1> HIDE DEF mid
<1>7. /\ mid \o back \in Seq(Jobs) /\ Len(mid \o back) = Len(mid) + Len(back)
      /\ \A i \in 1 .. Len(mid) + Len(back) :
            (mid \o back)[i] = IF i <= Len(mid) THEN mid[i] ELSE back[i - Len(mid)]
  BY <1>3, <1>5, ConcatProperties
<1>8. Len(mid) + Len(back) = Len(s) + 1
  BY <1>1, <1>3, <1>5
<1>9. InsertAt(s, p, e) = mid \o back
  BY DEF InsertAt, front, back, mid
<1>10. ASSUME NEW i \in 1 .. Len(s) + 1
       PROVE  (mid \o back)[i] = IF i < p THEN s[i] ELSE IF i = p THEN e ELSE s[i - 1]
  <2>1. CASE i < p
    BY <1>1, <1>5, <1>6, <1>7, <1>8, <2>1
  <2>2. CASE i = p
    BY <1>1, <1>5, <1>6, <1>7, <1>8, <2>2
  <2>3. CASE i > p
    <3>1. (mid \o back)[i] = back[i - p]
      BY <1>1, <1>5, <1>7, <1>8, <2>3
    <3>2. i - p \in 1 .. Len(s) - p + 1 /\ p + (i - p) - 1 = i - 1
      BY <1>1, <2>3
    <3>3. back[i - p] = s[p + (i - p) - 1]
      BY <1>3, <3>2
    <3>4. QED
      BY <1>1, <2>3, <3>1, <3>2, <3>3
  <2>4. i < p \/ i = p \/ i > p
    BY <1>1
  <2>5. QED
    BY <1>1, <2>1, <2>2, <2>3, <2>4, Zenon
<1>11. QED
  BY <1>7, <1>8, <1>9, <1>10

\* Where the jobs are after a new one was put in its place and the history cut.
LEMMA CreateShape ==
    ASSUME TypeOK, NEW j \in Jobs, NEW place \in 1 .. Len(history) + 1, NEW matches \in BOOLEAN,
           Create(j, place, matches)
    PROVE  /\ history' \in Seq(Jobs) /\ Len(history') <= MaxHistory
           /\ Len(history') <= Len(history) + 1 /\ Len(history') \in Nat
           /\ \A i \in 1 .. Len(history') :
                 history'[i] = IF i < place THEN history[i] ELSE IF i = place THEN j ELSE history[i - 1]
           /\ matching' = (IF matches THEN matching \cup {j} ELSE matching) \cap ToSet(history')
           /\ throughout' = throughout \cap ToSet(history')
<1> DEFINE all == InsertAt(history, place, j)
<1>1. history \in Seq(Jobs) /\ Len(history) \in Nat /\ MaxHistory \in Nat
  BY LenProperties, ListingAssumption DEF TypeOK
<1>2. /\ all \in Seq(Jobs) /\ Len(all) = Len(history) + 1
      /\ \A i \in 1 .. Len(history) + 1 :
            all[i] = IF i < place THEN history[i] ELSE IF i = place THEN j ELSE history[i - 1]
  <2>1. history \in Seq(Jobs) /\ place \in 1 .. Len(history) + 1 /\ j \in Jobs
    BY <1>1
  <2> HIDE DEF all
  <2>2. /\ InsertAt(history, place, j) \in Seq(Jobs)
        /\ Len(InsertAt(history, place, j)) = Len(history) + 1
        /\ \A i \in 1 .. Len(history) + 1 :
              InsertAt(history, place, j)[i]
                = IF i < place THEN history[i] ELSE IF i = place THEN j ELSE history[i - 1]
    BY <2>1, InsertShape, Zenon
  <2>3. QED
    BY <2>2 DEF all
<1>3. /\ history' = IF Len(all) > MaxHistory THEN SubSeq(all, 1, MaxHistory) ELSE all
      /\ matching' = (IF matches THEN matching \cup {j} ELSE matching) \cap ToSet(history')
      /\ throughout' = throughout \cap ToSet(history')
  BY DEF Create
<1> HIDE DEF all
<1>4. CASE Len(all) > MaxHistory
  <2>1. \A i \in 1 .. MaxHistory : i \in 1 .. Len(all) /\ all[i] \in Jobs
    BY <1>1, <1>2, <1>4, ElementOfSeq
  <2>2. /\ SubSeq(all, 1, MaxHistory) \in Seq(Jobs)
        /\ Len(SubSeq(all, 1, MaxHistory)) = IF 1 <= MaxHistory THEN MaxHistory - 1 + 1 ELSE 0
        /\ \A i \in 1 .. MaxHistory - 1 + 1 : SubSeq(all, 1, MaxHistory)[i] = all[1 + i - 1]
    BY <1>1, <2>1, SubSeqProperties
  <2>3. /\ history' \in Seq(Jobs) /\ Len(history') = MaxHistory
        /\ \A i \in 1 .. MaxHistory : history'[i] = all[i]
    BY <1>1, <1>3, <1>4, <2>2
  <2>4. MaxHistory <= Len(history) + 1
    BY <1>1, <1>2, <1>4
  <2>5. QED
    BY <1>1, <1>2, <1>3, <2>3, <2>4
<1>5. CASE ~ (Len(all) > MaxHistory)
  BY <1>1, <1>2, <1>3, <1>5
<1>6. QED
  BY <1>4, <1>5

\* What was ahead of a job that is kept is still ahead of it.
LEMMA CreateAhead ==
    ASSUME TypeOK, Distinct, NEW j \in Jobs, NEW place \in 1 .. Len(history) + 1,
           NEW matches \in BOOLEAN, Create(j, place, matches)
    PROVE  /\ Distinct'
           /\ \A k \in throughout' : Ahead(k) \subseteq Ahead(k)'
<1> DEFINE n == Len(history)
           m == Len(history')
<1>1. /\ history' \in Seq(Jobs) /\ m \in Nat /\ m <= n + 1
      /\ \A i \in 1 .. m :
            history'[i] = IF i < place THEN history[i] ELSE IF i = place THEN j ELSE history[i - 1]
      /\ matching' = (IF matches THEN matching \cup {j} ELSE matching) \cap ToSet(history')
      /\ throughout' = throughout \cap ToSet(history')
  BY CreateShape
<1>2. /\ n \in Nat /\ DOMAIN history = 1 .. n /\ DOMAIN history' = 1 .. m
      /\ place \in Nat
  BY <1>1, LenProperties DEF TypeOK
<1>3. \A h \in 1 .. n : history[h] # j
  BY <1>2 DEF Create, ToSet
<1>4. \A g, h \in 1 .. n : history[g] = history[h] => g = h
  BY <1>2 DEF Distinct
<1> HIDE DEF n, m
\* The old place of what is at a place that is not the new job's.
<1>5. ASSUME NEW i \in 1 .. m, i # place
      PROVE  \E h \in 1 .. n : /\ history'[i] = history[h]
                                /\ h = IF i < place THEN i ELSE i - 1
  <2>1. CASE i < place
    <3>1. i \in 1 .. n
      BY <1>2, <2>1 DEF n
    <3>2. QED
      BY <1>1, <2>1, <3>1
  <2>2. CASE i > place
    <3>1. i - 1 \in 1 .. n
      BY <1>1, <1>2, <2>2
    <3>2. history'[i] = history[i - 1]
      BY <1>1, <1>2, <2>2
    <3>3. QED
      BY <1>2, <2>2, <3>1, <3>2
  <2>3. QED
    BY <1>2, <1>5, <2>1, <2>2
<1>6. ASSUME NEW i \in 1 .. m, i = place PROVE history'[i] = j
  BY <1>1, <1>2, <1>6
<1>7. Distinct'
  <2> SUFFICES ASSUME NEW g \in 1 .. m, NEW h \in 1 .. m, history'[g] = history'[h]
               PROVE  g = h
    BY <1>2 DEF Distinct
  <2>1. CASE g = place \/ h = place
    BY <1>3, <1>5, <1>6, <2>1
  <2>2. CASE g # place /\ h # place
    <3>1. (IF g < place THEN g ELSE g - 1) = (IF h < place THEN h ELSE h - 1)
      BY <1>4, <1>5, <2>2
    <3>2. QED
      BY <1>1, <1>2, <2>2, <3>1
  <2>3. QED
    BY <2>1, <2>2
<1>8. ASSUME NEW k \in throughout', NEW a \in Ahead(k)
      PROVE  a \in Ahead(k)'
  <2>1. PICK g \in 1 .. n, h \in 1 .. n : g < h /\ history[g] = a /\ history[h] = k
    BY <1>2 DEF Ahead
  <2>2. a \in matching
    BY DEF Ahead
  <2>3. PICK i \in 1 .. m : history'[i] = k
    BY <1>1, <1>2 DEF ToSet
  <2>4. k # j
    BY <1>3, <2>1
  <2>5. i # place
    BY <1>6, <2>3, <2>4
  <2>6. h = IF i < place THEN i ELSE i - 1
    BY <1>4, <1>5, <2>1, <2>3, <2>5
  <2> DEFINE f == IF g < place THEN g ELSE g + 1
  <2>7. f \in 1 .. m /\ f < i /\ f # place
    BY <1>1, <1>2, <2>1, <2>5, <2>6
  <2>8. history'[f] = a
    <3>1. g = IF f < place THEN f ELSE f - 1
      BY <1>2, <2>1
    <3> HIDE DEF f
    <3>2. QED
      BY <1>5, <2>1, <2>7, <3>1
  <2> HIDE DEF f
  <2>9. a \in matching'
    <3>1. a \in ToSet(history')
      BY <1>2, <2>7, <2>8 DEF ToSet
    <3>2. QED
      BY <1>1, <2>2, <3>1
  <2>10. QED
    BY <1>2, <2>3, <2>7, <2>8, <2>9 DEF Ahead
<1>9. QED
  BY <1>7, <1>8

-----------------------------------------------------------------------------
(* The invariant of the listing                                            *)

LEMMA InitInv == Init => Inv
<1> SUFFICES ASSUME Init PROVE Inv
  OBVIOUS
<1> USE DEF Init
<1>1. LimiterInv
  BY LimiterInitially
<1>2. history \in Seq(Jobs) /\ Len(history) = 0 /\ DOMAIN history = {}
  OBVIOUS
<1>3. TypeOK
  <2>1. matching \subseteq ToSet(history) /\ throughout \subseteq matching /\ seen \subseteq Jobs
    OBVIOUS
  <2>2. Len(history) <= MaxHistory
    BY <1>2, ListingAssumption
  <2>3. QED
    BY <1>1, <1>2, <2>1, <2>2 DEF TypeOK, LimiterInv
<1>4. Distinct /\ OnPageToCome /\ NothingSkipped
  BY <1>2 DEF Distinct, OnPageToCome, NothingSkipped
<1>5. QED
  BY <1>1, <1>3, <1>4 DEF Inv

\* A step of the listing leaves the limiter alone, and the other way round.
LEMMA StepsApart ==
    ASSUME Next
    PROVE  LimiterNext \/ UNCHANGED limiterVars
BY DEF Next, Limiter, Create, Join, Leave, Begin, Ask, Fail, List, Count

\* A step that lets no job see fewer ahead of it, and leaves the client alone.
LEMMA StoreKeeps ==
    ASSUME Inv, TypeOK', UNCHANGED <<clientVars, left>>, throughout' \subseteq throughout,
           \A j \in throughout' : Ahead(j) \subseteq Ahead(j)'
    PROVE  OnPageToCome' /\ NothingSkipped'
<1> USE DEF clientVars
<1>1. \A j \in throughout' : /\ Cardinality(Ahead(j)) <= Cardinality(Ahead(j)')
                             /\ Cardinality(Ahead(j)) \in Nat /\ Cardinality(Ahead(j)') \in Nat
  <2>1. \A j : Cardinality(Ahead(j)) \in Nat
    BY MatchingFinite DEF Inv
  <2>2. \A j : Cardinality(Ahead(j)') \in Nat
    <3>1. IsFiniteSet(matching')
      BY FiniteRange, FS_Subset DEF TypeOK
    <3>2. \A j : Ahead(j)' \in SUBSET matching'
      BY DEF Ahead
    <3>3. QED
      BY <3>1, <3>2, FS_Subset, FS_CardinalityType
  <2>3. QED
    BY <2>1, <2>2, AheadGrows DEF Inv
<1>2. offset \in Nat /\ PageSize \in Nat /\ PageSize' = PageSize
  BY PageSizeType DEF Inv, TypeOK, PageSize
<1>3. OnPageToCome'
  <2>1. client' = "idle" => throughout' = {} /\ offset' = 0
    BY DEF Inv, OnPageToCome
  <2>2. ASSUME ~left', client' \in {"asking", "waiting"}, NEW j \in throughout' \ seen'
        PROVE  Cardinality(Ahead(j)') >= offset'
    <3>1. Cardinality(Ahead(j)) >= offset
      BY <2>2 DEF Inv, OnPageToCome
    <3>2. QED
      BY <1>1, <1>2, <3>1
  <2>3. ASSUME ~left', client' = "counting", NEW j \in throughout' \ seen'
        PROVE  Cardinality(Ahead(j)') >= offset' + PageSize'
    <3>1. Cardinality(Ahead(j)) >= offset + PageSize
      BY <2>3 DEF Inv, OnPageToCome
    <3>2. QED
      BY <1>1, <1>2, <3>1
  <2>4. QED
    BY <2>1, <2>2, <2>3 DEF OnPageToCome
<1>4. NothingSkipped'
  BY DEF Inv, NothingSkipped
<1>5. QED
  BY <1>3, <1>4

LEMMA CreateKeeps ==
    ASSUME Inv, LimiterInv', NEW j \in Jobs, NEW place \in 1 .. Len(history) + 1,
           NEW matches \in BOOLEAN, Create(j, place, matches)
    PROVE  Inv'
<1>1. /\ history' \in Seq(Jobs) /\ Len(history') <= MaxHistory
      /\ matching' = (IF matches THEN matching \cup {j} ELSE matching) \cap ToSet(history')
      /\ throughout' = throughout \cap ToSet(history')
      /\ UNCHANGED <<clientVars, left>>
  BY CreateShape DEF Inv, Create
<1>2. TypeOK'
  <2>1. matching' \subseteq ToSet(history') /\ throughout' \subseteq matching'
    BY <1>1 DEF Inv, TypeOK
  <2>2. QED
    BY <1>1, <2>1 DEF Inv, TypeOK, LimiterInv, clientVars
<1>3. Distinct' /\ \A k \in throughout' : Ahead(k) \subseteq Ahead(k)'
  BY CreateAhead DEF Inv
<1>4. OnPageToCome' /\ NothingSkipped'
  BY <1>1, <1>2, <1>3, StoreKeeps
<1>5. QED
  BY <1>2, <1>3, <1>4 DEF Inv

LEMMA FilterKeeps ==
    ASSUME Inv, LimiterInv', NEW j \in Jobs, Join(j) \/ Leave(j)
    PROVE  Inv'
<1>1. TypeOK' /\ Distinct'
  <2>1. LimiterTypeOK' /\ history' = history /\ UNCHANGED clientVars
    BY DEF LimiterInv, Join, Leave
  <2>2. matching' \subseteq ToSet(history) /\ throughout' \subseteq matching' /\ left' \in BOOLEAN
    BY DEF Inv, TypeOK, Join, Leave
  <2>3. TypeOK'
    BY <2>1, <2>2 DEF Inv, TypeOK, clientVars
  <2>4. QED
    BY <2>1, <2>3 DEF Inv, Distinct
<1>2. CASE Join(j)
  <2>1. \A k \in throughout' : Ahead(k) \subseteq Ahead(k)'
    BY <1>2 DEF Join, Ahead
  <2>2. QED
    BY <1>1, <1>2, <2>1, StoreKeeps DEF Inv, Join
<1>3. CASE Leave(j)
  <2>1. CASE client = "idle"
    BY <1>1, <1>3, <2>1 DEF Inv, Leave, OnPageToCome, NothingSkipped, clientVars
  <2>2. CASE client # "idle"
    BY <1>1, <1>3, <2>2 DEF Inv, Leave, OnPageToCome, NothingSkipped, clientVars
  <2>3. QED
    BY <2>1, <2>2
<1>4. QED
  BY <1>2, <1>3

\* A page: what was to come from here on is now on it, or comes after it.
LEMMA ListKeeps == ASSUME Inv, LimiterInv', List PROVE Inv'
<1> USE DEF List
<1>1. Page \subseteq Jobs /\ matching \subseteq Jobs
  <2>1. ToSet(history) \subseteq Jobs
    BY ElementOfSeq, LenProperties DEF Inv, TypeOK, ToSet
  <2>2. QED
    BY <2>1 DEF Inv, TypeOK, Page
<1>2. TypeOK' /\ Distinct'
  BY <1>1 DEF Inv, LimiterInv, TypeOK, Distinct, storeVars
<1>3. ASSUME ~left, NEW j \in throughout \ seen'
      PROVE  Cardinality(Ahead(j)) >= offset + PageSize
  <2>1. Cardinality(Ahead(j)) >= offset
    BY <1>3 DEF Inv, OnPageToCome
  <2>2. j \notin Page /\ j \in matching
    BY <1>3 DEF Inv, TypeOK
  <2>3. Cardinality(Ahead(j)) \notin offset .. offset + PageSize - 1
    BY <2>2 DEF Page
  <2>4. Cardinality(Ahead(j)) \in Nat /\ offset \in Nat /\ PageSize \in Nat
    BY MatchingFinite, PageSizeType DEF Inv, TypeOK
  <2>5. QED
    BY <2>1, <2>3, <2>4
<1>4. \A j : Ahead(j)' = Ahead(j)
  BY DEF Ahead, storeVars
<1>5. OnPageToCome' /\ NothingSkipped'
  BY <1>3, <1>4 DEF OnPageToCome, NothingSkipped, PageSize
<1>6. QED
  BY <1>2, <1>5 DEF Inv

\* The total: when no page follows, no job is left to come.
LEMMA CountKeeps == ASSUME Inv, LimiterInv', Count PROVE Inv'
<1> USE DEF Count
<1>1. offset \in Nat /\ PageSize \in Nat /\ Total \in Nat
  BY MatchingFinite, PageSizeType DEF Inv, TypeOK, Total
<1>2. TypeOK' /\ Distinct'
  BY <1>1 DEF Inv, LimiterInv, TypeOK, Distinct, storeVars
<1>3. \A j : Ahead(j)' = Ahead(j)
  BY DEF Ahead, storeVars
<1>4. CASE client' = "asking" /\ offset' = offset + PageSize
  BY <1>2, <1>3, <1>4 DEF Inv, OnPageToCome, NothingSkipped, PageSize
<1>5. CASE client' = "finished" /\ ~ (offset + PageSize < Total)
  <2>1. ASSUME ~left, NEW j \in throughout, j \notin seen PROVE FALSE
    <3>1. Cardinality(Ahead(j)) >= offset + PageSize
      BY <2>1 DEF Inv, OnPageToCome
    <3>2. j \in matching /\ j \notin Ahead(j) /\ Ahead(j) \in SUBSET matching
      BY DEF Inv, TypeOK, Ahead, Distinct
    <3>3. Cardinality(Ahead(j)) < Total
      <4>1. /\ Cardinality(Ahead(j)) <= Cardinality(matching)
            /\ Cardinality(matching) = Cardinality(Ahead(j)) => matching = Ahead(j)
            /\ Cardinality(Ahead(j)) \in Nat
        BY <3>2, MatchingFinite, FS_Subset DEF Inv
      <4>2. QED
        BY <1>1, <3>2, <4>1 DEF Total
    <3>4. Cardinality(Ahead(j)) \in Nat
      BY MatchingFinite DEF Inv
    <3>5. QED
      BY <1>1, <1>5, <3>1, <3>3, <3>4
  <2>2. OnPageToCome' /\ NothingSkipped'
    BY <1>5, <2>1 DEF OnPageToCome, NothingSkipped
  <2>3. QED
    BY <1>2, <2>2 DEF Inv
<1>6. QED
  BY <1>2, <1>4, <1>5 DEF Inv

LEMMA ClientKeeps ==
    ASSUME Inv, LimiterInv',
           \/ Begin \/ (\E c \in Calls : Ask(c)) \/ Fail
           \/ UNCHANGED listingVars
    PROVE  Inv'
<1> USE DEF Begin, Ask, Fail, listingVars, clientVars, storeVars
<1>1. TypeOK' /\ Distinct'
  BY DEF Inv, LimiterInv, TypeOK, Distinct
<1>2. \A j : Ahead(j)' = Ahead(j) /\ Cardinality(Ahead(j)) \in Nat
  BY MatchingFinite DEF Ahead, Inv
<1>3. OnPageToCome' /\ NothingSkipped'
  BY <1>2 DEF Inv, OnPageToCome, NothingSkipped, PageSize
<1>4. QED
  BY <1>1, <1>3 DEF Inv

LEMMA NextInv == ASSUME Inv, [Next]_vars PROVE Inv'
<1>1. LimiterInv'
  <2>1. [LimiterNext]_limiterVars
    BY StepsApart DEF vars
  <2>2. QED
    BY <2>1, LimiterKeeps DEF Inv
<1>2. CASE Limiter \/ UNCHANGED vars
  BY <1>1, <1>2, ClientKeeps DEF Limiter, vars
<1>3. CASE \E j \in Jobs : \E place \in 1..(Len(history) + 1), matches \in BOOLEAN :
             Create(j, place, matches)
  BY <1>1, <1>3, CreateKeeps
<1>4. CASE \E j \in Jobs : Join(j) \/ Leave(j)
  BY <1>1, <1>4, FilterKeeps
<1>5. CASE Begin \/ (\E c \in Calls : Ask(c)) \/ Fail
  BY <1>1, <1>5, ClientKeeps
<1>6. CASE List
  BY <1>1, <1>6, ListKeeps
<1>7. CASE Count
  BY <1>1, <1>7, CountKeeps
<1>8. QED
  BY <1>2, <1>3, <1>4, <1>5, <1>6, <1>7 DEF Next

LEMMA InvHolds == Spec => []Inv
BY InitInv, NextInv, PTL DEF Spec

-----------------------------------------------------------------------------
(* Theorems about the listing                                              *)

\* What the limiter promises holds while clients page through the jobs.
THEOREM ListingIsLimited == Spec => LimiterSpec
<1>1. Init => LimiterInit
  BY DEF Init
<1>2. [Next]_vars => [LimiterNext]_limiterVars
  BY StepsApart DEF vars
<1>3. QED
  BY <1>1, <1>2, PTL DEF Spec, LimiterSpec

\* The variables keep their types; the store never exceeds its history.
THEOREM ListingTypeCorrect == Spec => []TypeOK
BY InvHolds, PTL DEF Inv

\* A client that reads page after page misses no job that matched its filter all
\* the while, however many jobs arrive or are evicted meanwhile, unless one left
\* the filter.
THEOREM NoJobIsSkipped == Spec => []NothingSkipped
BY InvHolds, PTL DEF Inv
=============================================================================
