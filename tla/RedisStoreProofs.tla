-------------------------- MODULE RedisStoreProofs --------------------------
(***************************************************************************)
(* Theorems about RedisStore, for every set of jobs and writers, and       *)
(* however many commands fail.                                             *)
(*                                                                         *)
(* What a writer holds is what the server has, unless the job is marked as *)
(* overlapped; what an enforcer has deleted stays deleted, with the same   *)
(* exception; and as long as the index is too long some enforcer answers   *)
(* for the jobs in excess.                                                 *)
(***************************************************************************)
EXTENDS RedisStore, FiniteSetTheorems, WellFoundedInduction, TLAPS

\* A job that is being created has a record, unless calls overlapped; the
\* enforcer of a creation starts when it returns, and the index has a job once.
CreationsKnown ==
    /\ \A c \in Creations : creating[c] = "set" /\ IdOf[c] \notin overlapped => records[IdOf[c]] # Absent
    /\ \A c \in Creations : creating[c] # "created" => enforcer[c] = Idle
    /\ \A c, d \in index : IdOf[c] = IdOf[d] => c = d
    /\ \A c \in uncounted : creating[c] = "failed"

\* A copy is fresh, and a deleted record is gone, unless calls overlapped.
CopiesFresh ==
    \A w \in Writers : copy[w] # Absent =>
        /\ done[w] + 1 \in DOMAIN PlanOf[w]
        /\ Target[w] \notin overlapped => records[Target[w]] = copy[w]

DeletedIsGone ==
    \A e \in Creations : enforcer[e].pc = "unindex" =>
        At(e) \in overlapped \/ records[At(e)] = Absent

\* What the steps of an enforcer have to work with.
KeysMatchProgress ==
    \A e \in Creations : /\ enforcer[e].pc \in {"delete", "unindex"} => enforcer[e].keys # {}
                         /\ enforcer[e].pc \in {"none", "spawned", "counted", "finished"} => enforcer[e].keys = {}

Inv == /\ TypeOK
       /\ IsFiniteSet(index) /\ IsFiniteSet(uncounted)
       /\ CreationsKnown
       /\ CopiesFresh
       /\ DeletedIsGone
       /\ KeysMatchProgress
       /\ IndexMatchesRecords

Enforcers == [pc : Active \cup {"none", "spawned", "finished", "failed"}, excess : Nat, keys : SUBSET Creations]

-----------------------------------------------------------------------------
(* Lemmas                                                                  *)

\* Every set of natural numbers has a least member: the part of it up to each of its
\* members is finite, so one of these parts has no other strictly within it.
LEMMA LeastOf ==
    ASSUME NEW T \in SUBSET Nat, T # {}
    PROVE  \E i \in T : \A k \in T : i <= k
<1> DEFINE UpTo(i) == {j \in T : j <= i}
           Parts == {UpTo(i) : i \in T}
           R == StrictSubsetOrdering(T)
<1>1. \A i \in T : IsFiniteSet(UpTo(i))
  <2> SUFFICES ASSUME NEW i \in T PROVE IsFiniteSet(UpTo(i))
    OBVIOUS
  <2>1. 0 \in Int /\ i \in Int
    OBVIOUS
  <2>2. IsFiniteSet(0 .. i)
    BY <2>1, FS_Interval
  <2>3. ASSUME NEW j \in T, j <= i PROVE j \in 0 .. i
    <3>1. j \in Nat /\ i \in Nat
      OBVIOUS
    <3>2. QED
      BY <2>3, <3>1
  <2>4. UpTo(i) \subseteq 0 .. i
    BY <2>3
  <2>5. QED
    BY <2>2, <2>4, FS_Subset
<1>2. \A P \in Parts : P \in FiniteSubsetsOf(T)
  BY <1>1 DEF FiniteSubsetsOf
<1>3. \E P \in Parts : \A Q \in Parts : <<Q, P>> \notin R
  <2>1. IsWellFoundedOn(R, FiniteSubsetsOf(T))
    BY FS_StrictSubsetOrderingWellFounded
  <2>2. Parts # {}
    OBVIOUS
  <2> HIDE DEF Parts, R
  <2>3. Parts \subseteq FiniteSubsetsOf(T)
    BY <1>2
  <2>4. QED
    BY <2>1, <2>2, <2>3, WFMin
<1>4. PICK i \in T : \A Q \in Parts : <<Q, UpTo(i)>> \notin R
  BY <1>3
<1>5. ASSUME NEW k \in T, k < i PROVE FALSE
  <2>1. k \in Int /\ i \in Int
    OBVIOUS
  <2>2. ASSUME NEW j \in T, j <= k PROVE j <= i
    <3>1. j \in Int
      OBVIOUS
    <3>2. QED
      BY <1>5, <2>1, <2>2, <3>1
  <2>3. UpTo(k) \subseteq UpTo(i)
    BY <2>2
  <2>4. i \in UpTo(i) /\ i \notin UpTo(k)
    BY <1>5, <2>1
  <2>5. <<UpTo(k), UpTo(i)>> \in R
    BY <2>3, <2>4 DEF StrictSubsetOrdering
  <2>6. QED
    BY <1>4, <2>5
<1>6. QED
  BY <1>5

LEMMA FirstIsMember == ASSUME NEW keys \in SUBSET Creations, keys # {} PROVE First(keys) \in keys
<1>1. keys \in SUBSET Nat
  BY StoreAssumption
<1>2. PICK i \in keys : \A k \in keys : i <= k
  BY <1>1, LeastOf
<1>3. \A k \in keys \ {i} : i < k
  BY <1>1, <1>2
<1>4. QED
  BY <1>3 DEF First

LEMMA ChangedType ==
    ASSUME NEW r \in Records, NEW u \in Updates
    PROVE  /\ Changed(r, u) \in Records
           /\ r.result => Changed(r, u).result
           /\ r.error => Changed(r, u).error
BY DEF Records, Statuses, Updates, Changed

LEMMA FreshType == Fresh \in Records /\ Fresh # Absent
<1>1. Fresh \in Records
  BY DEF Fresh, Records, Statuses
<1>2. QED
  BY <1>1, StoreAssumption

LEMMA IdleType == Idle \in Enforcers /\ Idle.keys = {} /\ Idle.pc = "none" /\ Idle.excess = 0
BY DEF Idle, Enforcers

LEMMA IndexSize == ASSUME IsFiniteSet(index) PROVE Cardinality(index) \in Nat
BY FS_CardinalityType

\* Adding a job replaces its member or makes the index one longer.
LEMMA WithType ==
    ASSUME Inv, NEW c \in Creations
    PROVE  /\ With(c) \subseteq Creations /\ With(c) \subseteq index \cup {c}
           /\ IsFiniteSet(With(c))
           /\ c \in With(c)
           /\ \A d \in With(c) : d = c \/ (d \in index /\ IdOf[d] # IdOf[c])
           /\ \A d \in index : IdOf[d] # IdOf[c] => d \in With(c)
<1>1. With(c) \subseteq index \cup {c}
  BY DEF With, Without
<1>2. IsFiniteSet(index \cup {c})
  BY FS_AddElement DEF Inv
<1>3. IsFiniteSet(With(c))
  BY <1>1, <1>2, FS_Subset
<1>4. QED
  BY <1>1, <1>3 DEF With, Without, Inv, TypeOK

LEMMA WithoutType ==
    ASSUME Inv, NEW j \in Jobs
    PROVE  /\ Without(j) \subseteq index /\ IsFiniteSet(Without(j))
           /\ \A c \in index : c \in Without(j) <=> IdOf[c] # j
<1>1. Without(j) \subseteq index
  BY DEF Without
<1>2. IsFiniteSet(Without(j))
  BY <1>1, FS_Subset DEF Inv
<1>3. QED
  BY <1>1, <1>2 DEF Without

LEMMA InitInv == Init => Inv
<1> SUFFICES ASSUME Init PROVE Inv
  OBVIOUS
<1> USE StoreAssumption, IdleType DEF Init
<1>1. TypeOK
  BY DEF TypeOK, Enforcers
<1>2. IsFiniteSet(index) /\ IsFiniteSet(uncounted)
  BY FS_EmptySet
<1>3. CreationsKnown /\ CopiesFresh /\ DeletedIsGone /\ KeysMatchProgress
  BY DEF CreationsKnown, CopiesFresh, DeletedIsGone, KeysMatchProgress
<1>4. IndexMatchesRecords
  BY DEF IndexMatchesRecords, Created
<1>5. QED
  BY <1>1, <1>2, <1>3, <1>4 DEF Inv

-----------------------------------------------------------------------------
(* create_job                                                              *)

LEMMA SetFreshKeeps == ASSUME Inv, NEW c \in Creations, SetFresh(c) PROVE Inv'
<1> DEFINE j == IdOf[c]
<1> USE StoreAssumption, FreshType DEF SetFresh
<1>1. j \in Jobs /\ \A k \in Jobs : k \notin overlapped' => k \notin overlapped
  OBVIOUS
<1>2. TypeOK'
  <2>1. overlapped' \subseteq Jobs
    BY <1>1 DEF Inv, TypeOK
  <2>2. QED
    BY <2>1 DEF Inv, TypeOK
<1>3. \A k \in Jobs : records'[k] = IF k = j THEN Fresh ELSE records[k]
  BY DEF Inv, TypeOK
<1>4. CreationsKnown'
  <2>1. \A d \in Creations : creating'[d] = "set" => d = c \/ creating[d] = "set"
    BY DEF Inv, TypeOK
  <2>2. \A d \in Creations : creating'[d] # "created" => creating[d] # "created"
    BY DEF Inv, TypeOK
  <2>3. \A d \in Creations : IdOf[d] \in Jobs
    OBVIOUS
  <2>4. QED
    BY <1>1, <1>3, <2>1, <2>2, <2>3 DEF Inv, CreationsKnown
<1>5. CopiesFresh'
  <2> SUFFICES ASSUME NEW w \in Writers, copy[w] # Absent
               PROVE  /\ done[w] + 1 \in DOMAIN PlanOf[w]
                      /\ Target[w] \notin overlapped' => records'[Target[w]] = copy[w]
    BY DEF CopiesFresh
  <2>1. CASE Target[w] = j
    <3>1. w \in Holders(j)
      BY <2>1 DEF Holders
    <3>2. QED
      BY <2>1, <3>1 DEF Inv, CopiesFresh
  <2>2. CASE Target[w] # j
    BY <1>1, <1>3, <2>2 DEF Inv, CopiesFresh
  <2>3. QED
    BY <2>1, <2>2
<1>6. DeletedIsGone'
  <2> SUFFICES ASSUME NEW e \in Creations, enforcer[e].pc = "unindex"
               PROVE  At(e) \in overlapped' \/ records'[At(e)] = Absent
    BY DEF DeletedIsGone, At
  <2>1. CASE At(e) = j
    <3>1. e \in Unindexing(j)
      BY <2>1 DEF Unindexing
    <3>2. QED
      BY <2>1, <3>1
  <2>2. CASE At(e) # j
    <3>1. At(e) \in Jobs
      <4>1. enforcer[e].keys \in SUBSET Creations /\ enforcer[e].keys # {}
        BY DEF Inv, TypeOK, KeysMatchProgress
      <4>2. QED
        BY <4>1, FirstIsMember DEF At
    <3>2. QED
      BY <1>3, <2>2, <3>1 DEF Inv, DeletedIsGone
  <2>3. QED
    BY <2>1, <2>2
<1>7. KeysMatchProgress'
  BY DEF Inv, KeysMatchProgress
<1>8. IndexMatchesRecords'
  <2> SUFFICES ASSUME NEW k \in Jobs, Created(k)', k \notin overlapped', Removing(k)' = {}
               PROVE  Indexed(k)' <=> records'[k] # Absent
    BY DEF IndexMatchesRecords
  <2>1. k # j /\ Created(k)
    BY DEF Created, Inv, TypeOK
  <2>2. Removing(k) = {} /\ Indexed(k)' = Indexed(k)
    BY DEF Removing, At, Indexed
  <2>3. QED
    BY <1>1, <1>3, <2>1, <2>2 DEF Inv, IndexMatchesRecords
<1>9. QED
  BY <1>2, <1>4, <1>5, <1>6, <1>7, <1>8 DEF Inv

\* The job of a creation becomes the member of the index with its score.
LEMMA AddToIndexKeeps == ASSUME Inv, NEW c \in Creations, AddToIndex(c) PROVE Inv'
<1> USE StoreAssumption DEF AddToIndex, ghostVars
<1>1. enforcer[c] = Idle /\ enforcer'[c].pc = "spawned" /\ enforcer'[c].keys = {}
      /\ \A e \in Creations \ {c} : enforcer'[e] = enforcer[e]
  BY IdleType DEF Inv, TypeOK, CreationsKnown
<1>2. TypeOK'
  <2>1. enforcer' \in [Creations -> Enforcers]
    <3> DEFINE E == [enforcer[c] EXCEPT !.pc = "spawned"]
    <3>1. E \in Enforcers
      BY <1>1, IdleType DEF Enforcers
    <3>2. enforcer \in [Creations -> Enforcers] /\ enforcer' = [enforcer EXCEPT ![c] = E]
      BY DEF Inv, TypeOK, Enforcers
    <3> HIDE DEF E
    <3>3. QED
      BY <3>1, <3>2
  <2>2. index' \subseteq Creations
    BY WithType
  <2>3. QED
    BY <2>1, <2>2 DEF Inv, TypeOK, Enforcers
<1>3. IsFiniteSet(index') /\ IsFiniteSet(uncounted')
  BY WithType DEF Inv
<1>4. CreationsKnown'
  <2>1. \A d, e \in index' : IdOf[d] = IdOf[e] => d = e
    BY WithType DEF Inv, CreationsKnown
  <2>2. \A d \in Creations : creating'[d] = IF d = c THEN "created" ELSE creating[d]
    BY DEF Inv, TypeOK
  <2>3. QED
    BY <1>1, <2>1, <2>2 DEF Inv, CreationsKnown
<1>5. CopiesFresh'
  BY DEF Inv, CopiesFresh
<1>6. DeletedIsGone' /\ KeysMatchProgress'
  <2>1. \A e \in Creations \ {c} : At(e)' = At(e)
    BY <1>1 DEF At
  <2>2. DeletedIsGone'
    BY <1>1, <2>1 DEF Inv, DeletedIsGone
  <2>3. KeysMatchProgress'
    BY <1>1 DEF Inv, KeysMatchProgress
  <2>4. QED
    BY <2>2, <2>3
<1>7. IndexMatchesRecords'
  <2> SUFFICES ASSUME NEW k \in Jobs, Created(k)', k \notin overlapped', Removing(k)' = {}
               PROVE  Indexed(k)' <=> records'[k] # Absent
    BY DEF IndexMatchesRecords
  <2>1. CASE k = IdOf[c]
    <3>1. Indexed(k)'
      BY <2>1, WithType DEF Indexed
    <3>2. records[k] # Absent
      BY <2>1 DEF Inv, CreationsKnown
    <3>3. QED
      BY <3>1, <3>2
  <2>2. CASE k # IdOf[c]
    <3>1. Created(k)
      BY <2>2 DEF Created, Inv, TypeOK
    <3>2. Removing(k) = {}
      BY <1>1, IdleType DEF Removing, At
    <3>3. Indexed(k)' <=> Indexed(k)
      BY <2>2, WithType DEF Indexed
    <3>4. QED
      BY <3>1, <3>2, <3>3 DEF Inv, IndexMatchesRecords
  <2>3. QED
    BY <2>1, <2>2
<1>8. QED
  BY <1>2, <1>3, <1>4, <1>5, <1>6, <1>7 DEF Inv

\* A creation that ends with an error, whether or not the server has executed its
\* last command.
LEMMA CreateFailsKeeps == ASSUME Inv, NEW c \in Creations, CreateFails(c) \/ CreateUnanswered(c) PROVE Inv'
<1> USE StoreAssumption DEF CreateFails, CreateUnanswered, dataVars, ghostVars
<1>1. /\ creating[c] = "set" /\ creating' = [creating EXCEPT ![c] = "failed"]
      /\ index' = index \/ index' = With(c)
      /\ uncounted' = uncounted \/ uncounted' = uncounted \cup {c}
      /\ UNCHANGED <<records, enforcer, copy, done, overlapped>>
      /\ failures' \in 0..MaxFailures
  BY DEF CommandFails, Inv, TypeOK
<1>2. TypeOK'
  <2>1. index' \subseteq Creations /\ uncounted' \subseteq Creations
    BY <1>1, WithType DEF Inv, TypeOK
  <2>2. QED
    BY <1>1, <2>1 DEF Inv, TypeOK
<1>3. IsFiniteSet(index') /\ IsFiniteSet(uncounted')
  <2>1. IsFiniteSet(uncounted \cup {c}) /\ IsFiniteSet(uncounted) /\ IsFiniteSet(index)
    BY FS_AddElement DEF Inv
  <2>2. IsFiniteSet(With(c))
    BY WithType
  <2>3. QED
    BY <1>1, <2>1, <2>2
<1>4. CreationsKnown'
  <2>1. \A d, e \in index' : IdOf[d] = IdOf[e] => d = e
    BY <1>1, WithType DEF Inv, CreationsKnown
  <2>2. \A d \in Creations : creating'[d] = IF d = c THEN "failed" ELSE creating[d]
    BY <1>1 DEF Inv, TypeOK
  <2>3. QED
    BY <1>1, <2>1, <2>2 DEF Inv, CreationsKnown
<1>5. CopiesFresh' /\ DeletedIsGone' /\ KeysMatchProgress'
  BY <1>1 DEF Inv, CopiesFresh, DeletedIsGone, KeysMatchProgress, At
<1>6. IndexMatchesRecords'
  <2> SUFFICES ASSUME NEW k \in Jobs, Created(k)', k \notin overlapped', Removing(k)' = {}
               PROVE  Indexed(k)' <=> records'[k] # Absent
    BY DEF IndexMatchesRecords
  <2>1. k # IdOf[c] /\ Created(k)
    BY <1>1 DEF Created, Inv, TypeOK
  <2>2. Removing(k) = {}
    BY <1>1 DEF Removing, At
  <2>3. Indexed(k)' <=> Indexed(k)
    BY <1>1, <2>1, WithType DEF Indexed
  <2>4. QED
    BY <1>1, <2>1, <2>2, <2>3 DEF Inv, IndexMatchesRecords
<1>7. QED
  BY <1>2, <1>3, <1>4, <1>5, <1>6 DEF Inv

-----------------------------------------------------------------------------
(* The updates                                                             *)

LEMMA ReadKeeps == ASSUME Inv, NEW w \in Writers, Read(w) PROVE Inv'
<1> USE StoreAssumption DEF Read, dataVars, ghostVars
<1>1. Target[w] \in Jobs /\ records[Target[w]] \in Records \cup {Absent}
  BY DEF Inv, TypeOK
<1>2. /\ done \in [Writers -> Nat] /\ done[w] + 1 \in 1 .. Len(PlanOf[w])
  <2>1. DOMAIN PlanOf[w] = 1 .. Len(PlanOf[w])
    OBVIOUS
  <2>2. QED
    BY <2>1 DEF Inv, TypeOK
<1>3. TypeOK'
  <2>1. copy' \in [Writers -> Records \cup {Absent}]
    BY <1>1 DEF Inv, TypeOK
  <2>2. done' \in [Writers -> Nat] /\ \A v \in Writers : done'[v] <= Len(PlanOf[v])
    BY <1>2 DEF Inv, TypeOK
  <2>3. QED
    BY <2>1, <2>2 DEF Inv, TypeOK
<1>4. CreationsKnown'
  BY DEF Inv, TypeOK, CreationsKnown
<1>5. CopiesFresh'
  <2> SUFFICES ASSUME NEW v \in Writers, copy'[v] # Absent
               PROVE  /\ done'[v] + 1 \in DOMAIN PlanOf[v]
                      /\ Target[v] \notin overlapped' => records'[Target[v]] = copy'[v]
    BY DEF CopiesFresh
  <2>1. CASE v = w
    BY <1>1, <2>1 DEF Inv, TypeOK
  <2>2. CASE v # w
    BY <2>2 DEF Inv, TypeOK, CopiesFresh
  <2>3. QED
    BY <2>1, <2>2
<1>6. DeletedIsGone' /\ KeysMatchProgress'
  BY DEF Inv, DeletedIsGone, KeysMatchProgress, At
<1>7. IndexMatchesRecords'
  BY DEF Inv, IndexMatchesRecords, Removing, At, Created, Indexed
<1>8. QED
  BY <1>3, <1>4, <1>5, <1>6, <1>7 DEF Inv

\* The key that an enforcer deletes and removes, and its job.
LEMMA AtJob ==
    ASSUME Inv, NEW e \in Creations, enforcer[e].pc \in {"delete", "unindex"}
    PROVE  /\ First(enforcer[e].keys) \in enforcer[e].keys
           /\ First(enforcer[e].keys) \in Creations
           /\ At(e) \in Jobs
           /\ creating[e] = "created"
<1>1. enforcer[e].keys \in SUBSET Creations /\ enforcer[e].keys # {}
  BY DEF Inv, TypeOK, KeysMatchProgress
<1>2. First(enforcer[e].keys) \in enforcer[e].keys
  BY <1>1, FirstIsMember
<1>3. creating[e] = "created"
  BY IdleType DEF Inv, CreationsKnown
<1>4. QED
  BY <1>1, <1>2, <1>3, StoreAssumption DEF At

\* A record that is written or deleted while no other writer holds it.
LEMMA Alone ==
    ASSUME NEW w \in Writers, copy[w] # Absent, Holders(Target[w]) = {w}
    PROVE  \A v \in Writers : copy[v] # Absent /\ Target[v] = Target[w] => v = w
BY DEF Holders

LEMMA WriteType ==
    ASSUME Inv, NEW w \in Writers, Write(w)
    PROVE  \E r \in Records : /\ records' = [records EXCEPT ![Target[w]] = r]
                              /\ copy[w].result => r.result
                              /\ copy[w].error => r.error
<1>1. copy[w] \in Records
  BY DEF Inv, TypeOK, Write
<1>2. PlanOf[w][done[w] + 1] \subseteq Updates
  <2>1. PlanOf[w] \in Seq(SUBSET Updates) /\ done[w] + 1 \in DOMAIN PlanOf[w]
    BY StoreAssumption DEF Inv, CopiesFresh, Write
  <2>2. QED
    BY <2>1
<1>3. QED
  BY <1>1, <1>2, ChangedType DEF Write

LEMMA WriteKeeps == ASSUME Inv, NEW w \in Writers, Write(w) PROVE Inv'
<1> DEFINE j == Target[w]
<1> USE StoreAssumption DEF Write
<1>1. PICK r \in Records : records' = [records EXCEPT ![j] = r]
  BY WriteType
<1>2. j \in Jobs /\ r # Absent /\ copy[w] # Absent
  OBVIOUS
<1>3. done \in [Writers -> Nat] /\ done[w] + 1 \in 1 .. Len(PlanOf[w])
  <2>1. DOMAIN PlanOf[w] = 1 .. Len(PlanOf[w])
    OBVIOUS
  <2>2. QED
    BY <2>1 DEF Inv, TypeOK, CopiesFresh
<1>4. TypeOK'
  <2>1. records' \in [Jobs -> Records \cup {Absent}] /\ copy' \in [Writers -> Records \cup {Absent}]
    BY <1>1 DEF Inv, TypeOK
  <2>2. done' \in [Writers -> Nat] /\ \A v \in Writers : done'[v] <= Len(PlanOf[v])
    BY <1>3 DEF Inv, TypeOK
  <2>3. overlapped' \subseteq Jobs
    BY <1>2 DEF Inv, TypeOK
  <2>4. QED
    BY <2>1, <2>2, <2>3 DEF Inv, TypeOK
<1>5. CreationsKnown'
  <2>1. \A k \in Jobs : /\ records'[k] = IF k = j THEN r ELSE records[k]
                       /\ k \notin overlapped' => k \notin overlapped
    BY <1>1 DEF Inv, TypeOK
  <2>2. UNCHANGED <<index, creating, enforcer, uncounted>>
    OBVIOUS
  <2>3. ASSUME NEW c \in Creations, creating[c] = "set", IdOf[c] \notin overlapped'
        PROVE  records'[IdOf[c]] # Absent
    <3>1. IdOf[c] \in Jobs
      OBVIOUS
    <3>2. records[IdOf[c]] # Absent
      BY <2>1, <2>3, <3>1 DEF Inv, CreationsKnown
    <3>3. records'[IdOf[c]] \in {r, records[IdOf[c]]}
      BY <1>1, <3>1 DEF Inv, TypeOK
    <3>4. QED
      BY <1>2, <3>2, <3>3
  <2>4. CreationsKnown
    BY DEF Inv
  <2>5. QED
    BY <2>2, <2>3, <2>4 DEF CreationsKnown
<1>6. CopiesFresh'
  <2> SUFFICES ASSUME NEW v \in Writers, copy'[v] # Absent
               PROVE  /\ done'[v] + 1 \in DOMAIN PlanOf[v]
                      /\ Target[v] \notin overlapped' => records'[Target[v]] = copy'[v]
    BY DEF CopiesFresh
  <2>1. v # w /\ copy'[v] = copy[v] /\ done'[v] = done[v]
    BY DEF Inv, TypeOK
  <2>2. CASE Target[v] = j
    BY <1>2, <2>1, <2>2, Alone DEF Inv, CopiesFresh
  <2>3. CASE Target[v] # j
    BY <1>1, <2>1, <2>3 DEF Inv, TypeOK, CopiesFresh
  <2>4. QED
    BY <2>2, <2>3
<1>7. \A k \in Jobs : k \notin overlapped' => k \notin overlapped
  OBVIOUS
<1>8. j \notin overlapped' => records[j] # Absent
  BY <1>2, <1>7 DEF Inv, CopiesFresh
<1>9. DeletedIsGone'
  <2> SUFFICES ASSUME NEW e \in Creations, enforcer[e].pc = "unindex",
                      At(e) \notin overlapped'
               PROVE  records'[At(e)] = Absent
    BY DEF DeletedIsGone, At
  <2>1. records[At(e)] = Absent /\ At(e) \in Jobs
    BY AtJob DEF Inv, DeletedIsGone
  <2>2. At(e) # j
    BY <1>8, <2>1
  <2>3. QED
    BY <1>1, <2>1, <2>2 DEF Inv, TypeOK
<1>10. KeysMatchProgress'
  BY DEF Inv, KeysMatchProgress
<1>11. IndexMatchesRecords'
  <2>1. \A k \in Jobs : /\ Removing(k)' = Removing(k)
                       /\ Indexed(k)' = Indexed(k) /\ Created(k)' = Created(k)
    BY DEF Removing, At, Indexed, Created
  <2>2. \A k \in Jobs : k \notin overlapped' => (records'[k] = Absent <=> records[k] = Absent)
    BY <1>1, <1>2, <1>8 DEF Inv, TypeOK
  <2>3. QED
    BY <1>7, <2>1, <2>2 DEF Inv, IndexMatchesRecords
<1>12. QED
  BY <1>4, <1>5, <1>6, <1>9, <1>10, <1>11 DEF Inv

LEMMA WriteFailsKeeps == ASSUME Inv, NEW w \in Writers, WriteFails(w) PROVE Inv'
<1> USE StoreAssumption DEF WriteFails, dataVars, ghostVars
<1>1. done \in [Writers -> Nat] /\ done[w] + 1 \in 1 .. Len(PlanOf[w])
  <2>1. DOMAIN PlanOf[w] = 1 .. Len(PlanOf[w])
    OBVIOUS
  <2>2. QED
    BY <2>1 DEF Inv, TypeOK, CopiesFresh
<1>2. TypeOK'
  BY <1>1 DEF Inv, TypeOK, CommandFails
<1>3. CreationsKnown'
  BY DEF Inv, TypeOK, CreationsKnown
<1>4. CopiesFresh'
  BY DEF Inv, TypeOK, CopiesFresh
<1>5. DeletedIsGone' /\ KeysMatchProgress'
  BY DEF Inv, DeletedIsGone, KeysMatchProgress, At
<1>6. IndexMatchesRecords'
  BY DEF Inv, IndexMatchesRecords, Removing, At, Created, Indexed
<1>7. QED
  BY <1>2, <1>3, <1>4, <1>5, <1>6 DEF Inv

-----------------------------------------------------------------------------
(* The enforcers                                                           *)

\* A step of an enforcer that only changes what it knows.
LEMMA EnforcerMoves ==
    ASSUME Inv, NEW e \in Creations, enforcer[e].pc # "none", NEW E \in Enforcers,
           enforcer' = [enforcer EXCEPT ![e] = E],
           E.pc # "unindex",
           E.pc = "delete" => E.keys # {},
           E.pc \in {"none", "spawned", "counted", "finished"} => E.keys = {},
           \A j \in Jobs : e \in Removing(j) => E.pc = "failed" /\ E.keys = enforcer[e].keys,
           failures' \in 0..MaxFailures,
           uncounted' \in {uncounted, {}},
           UNCHANGED <<dataVars, creating, done, copy, overlapped>>
    PROVE  Inv'
<1> USE DEF dataVars
<1>1. enforcer \in [Creations -> Enforcers] /\ creating[e] = "created"
  BY IdleType DEF Inv, TypeOK, CreationsKnown, Enforcers
<1>2. enforcer' \in [Creations -> Enforcers] /\ enforcer'[e] = E
      /\ \A d \in Creations \ {e} : enforcer'[d] = enforcer[d]
  BY <1>1
<1>3. TypeOK'
  BY <1>2 DEF Inv, TypeOK, Enforcers
<1>4. CreationsKnown' /\ IsFiniteSet(uncounted')
  BY <1>1, <1>2, FS_EmptySet DEF Inv, CreationsKnown
<1>5. CopiesFresh'
  BY DEF Inv, CopiesFresh
<1>6. DeletedIsGone' /\ KeysMatchProgress'
  BY <1>2 DEF Inv, DeletedIsGone, KeysMatchProgress, At
<1>7. IndexMatchesRecords'
  <2>1. \A j \in Jobs : /\ Removing(j) \subseteq Removing(j)'
                       /\ Indexed(j)' = Indexed(j) /\ Created(j)' = Created(j)
    BY <1>2 DEF Removing, At, Indexed, Created
  <2>2. QED
    BY <2>1 DEF Inv, IndexMatchesRecords
<1>8. QED
  BY <1>3, <1>4, <1>5, <1>6, <1>7 DEF Inv

LEMMA EnforcerType ==
    ASSUME TypeOK, NEW e \in Creations
    PROVE  enforcer[e] \in Enforcers
BY DEF TypeOK, Enforcers

LEMMA CountKeeps == ASSUME Inv, NEW e \in Creations, Count(e) PROVE Inv'
<1> DEFINE n == Cardinality(index)
           E == IF n > MaxHistory
                THEN [enforcer[e] EXCEPT !.pc = "counted", !.excess = n - MaxHistory]
                ELSE [enforcer[e] EXCEPT !.pc = "finished"]
<1> USE DEF Active, dataVars
<1>1. enforcer[e] \in Enforcers /\ enforcer[e].pc = "spawned" /\ enforcer[e].keys = {}
  BY EnforcerType DEF Inv, KeysMatchProgress, Count
<1>2. n \in Nat /\ MaxHistory \in Nat
  BY IndexSize, StoreAssumption DEF Inv
<1>3. E \in Enforcers /\ E.pc \in {"counted", "finished"} /\ E.keys = {}
  <2>1. CASE n > MaxHistory
    <3>1. n - MaxHistory \in Nat
      BY <1>2, <2>1
    <3>2. QED
      BY <1>1, <2>1, <3>1 DEF Enforcers
  <2>2. CASE ~(n > MaxHistory)
    BY <1>1, <2>2 DEF Enforcers
  <2>3. QED
    BY <2>1, <2>2
<1>4. enforcer' = [enforcer EXCEPT ![e] = E]
  BY DEF Count
<1>5. \A j \in Jobs : e \notin Removing(j)
  BY <1>1 DEF Removing
<1>6. /\ failures' \in 0..MaxFailures /\ uncounted' = {}
      /\ UNCHANGED <<dataVars, creating, done, copy, overlapped>>
  BY DEF Count, Inv, TypeOK
<1> HIDE DEF E
<1>7. QED
  BY <1>1, <1>3, <1>4, <1>5, <1>6, EnforcerMoves

LEMMA DeletingType ==
    ASSUME NEW keys \in SUBSET Creations
    PROVE  /\ Deleting(keys) \in Enforcers
           /\ Deleting(keys).keys = keys
           /\ Deleting(keys).pc = IF keys = {} THEN "finished" ELSE "delete"
BY DEF Deleting, Enforcers, Active

LEMMA SelectKeeps == ASSUME Inv, NEW e \in Creations, Select(e) PROVE Inv'
<1> DEFINE keys == KeyRange(0, enforcer[e].excess)
           E == Deleting(keys)
<1>1. keys \in SUBSET Creations
  BY DEF KeyRange, Inv, TypeOK
<1>2. E \in Enforcers /\ E.keys = keys /\ E.pc = IF keys = {} THEN "finished" ELSE "delete"
  BY <1>1, DeletingType
<1>3. enforcer' = [enforcer EXCEPT ![e] = E] /\ enforcer[e].pc = "counted"
  BY DEF Select
<1>4. \A j \in Jobs : e \notin Removing(j)
  BY <1>3 DEF Removing
<1>5. /\ failures' \in 0..MaxFailures /\ uncounted' = uncounted
      /\ UNCHANGED <<dataVars, creating, done, copy, overlapped>>
  BY DEF Select, Inv, TypeOK, dataVars, ghostVars
<1> HIDE DEF E, keys
<1>6. QED
  BY <1>1, <1>2, <1>3, <1>4, <1>5, EnforcerMoves

LEMMA EnforcerFailsKeeps == ASSUME Inv, NEW e \in Creations, EnforcerFails(e) PROVE Inv'
<1> DEFINE E == [enforcer[e] EXCEPT !.pc = "failed"]
<1>1. enforcer[e] \in Enforcers /\ enforcer[e].pc # "none"
  BY EnforcerType DEF Inv, EnforcerFails, Active
<1>2. E \in Enforcers /\ E.pc = "failed" /\ E.keys = enforcer[e].keys
  BY <1>1 DEF Enforcers
<1>3. enforcer' = [enforcer EXCEPT ![e] = E]
  BY DEF EnforcerFails
<1>4. /\ failures' \in 0..MaxFailures /\ uncounted' = uncounted
      /\ UNCHANGED <<dataVars, creating, done, copy, overlapped>>
  BY StoreAssumption DEF EnforcerFails, CommandFails, Inv, TypeOK, dataVars, ghostVars
<1> HIDE DEF E
<1>6. QED
  BY <1>1, <1>2, <1>3, <1>4, EnforcerMoves

LEMMA DeleteRecordKeeps == ASSUME Inv, NEW e \in Creations, DeleteRecord(e) PROVE Inv'
<1> DEFINE j == At(e)
<1> USE DEF DeleteRecord
<1>1. j \in Jobs /\ creating[e] = "created"
  BY AtJob
<1>2. /\ enforcer' \in [Creations -> Enforcers]
      /\ enforcer'[e].pc = "unindex" /\ enforcer'[e].keys = enforcer[e].keys
      /\ \A d \in Creations \ {e} : enforcer'[d] = enforcer[d]
  <2> DEFINE E == [enforcer[e] EXCEPT !.pc = "unindex"]
  <2>1. enforcer[e] \in Enforcers
    BY EnforcerType DEF Inv
  <2>2. E \in Enforcers /\ E.pc = "unindex" /\ E.keys = enforcer[e].keys
    BY <2>1 DEF Enforcers, Active
  <2>3. enforcer \in [Creations -> Enforcers]
    BY DEF Inv, TypeOK, Enforcers
  <2>4. enforcer' = [enforcer EXCEPT ![e] = E]
    OBVIOUS
  <2> HIDE DEF E
  <2>5. QED
    BY <2>2, <2>3, <2>4
<1>3. TypeOK'
  <2>1. records' \in [Jobs -> Records \cup {Absent}]
    BY DEF Inv, TypeOK
  <2>2. overlapped' \subseteq Jobs
    BY <1>1 DEF Inv, TypeOK
  <2>3. QED
    BY <1>2, <2>1, <2>2 DEF Inv, TypeOK, Enforcers
<1>4. CreationsKnown'
  <2>1. ASSUME NEW c \in Creations, creating[c] = "set", IdOf[c] \notin overlapped'
        PROVE  records'[IdOf[c]] # Absent
    <3>1. IdOf[c] # j
      <4>1. IdOf[c] = j => c \in Adding(j)
        BY <2>1 DEF Adding
      <4>2. QED
        BY <2>1, <4>1
    <3>2. IdOf[c] \notin overlapped
      BY <2>1
    <3>3. QED
      BY <2>1, <3>1, <3>2 DEF Inv, TypeOK, CreationsKnown
  <2>2. QED
    BY <1>1, <1>2, <2>1 DEF Inv, CreationsKnown
<1>5. CopiesFresh'
  BY DEF Inv, TypeOK, CopiesFresh, Holders
<1>6. DeletedIsGone'
  <2> SUFFICES ASSUME NEW d \in Creations, enforcer'[d].pc = "unindex", At(d)' \notin overlapped'
               PROVE  records'[At(d)'] = Absent
    BY DEF DeletedIsGone
  <2>1. CASE d = e
    BY <1>1, <1>2, <2>1 DEF At, Inv, TypeOK
  <2>2. CASE d # e
    <3>1. enforcer[d].pc = "unindex" /\ At(d)' = At(d)
      BY <1>2, <2>2 DEF At
    <3>2. At(d) \in Jobs
      BY <3>1, AtJob
    <3>3. QED
      BY <3>1, <3>2 DEF Inv, TypeOK, DeletedIsGone
  <2>3. QED
    BY <2>1, <2>2
<1>7. KeysMatchProgress'
  BY <1>2 DEF Inv, KeysMatchProgress
<1>8. IndexMatchesRecords'
  <2> SUFFICES ASSUME NEW k \in Jobs, Created(k)', k \notin overlapped', Removing(k)' = {}
               PROVE  Indexed(k)' <=> records'[k] # Absent
    BY DEF IndexMatchesRecords
  <2>1. k # j
    <3>1. enforcer'[e].keys # {} /\ At(e)' = j
      BY <1>2 DEF Inv, KeysMatchProgress, At
    <3>2. QED
      BY <1>2, <3>1 DEF Removing
  <2>2. Removing(k) = {} /\ Created(k) /\ Indexed(k)' = Indexed(k)
    <3>1. \A d \in Creations \ {e} : At(d)' = At(d)
      BY <1>2 DEF At
    <3>2. e \notin Removing(k)
      BY DEF Removing
    <3>3. QED
      BY <1>2, <3>1, <3>2 DEF Removing, Created, Indexed
  <2>3. records'[k] = records[k]
    BY <2>1 DEF Inv, TypeOK
  <2>4. QED
    BY <2>2, <2>3 DEF Inv, IndexMatchesRecords
<1>9. QED
  BY <1>3, <1>4, <1>5, <1>6, <1>7, <1>8 DEF Inv

LEMMA RemoveFromIndexKeeps == ASSUME Inv, NEW e \in Creations, RemoveFromIndex(e) PROVE Inv'
<1> DEFINE j == At(e)
           keys == enforcer[e].keys \ {First(enforcer[e].keys)}
<1> USE DEF RemoveFromIndex, ghostVars
<1>1. j \in Jobs /\ creating[e] = "created"
  BY AtJob
<1>2. keys \in SUBSET Creations
  BY DEF Inv, TypeOK
<1>3. /\ enforcer' \in [Creations -> Enforcers]
      /\ enforcer'[e].pc = (IF keys = {} THEN "finished" ELSE "delete")
      /\ enforcer'[e].keys = keys
      /\ \A d \in Creations \ {e} : enforcer'[d] = enforcer[d]
  <2>1. enforcer \in [Creations -> Enforcers]
    BY DEF Inv, TypeOK, Enforcers
  <2>2. enforcer' = [enforcer EXCEPT ![e] = Deleting(keys)]
    OBVIOUS
  <2> HIDE DEF keys
  <2>3. QED
    BY <1>2, <2>1, <2>2, DeletingType
<1>4. TypeOK'
  <2>1. index' \subseteq Creations
    BY <1>1, WithoutType DEF Inv, TypeOK
  <2>2. QED
    BY <1>3, <2>1 DEF Inv, TypeOK, Enforcers
<1>5. CreationsKnown'
  <2>1. index' \subseteq index
    BY <1>1, WithoutType
  <2>2. QED
    BY <1>1, <1>3, <2>1 DEF Inv, CreationsKnown
<1>6. CopiesFresh'
  BY DEF Inv, CopiesFresh
<1>7. DeletedIsGone' /\ KeysMatchProgress'
  BY <1>3 DEF Inv, DeletedIsGone, KeysMatchProgress, At
<1>8. IndexMatchesRecords'
  <2> SUFFICES ASSUME NEW k \in Jobs, Created(k), k \notin overlapped, Removing(k)' = {}
               PROVE  Indexed(k)' <=> records[k] # Absent
    BY DEF IndexMatchesRecords, Created
  <2>1. CASE k = j
    <3>1. ~ Indexed(k)'
      BY <1>1, <2>1, WithoutType DEF Indexed
    <3>2. QED
      BY <2>1, <3>1 DEF Inv, DeletedIsGone
  <2>2. CASE k # j
    <3>1. Removing(k) = {}
      BY <1>3, <2>2 DEF Removing, At
    <3>2. Indexed(k)' <=> Indexed(k)
      BY <1>1, <2>2, WithoutType DEF Indexed
    <3>3. QED
      BY <3>1, <3>2 DEF Inv, IndexMatchesRecords
  <2>3. QED
    BY <2>1, <2>2
<1>9. IsFiniteSet(index') /\ IsFiniteSet(uncounted')
  BY <1>1, WithoutType DEF Inv
<1>10. QED
  BY <1>4, <1>5, <1>6, <1>7, <1>8, <1>9 DEF Inv

LEMMA NextInv == ASSUME Inv, [Next]_vars PROVE Inv'
<1>1. CASE \E c \in Creations : SetFresh(c) \/ AddToIndex(c) \/ CreateFails(c) \/ CreateUnanswered(c)
  BY <1>1, SetFreshKeeps, AddToIndexKeeps, CreateFailsKeeps
<1>2. CASE \E w \in Writers : Read(w) \/ Write(w) \/ WriteFails(w)
  BY <1>2, ReadKeeps, WriteKeeps, WriteFailsKeeps
<1>3. CASE \E e \in Creations : \/ Count(e) \/ Select(e) \/ EnforcerFails(e)
                           \/ DeleteRecord(e) \/ RemoveFromIndex(e)
  BY <1>3, CountKeeps, SelectKeeps, EnforcerFailsKeeps, DeleteRecordKeeps, RemoveFromIndexKeeps
<1>4. CASE UNCHANGED vars
  BY <1>4 DEF vars, dataVars, callVars, ghostVars, Inv, TypeOK, CreationsKnown, CopiesFresh,
              DeletedIsGone, KeysMatchProgress, IndexMatchesRecords, Removing, At, Created, Indexed
<1>5. QED
  BY <1>1, <1>2, <1>3, <1>4 DEF Next

LEMMA InvHolds == Spec => []Inv
BY InitInv, NextInv, PTL DEF Spec

-----------------------------------------------------------------------------
(* The length of the index                                                 *)

\* The enforcer will still look at the index, has failed, or knows of so many
\* jobs to remove that without them the index is short enough.
Bound == MaxHistory + Cardinality(uncounted)

AnswersFor(e) ==
    \/ enforcer[e].pc \in {"spawned", "failed"}
    \/ enforcer[e].pc = "counted" /\ Cardinality(index) <= Bound + enforcer[e].excess
    \/ enforcer[e].pc \in {"delete", "unindex"} /\ Cardinality(index \ enforcer[e].keys) <= Bound

Accounted == Cardinality(index) <= Bound \/ \E e \in Creations : AnswersFor(e)

LEMMA BoundType == Inv => Bound \in Nat /\ Cardinality(uncounted) \in Nat
BY FS_CardinalityType, StoreAssumption DEF Inv, Bound

LEMMA Smaller ==
    ASSUME IsFiniteSet(index), NEW S \in SUBSET index
    PROVE  /\ IsFiniteSet(S) /\ Cardinality(S) \in Nat /\ Cardinality(index) \in Nat
           /\ Cardinality(S) <= Cardinality(index)
           /\ Cardinality(index \ S) = Cardinality(index) - Cardinality(S)
<1>1. IsFiniteSet(S) /\ Cardinality(S) <= Cardinality(index)
  BY FS_Subset
<1>2. index \cap S = S
  OBVIOUS
<1>3. Cardinality(index \ S) = Cardinality(index) - Cardinality(S)
  BY <1>1, <1>2, FS_Difference
<1>4. QED
  BY <1>1, <1>3, FS_CardinalityType

\* Of the keys that ZRANGE leaves the first one has more than excess before it,
\* all of them in the range: the range is long enough, and one longer.
LEMMA RangeSuffices ==
    ASSUME Inv, NEW excess \in Nat, NEW m \in Nat, Cardinality(index) <= m + excess
    PROVE  Cardinality(index \ KeyRange(0, excess)) <= m
<1> DEFINE keys == KeyRange(0, excess)
           rest == index \ keys
<1>1. IsFiniteSet(index) /\ index \subseteq Nat
  BY StoreAssumption DEF Inv, TypeOK
<1>2. keys \subseteq index
  BY DEF KeyRange
<1>3. CASE rest = {}
  BY <1>1, <1>3, FS_EmptySet
<1>4. CASE rest # {}
  <2>1. rest \in SUBSET Nat
    BY <1>1
  <2>2. PICK j \in rest : \A k \in rest : j <= k
    BY <1>4, <2>1, LeastOf
  <2> DEFINE before == {k \in index : k < j}
  <2>3. before \subseteq keys
    <3> SUFFICES ASSUME NEW k \in index, k < j, k \notin keys PROVE FALSE
      OBVIOUS
    <3>1. k \in Int /\ j \in Int /\ k \in rest
      BY <1>1, <2>1
    <3>2. j <= k
      BY <2>2, <3>1
    <3>3. QED
      BY <3>1, <3>2
  <2>4. before \in SUBSET index /\ keys \in SUBSET index
    BY <1>2
  <2>5. Cardinality(before) \in Nat /\ IsFiniteSet(keys) /\ Cardinality(keys) \in Nat
    BY <1>1, <2>4, Smaller
  <2>6. Cardinality(before) > excess
    <3>1. j \in index /\ Rank(j) \notin 0 .. excess /\ Rank(j) = Cardinality(before)
      BY DEF KeyRange, Rank
    <3>2. QED
      BY <2>5, <3>1
  <2>7. Cardinality(before) <= Cardinality(keys)
    BY <2>3, <2>5, FS_Subset
  <2>8. Cardinality(rest) = Cardinality(index) - Cardinality(keys) /\ Cardinality(index) \in Nat
    BY <1>1, <2>4, Smaller
  <2>9. Cardinality(rest) <= m
    <3> HIDE DEF keys, rest, before
    <3>1. QED
      BY <1>1, <2>5, <2>6, <2>7, <2>8
  <2>10. QED
    BY <2>9
<1>5. QED
  BY <1>3, <1>4

\* The others answer for what they did when the index gets no longer.
LEMMA OthersAnswer ==
    ASSUME Inv, NEW e \in Creations, NEW d \in Creations, AnswersFor(d),
           enforcer'[d] = enforcer[d], index' \subseteq index, UNCHANGED uncounted
    PROVE  AnswersFor(d)'
<1> USE StoreAssumption
<1>1. index' \in SUBSET index /\ (index' \ enforcer[d].keys) \subseteq (index \ enforcer[d].keys)
  OBVIOUS
<1>2. /\ Cardinality(index') <= Cardinality(index)
      /\ Cardinality(index') \in Nat /\ Cardinality(index) \in Nat
  BY <1>1, Smaller DEF Inv
<1>3. /\ Cardinality(index' \ enforcer[d].keys) <= Cardinality(index \ enforcer[d].keys)
      /\ Cardinality(index' \ enforcer[d].keys) \in Nat
      /\ Cardinality(index \ enforcer[d].keys) \in Nat
  <2>1. IsFiniteSet(index \ enforcer[d].keys)
    BY Smaller DEF Inv
  <2>2. QED
    BY <1>1, <2>1, FS_Subset, FS_CardinalityType
<1>4. enforcer[d].excess \in Nat
  BY DEF Inv, TypeOK
<1>5. QED
  BY <1>2, <1>3, <1>4, BoundType DEF AnswersFor, Bound

\* They also do when a creation adds one job without an answer.
LEMMA OneMore ==
    ASSUME Inv, Accounted, NEW c \in Creations, CreateUnanswered(c)
    PROVE  Accounted'
<1> USE DEF CreateUnanswered
<1>1. Bound' = Bound + 1 /\ Bound \in Nat
  <2>1. c \notin uncounted
    BY DEF Inv, CreationsKnown
  <2>2. Cardinality(uncounted') = Cardinality(uncounted) + 1
    BY <2>1, FS_AddElement DEF Inv
  <2>3. QED
    BY <2>2, BoundType, StoreAssumption DEF Bound
<1>2. ASSUME NEW S, IsFiniteSet(S), index' \subseteq index \cup {c}
      PROVE  /\ Cardinality(index' \ S) <= Cardinality(index \ S) + 1
             /\ Cardinality(index' \ S) \in Nat /\ Cardinality(index \ S) \in Nat
  <2>1. IsFiniteSet(index \ S)
    BY FS_Subset DEF Inv
  <2>2. /\ IsFiniteSet((index \ S) \cup {c})
        /\ Cardinality((index \ S) \cup {c}) \in {Cardinality(index \ S), Cardinality(index \ S) + 1}
    BY <2>1, FS_AddElement
  <2>3. index' \ S \subseteq (index \ S) \cup {c}
    BY <1>2
  <2>4. QED
    BY <2>1, <2>2, <2>3, FS_Subset, FS_CardinalityType
<1>3. index' \subseteq index \cup {c}
  BY WithType
<1>4. CASE Cardinality(index) <= Bound
  <2>1. index' \ {} = index' /\ index \ {} = index
    OBVIOUS
  <2>2. Cardinality(index') <= Cardinality(index) + 1 /\ Cardinality(index') \in Nat /\ Cardinality(index) \in Nat
    BY <1>2, <1>3, <2>1, FS_EmptySet
  <2>3. QED
    BY <1>1, <1>4, <2>2 DEF Accounted
<1>5. CASE \E e \in Creations : AnswersFor(e)
  <2>1. PICK e \in Creations : AnswersFor(e)
    BY <1>5
  <2>2. enforcer'[e] = enforcer[e] /\ enforcer[e].excess \in Nat
    BY DEF Inv, TypeOK
  <2>3. CASE enforcer[e].pc \in {"spawned", "failed"}
    BY <2>2, <2>3 DEF Accounted, AnswersFor
  <2>4. CASE enforcer[e].pc = "counted"
    <3>1. index' \ {} = index' /\ index \ {} = index
      OBVIOUS
    <3>2. Cardinality(index') <= Cardinality(index) + 1 /\ Cardinality(index') \in Nat /\ Cardinality(index) \in Nat
      BY <1>2, <1>3, <3>1, FS_EmptySet
    <3>3. Cardinality(index) <= Bound + enforcer[e].excess
      BY <2>1, <2>4 DEF AnswersFor
    <3>4. Cardinality(index') <= Bound' + enforcer'[e].excess
      BY <1>1, <2>2, <3>2, <3>3
    <3>5. QED
      BY <2>2, <2>4, <3>4 DEF Accounted, AnswersFor
  <2>5. CASE enforcer[e].pc \in {"delete", "unindex"}
    <3> DEFINE keys == enforcer[e].keys
    <3>1. Cardinality(index \ keys) <= Bound
      BY <2>1, <2>5 DEF AnswersFor
    <3>2. index' \ keys \subseteq (index \ keys) \cup {c}
      BY <1>3
    <3>3. IsFiniteSet(index \ keys)
      BY FS_Subset DEF Inv
    <3> HIDE DEF keys
    <3>4. /\ IsFiniteSet((index \ keys) \cup {c})
          /\ Cardinality((index \ keys) \cup {c}) \in {Cardinality(index \ keys), Cardinality(index \ keys) + 1}
      BY <3>3, FS_AddElement
    <3>5. /\ Cardinality(index' \ keys) <= Cardinality(index \ keys) + 1
          /\ Cardinality(index' \ keys) \in Nat /\ Cardinality(index \ keys) \in Nat
      BY <3>2, <3>3, <3>4, FS_Subset, FS_CardinalityType
    <3>6. Cardinality(index' \ keys) <= Bound'
      BY <1>1, <3>1, <3>5
    <3>7. QED
      BY <2>2, <2>5, <3>6 DEF Accounted, AnswersFor, keys
  <2>6. QED
    BY <2>1, <2>3, <2>4, <2>5 DEF AnswersFor
<1>6. QED
  BY <1>4, <1>5 DEF Accounted

LEMMA AccountedKept == ASSUME Inv, Inv', Accounted, [Next]_vars PROVE Accounted'
<1> USE StoreAssumption DEF dataVars
\* Steps that leave the index and the enforcers alone.
<1>1. ASSUME UNCHANGED <<index, enforcer, uncounted>> PROVE Accounted'
  BY <1>1 DEF Accounted, AnswersFor, Bound
<1>2. ASSUME NEW c \in Creations, AddToIndex(c) PROVE Accounted'
  <2>1. enforcer'[c].pc = "spawned"
    BY <1>2 DEF AddToIndex, Inv, TypeOK
  <2>2. QED
    BY <2>1 DEF Accounted, AnswersFor
\* A step of enforcer e.
<1>3. ASSUME NEW e \in Creations, index' \subseteq index, UNCHANGED uncounted,
             \A d \in Creations \ {e} : enforcer'[d] = enforcer[d],
             AnswersFor(e) => Cardinality(index') <= Bound' \/ AnswersFor(e)'
      PROVE  Accounted'
  <2>1. CASE Cardinality(index) <= Bound
    <3>1. index' \in SUBSET index
      BY <1>3
    <3>2. Cardinality(index') <= Cardinality(index) /\ Cardinality(index') \in Nat /\ Cardinality(index) \in Nat
      BY <3>1, Smaller DEF Inv
    <3>3. QED
      BY <1>3, <2>1, <3>2, BoundType DEF Accounted, Bound
  <2>2. CASE \E d \in Creations \ {e} : AnswersFor(d)
    BY <1>3, <2>2, OthersAnswer DEF Accounted
  <2>3. CASE AnswersFor(e)
    BY <1>3, <2>3 DEF Accounted
  <2>4. QED
    BY <2>1, <2>2, <2>3 DEF Accounted
<1>4. ASSUME NEW e \in Creations, Count(e) PROVE Accounted'
  <2>1. /\ \A d \in Creations \ {e} : enforcer'[d] = enforcer[d]
        /\ Cardinality(index) > MaxHistory =>
              /\ enforcer'[e].pc = "counted"
              /\ enforcer'[e].excess = Cardinality(index) - MaxHistory
    BY <1>4, EnforcerType DEF Count, Inv, TypeOK, Enforcers
  <2>2. Cardinality(index) \in Nat /\ UNCHANGED index
    BY <1>4, IndexSize DEF Count, Inv
  <2>3. Bound' = MaxHistory
    BY <1>4, FS_EmptySet DEF Count, Bound
  <2>4. QED
    BY <2>1, <2>2, <2>3 DEF Accounted, AnswersFor
<1>5. ASSUME NEW e \in Creations, Select(e) PROVE Accounted'
  <2> DEFINE keys == KeyRange(0, enforcer[e].excess)
  <2>1. keys \in SUBSET Creations /\ keys \subseteq index
    BY DEF KeyRange, Inv, TypeOK
  <2>2. /\ \A d \in Creations \ {e} : enforcer'[d] = enforcer[d]
        /\ enforcer'[e] = Deleting(keys)
        /\ UNCHANGED <<index, uncounted>> /\ Bound' = Bound
        /\ enforcer[e].pc = "counted" /\ enforcer[e].excess \in Nat
    BY <1>5 DEF Select, Inv, TypeOK, ghostVars, Bound
  <2>3. ASSUME AnswersFor(e) PROVE Cardinality(index') <= Bound' \/ AnswersFor(e)'
    <3>1. Cardinality(index \ keys) <= Bound
      BY <2>2, <2>3, BoundType, RangeSuffices DEF AnswersFor
    <3> HIDE DEF keys
    <3>2. CASE keys = {}
      BY <2>2, <3>1, <3>2
    <3>3. CASE keys # {}
      <4>1. enforcer'[e].pc = "delete" /\ enforcer'[e].keys = keys
        BY <2>1, <2>2, <3>3, DeletingType
      <4>2. QED
        BY <2>2, <3>1, <4>1 DEF AnswersFor
    <3>4. QED
      BY <3>2, <3>3
  <2>4. QED
    BY <1>3, <2>2, <2>3
<1>6. ASSUME NEW e \in Creations, EnforcerFails(e) PROVE Accounted'
  <2>1. enforcer'[e].pc = "failed"
    BY <1>6 DEF EnforcerFails, Inv, TypeOK
  <2>2. QED
    BY <2>1 DEF Accounted, AnswersFor
<1>7. ASSUME NEW e \in Creations, DeleteRecord(e) PROVE Accounted'
  <2>1. /\ \A d \in Creations \ {e} : enforcer'[d] = enforcer[d]
        /\ enforcer'[e].pc = "unindex" /\ enforcer'[e].keys = enforcer[e].keys
        /\ UNCHANGED <<index, uncounted>> /\ Bound' = Bound /\ enforcer[e].pc = "delete"
    BY <1>7, EnforcerType DEF DeleteRecord, Inv, TypeOK, Enforcers, Bound
  <2>2. AnswersFor(e) => AnswersFor(e)'
    BY <2>1 DEF AnswersFor
  <2>3. QED
    BY <1>3, <2>1, <2>2
<1>8. ASSUME NEW e \in Creations, RemoveFromIndex(e) PROVE Accounted'
  <2> DEFINE c == First(enforcer[e].keys)
             keys == enforcer[e].keys \ {c}
  <2>1. /\ keys \in SUBSET Creations /\ c \in enforcer[e].keys
        /\ At(e) \in Jobs /\ enforcer[e].pc = "unindex"
    BY <1>8, AtJob DEF RemoveFromIndex, Inv, TypeOK
  <2>2. /\ \A d \in Creations \ {e} : enforcer'[d] = enforcer[d]
        /\ enforcer'[e] = Deleting(keys)
        /\ index' = Without(At(e))
        /\ UNCHANGED uncounted /\ Bound' = Bound
    BY <1>8 DEF RemoveFromIndex, Inv, TypeOK, ghostVars, Bound
  <2>6. index' \subseteq index /\ c \notin index'
    BY <2>1, <2>2, WithoutType DEF At, Without
  <2>3. /\ index' \ keys \subseteq index \ enforcer[e].keys
        /\ IsFiniteSet(index \ enforcer[e].keys)
    BY <2>1, <2>6, FS_Subset DEF Inv
  <2>4. ASSUME AnswersFor(e) PROVE Cardinality(index') <= Bound' \/ AnswersFor(e)'
    <3>1. Cardinality(index' \ keys) <= Bound
      <4>1. Cardinality(index \ enforcer[e].keys) <= Bound
        BY <2>1, <2>4 DEF AnswersFor
      <4> HIDE DEF keys
      <4>2. QED
        BY <2>3, <4>1, BoundType, FS_Subset, FS_CardinalityType
    <3> HIDE DEF keys, c
    <3>2. CASE keys = {}
      BY <2>2, <3>1, <3>2
    <3>3. CASE keys # {}
      <4>1. enforcer'[e].pc = "delete" /\ enforcer'[e].keys = keys
        BY <2>1, <2>2, <3>3, DeletingType
      <4>2. QED
        BY <2>2, <3>1, <4>1 DEF AnswersFor
    <3>4. QED
      BY <3>2, <3>3
  <2>5. QED
    BY <1>3, <2>2, <2>4, <2>6
<1>9. CASE \E c \in Creations : SetFresh(c) \/ CreateFails(c)
  BY <1>1, <1>9 DEF SetFresh, CreateFails, ghostVars
<1>10. CASE \E w \in Writers : Read(w) \/ Write(w) \/ WriteFails(w)
  BY <1>1, <1>10 DEF Read, Write, WriteFails, ghostVars
<1>11. CASE UNCHANGED vars
  BY <1>1, <1>11 DEF vars, dataVars, callVars, ghostVars
<1>12. QED
  BY <1>2, <1>4, <1>5, <1>6, <1>7, <1>8, <1>9, <1>10, <1>11, OneMore DEF Next

-----------------------------------------------------------------------------
(* Pages                                                                   *)

\* Division with a remainder.
LEMMA Quotient ==
    ASSUME NEW L \in Nat \ {0}, NEW r \in Nat
    PROVE  \E a \in Nat : L * a \in Nat /\ L * a <= r /\ r < L * a + L
<1>1. r \div L \in Nat
  <2>1. r \div L \in Int
    OBVIOUS
  <2>2. r \div L >= 0
    OBVIOUS
  <2>3. QED
    BY <2>1, <2>2
<1>2. r - L * (r \div L) = r % L
  OBVIOUS
<1>3. r % L \in Int /\ 0 <= r % L /\ r % L < L
  OBVIOUS
<1>4. PICK a \in Nat : a = r \div L
  BY <1>1
<1>5. L * a \in Nat
  OBVIOUS
<1>6. L * a <= r /\ r < L * a + L
  <2> PICK b \in Nat : b = L * a
    BY <1>5
  <2>1. r - b = r % L
    BY <1>2, <1>4
  <2>2. b <= r /\ r < b + L
    BY <1>3, <2>1
  <2>3. QED
    BY <2>2
<1>7. QED
  BY <1>5, <1>6

LEMMA MultipleOf ==
    ASSUME NEW L \in Nat \ {0}, NEW a \in Nat
    PROVE  (L * a) % L = 0
BY SMTT(30)

LEMMA MultiplesApart ==
    ASSUME NEW L \in Nat \ {0}, NEW a \in Nat, NEW b \in Nat, a < b
    PROVE  L * a + L <= L * b
<1>1. a + 1 <= b
  OBVIOUS
<1>2. L * (a + 1) <= L * b
  BY <1>1, SMTT(30)
<1>3. L * (a + 1) = L * a + L
  BY SMTT(30)
<1>4. QED
  BY <1>2, <1>3

LEMMA DivisibleIsMultiple ==
    ASSUME NEW L \in Nat \ {0}, NEW p \in Nat, p % L = 0
    PROVE  \E a \in Nat : p = L * a
OBVIOUS

\* No two multiples are less than a page from the same rank.
LEMMA OnePage ==
    ASSUME NEW L \in Nat \ {0}, NEW r \in Nat, NEW p \in Nat, NEW q \in Nat,
           p % L = 0, q % L = 0, p <= r, r < p + L, q <= r, r < q + L
    PROVE  p = q
<1>1. PICK a \in Nat : p = L * a
  BY DivisibleIsMultiple
<1>2. PICK b \in Nat : q = L * b
  BY DivisibleIsMultiple
<1>3. ASSUME a < b PROVE FALSE
  <2>1. p + L <= q
    BY <1>1, <1>2, <1>3, MultiplesApart
  <2>2. QED
    BY <2>1
<1>4. ASSUME b < a PROVE FALSE
  <2>1. q + L <= p
    BY <1>1, <1>2, <1>4, MultiplesApart
  <2>2. QED
    BY <2>1
<1>5. a = b
  BY <1>3, <1>4
<1>6. QED
  BY <1>1, <1>2, <1>5

LEMMA RankInIndex ==
    ASSUME Inv, NEW c \in index
    PROVE  Rank(c) \in 0 .. Cardinality(index) - 1
<1> DEFINE below == {d \in index : d < c}
<1>1. below \in SUBSET index /\ c \notin below
  BY StoreAssumption DEF Inv, TypeOK
<1>2. /\ Cardinality(below) \in Nat /\ Cardinality(index) \in Nat
      /\ Cardinality(below) <= Cardinality(index)
      /\ Cardinality(index) = Cardinality(below) => index = below
  BY <1>1, FS_Subset, FS_CardinalityType DEF Inv
<1>3. Rank(c) = Cardinality(below)
  BY DEF Rank
<1> HIDE DEF below
<1>4. Cardinality(below) # Cardinality(index)
  BY <1>1, <1>2
<1>5. QED
  BY <1>2, <1>3, <1>4

\* A page has the jobs of Limit ranks, counted from the oldest.
LEMMA PageOfRank ==
    ASSUME Inv, NEW c \in index, records[IdOf[c]] # Absent,
           NEW p \in 0 .. Cardinality(index) - 1
    PROVE  IdOf[c] \in Page(p) <=> p <= Rank(c) /\ Rank(c) < p + Limit
<1> DEFINE n == Cardinality(index)
           r == Rank(c)
<1>1. n \in Nat /\ r \in 0 .. n - 1 /\ Limit \in Nat \ {0}
  BY RankInIndex, IndexSize, StoreAssumption DEF Inv
<1>2. IdOf[c] \in Page(p) <=> n - 1 - r \in Minus(n, p + Limit) .. Minus(Minus(n, p), 1)
  <2> DEFINE range == RevRange(Minus(n, p + Limit), Minus(Minus(n, p), 1))
  <2>1. IdOf[c] \in Page(p) <=> \E d \in range : IdOf[d] = IdOf[c]
    BY DEF Page, Shown
  <2>2. \A d \in range : IdOf[d] = IdOf[c] => d = c
    BY DEF RevRange, Inv, CreationsKnown
  <2>3. IdOf[c] \in Page(p) <=> c \in range
    BY <2>1, <2>2
  <2>4. QED
    BY <2>3 DEF RevRange
<1> HIDE DEF n, r
<1>3. p \in 0 .. n - 1
  BY DEF n
<1>4. Minus(Minus(n, p), 1) = n - p - 1
  BY <1>1, <1>3 DEF Minus
<1>5. Minus(n, p + Limit) = IF p + Limit > n THEN 0 ELSE n - (p + Limit)
  BY DEF Minus
<1>6. n - 1 - r \in Minus(n, p + Limit) .. n - p - 1 <=> p <= r /\ r < p + Limit
  BY <1>1, <1>3, <1>5
<1>7. QED
  BY <1>2, <1>4, <1>6 DEF r

-----------------------------------------------------------------------------
(* The theorems                                                            *)

\* The variables keep their types: no difference of counts goes below zero.
THEOREM TypeCorrect == Spec => []TypeOK
<1>1. Inv => TypeOK
  BY DEF Inv
<1>2. QED
  BY <1>1, InvHolds, PTL

\* The index and the records agree but for what is said in the invariant.
THEOREM IndexAgrees == Spec => []IndexMatchesRecords
<1>1. Inv => IndexMatchesRecords
  BY DEF Inv
<1>2. QED
  BY <1>1, InvHolds, PTL

\* However many enforcers count, select and delete side by side, and although
\* each selects from an index that may have changed since it counted: when all
\* are done and none has failed, the index is no longer than configured, but for
\* the jobs that were added without an answer since it was last counted.
THEOREM HistoryIsBounded == Spec => []HistoryBounded
<1>1. Init => Accounted
  BY FS_EmptySet, StoreAssumption DEF Init, Accounted, Bound
<1>2. ASSUME Inv, Inv', Accounted, [Next]_vars PROVE Accounted'
  BY <1>2, AccountedKept
<1>3. ASSUME Accounted PROVE HistoryBounded
  BY <1>3 DEF Accounted, AnswersFor, Bound, HistoryBounded
<1>4. QED
  BY <1>1, <1>2, <1>3, InvHolds, PTL DEF Spec

\* No update takes a result or an error out of a record, unless it overlapped
\* with another one.
THEOREM ResultsAreKept == Spec => ResultKept
<1> DEFINE Kept ==
    \A j \in Jobs :
        (/\ records[j] # Absent
         /\ records[j].result \/ records[j].error
         /\ records'[j] # Absent
         /\ j \notin overlapped'
         /\ ~ Recreated(j))
        => /\ records[j].result => records'[j].result
           /\ records[j].error => records'[j].error
<1>1. ASSUME Inv, [Next]_vars PROVE Kept
  <2> SUFFICES ASSUME NEW j \in Jobs, records[j] # Absent, records'[j] # Absent,
                      j \notin overlapped', ~ Recreated(j), records'[j] # records[j]
               PROVE  /\ records[j].result => records'[j].result
                      /\ records[j].error => records'[j].error
    OBVIOUS
  <2>1. ASSUME NEW c \in Creations, SetFresh(c) PROVE FALSE
    BY <1>1, <2>1 DEF SetFresh, Recreated, Inv, TypeOK
  <2>2. ASSUME NEW e \in Creations, DeleteRecord(e) PROVE FALSE
    BY <1>1, <2>2 DEF DeleteRecord, Inv, TypeOK
  <2>3. ASSUME NEW w \in Writers, Write(w)
        PROVE  /\ records[j].result => records'[j].result
               /\ records[j].error => records'[j].error
    <3>1. PICK r \in Records : /\ records' = [records EXCEPT ![Target[w]] = r]
                               /\ copy[w].result => r.result
                               /\ copy[w].error => r.error
      BY <1>1, <2>3, WriteType
    <3>2. Target[w] = j /\ records'[j] = r
      BY <1>1, <3>1 DEF Inv, TypeOK
    <3>3. copy[w] = records[j]
      <4>1. j \notin overlapped /\ copy[w] # Absent
        BY <2>3 DEF Write
      <4>2. QED
        BY <1>1, <3>2, <4>1 DEF Inv, CopiesFresh
    <3>4. QED
      BY <3>1, <3>2, <3>3
  <2>4. UNCHANGED records \/ (\E c \in Creations : SetFresh(c)) \/ (\E e \in Creations : DeleteRecord(e))
           \/ (\E w \in Writers : Write(w))
    BY <1>1 DEF Next, AddToIndex, CreateFails, CreateUnanswered, Read, WriteFails, Count, Select, EnforcerFails,
                RemoveFromIndex, vars, dataVars
  <2>5. QED
    BY <2>1, <2>2, <2>3, <2>4
<1>2. Inv /\ [Next]_vars => [Kept]_vars
  BY <1>1
<1>3. QED
  BY <1>2, InvHolds, PTL DEF Spec, ResultKept

\* Whatever the page size, the pages a client reads one after the other show every
\* job that has a record once, although each is cut from the wrong end.
THEOREM PagesShowAll == Spec => []PagesPartition
<1>1. ASSUME Inv, NEW c \in index, NEW j \in Jobs, IdOf[c] = j, records[j] # Absent
      PROVE  Cardinality({p \in 0..(Cardinality(index) - 1) : p % Limit = 0 /\ j \in Page(p)}) = 1
  <2> DEFINE n == Cardinality(index)
             r == Rank(c)
             with == {p \in 0..(n - 1) : p % Limit = 0 /\ j \in Page(p)}
  <2>1. n \in Nat /\ r \in 0 .. n - 1 /\ Limit \in Nat \ {0}
    BY <1>1, RankInIndex, IndexSize, StoreAssumption DEF Inv
  <2>2. \A p \in 0 .. n - 1 : j \in Page(p) <=> p <= r /\ r < p + Limit
    BY <1>1, PageOfRank
  <2> HIDE DEF n, r
  <2>3. r \in Nat
    BY <2>1
  <2>4. PICK a \in Nat : Limit * a \in Nat /\ Limit * a <= r /\ r < Limit * a + Limit
    BY <2>1, <2>3, Quotient
  <2>5. (Limit * a) % Limit = 0
    BY <2>1, MultipleOf
  <2> PICK m \in Nat : m = Limit * a
    BY <2>4
  <2>6. m \in 0 .. n - 1 /\ m % Limit = 0 /\ m <= r /\ r < m + Limit
    BY <2>1, <2>4, <2>5
  <2>7. m \in with
    BY <2>2, <2>6
  <2>8. ASSUME NEW q \in with PROVE q = m
    <3>1. q \in Nat /\ q % Limit = 0 /\ q <= r /\ r < q + Limit
      BY <2>1, <2>2
    <3>2. QED
      BY <2>1, <2>3, <2>6, <3>1, OnePage
  <2>9. with = {m}
    BY <2>7, <2>8
  <2>10. Cardinality(with) = 1
    BY <2>9, FS_Singleton
  <2>11. QED
    BY <2>10 DEF n
<1>2. Inv => PagesPartition
  BY <1>1 DEF PagesPartition, Indexed
<1>3. QED
  BY <1>2, InvHolds, PTL

=============================================================================
