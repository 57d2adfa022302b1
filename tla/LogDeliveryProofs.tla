------------------------- MODULE LogDeliveryProofs -------------------------
(***************************************************************************)
(* Theorems about LogDelivery, for every number of chunks and of retries.  *)
(*                                                                         *)
(* The argument follows an item: once begun it is in exactly one place,    *)
(* and as long as it is in a batch it has been stored no more often than   *)
(* requests of that batch have failed.                                     *)
(***************************************************************************)
EXTENDS LogDelivery, FiniteSetTheorems, TLAPS

States == {"idle", "spawned", "numbered", "pushed", "flushing", "sending", "done", "aborted"}

Held(x) == {a \in Actors : x \in ItemsOf(batch[a])}

\* What each actor may be doing, and that only a sending one has a batch.
Roles ==
    /\ pc[Flusher] \in {"idle", "sending"}
    /\ pc[Publisher] \in {"idle", "sending", "done", "aborted"}
    /\ job = "running" => pc[Publisher] = "idle"
    /\ \A c \in Chunks : c > emitted => pc[c] = "idle"
    /\ \A a \in Actors : pc[a] # "sending" => batch[a] = << >>
    /\ pc[Publisher] = "sending" => batch[Publisher] = <<Completion>>

\* The item is in one place if it has begun and nowhere if it has not, or if it
\* was abandoned.
Placed(x) ==
    /\ \A a, b \in Held(x) : a = b
    /\ x \in settled => x \notin dropped
    /\ x \in ItemsOf(buffer) => x \notin settled /\ x \notin dropped
    /\ x \in ItemsOf(buffer) \cup settled \cup dropped => Held(x) = {}
    /\ Abandoned(x) => Held(x) = {} /\ x \notin ItemsOf(buffer) \cup settled \cup dropped
    /\ Begun(x) <=> \/ x \in ItemsOf(buffer) \cup settled \cup dropped
                    \/ Held(x) # {}
                    \/ Abandoned(x)

Counted(x) ==
    /\ x \in settled => stored[x] >= 1
    /\ stored[x] <= MaxRetries
    /\ \A a \in Held(x) : stored[x] <= attempt[a]
    /\ x \notin settled \cup dropped /\ Held(x) = {} /\ ~ Abandoned(x) => stored[x] = 0

\* The step neither begins nor abandons the item.
Kept(x) == (Begun(x)' <=> Begun(x)) /\ (Abandoned(x)' <=> Abandoned(x))

Numbered == {c \in Chunks : number[c] # NoNumber}

\* As many numbers are out as the counter says, and a chunk has one once its
\* task has passed the counter.
Numbering ==
    /\ next = Cardinality(Numbered)
    /\ \A c \in Chunks : number[c] = NoNumber <=> pc[c] \in {"idle", "spawned"}

Inv == /\ TypeOK
       /\ Roles
       /\ \A x \in Items : Placed(x) /\ Counted(x)
       /\ Numbering
       /\ NumbersDense

-----------------------------------------------------------------------------
(* Lemmas                                                                  *)

\* The items of the sequences that the steps build.
LEMMA EmptyItems == ItemsOf(<< >>) = {}
BY DEF ItemsOf

LEMMA SingleItem == ASSUME NEW x PROVE ItemsOf(<<x>>) = {x}
BY DEF ItemsOf

LEMMA AppendItems ==
    ASSUME NEW s \in Seq(Chunks), NEW c \in Chunks
    PROVE  ItemsOf(Append(s, c)) = ItemsOf(s) \cup {c}
<1> DEFINE t == Append(s, c)
<1>1. /\ Len(t) = Len(s) + 1 /\ DOMAIN t = 1 .. Len(s) + 1
      /\ DOMAIN s = 1 .. Len(s) /\ Len(s) \in Nat
      /\ t[Len(s) + 1] = c /\ \A i \in 1 .. Len(s) : t[i] = s[i]
  OBVIOUS
<1>2. ItemsOf(t) \subseteq ItemsOf(s) \cup {c}
  BY <1>1 DEF ItemsOf
<1>3. ItemsOf(s) \cup {c} \subseteq ItemsOf(t)
  <2>1. c \in ItemsOf(t)
    <3>1. Len(s) + 1 \in DOMAIN t
      BY <1>1
    <3>2. QED
      BY <3>1, <1>1 DEF ItemsOf
  <2>2. ASSUME NEW i \in DOMAIN s PROVE s[i] \in ItemsOf(t)
    <3>1. i \in DOMAIN t /\ t[i] = s[i]
      BY <1>1, <2>2
    <3>2. QED
      BY <3>1 DEF ItemsOf
  <2>3. QED
    BY <2>1, <2>2 DEF ItemsOf
<1>4. QED
  BY <1>2, <1>3

LEMMA ItemsType ==
    ASSUME NEW S, NEW s \in Seq(S)
    PROVE  ItemsOf(s) \subseteq S
BY DEF ItemsOf

LEMMA ChunkSequences == \A s \in Seq(Chunks) : s \in Seq(Items)
BY DEF Items

LEMMA Names ==
    /\ Flusher \notin Chunks /\ Publisher \notin Chunks /\ Completion \notin Chunks
    /\ Flusher # Publisher
    /\ Flusher \in Actors /\ Publisher \in Actors /\ Completion \in Items
    /\ Chunks \subseteq Items /\ Chunks \subseteq Actors /\ Chunks \subseteq Nat
BY DeliveryAssumption DEF Chunks, Items, Actors

LEMMA FiniteChunks ==
    /\ IsFiniteSet(Chunks) /\ Cardinality(Chunks) = Lines
    /\ \A S \in SUBSET Chunks : IsFiniteSet(S) /\ Cardinality(S) \in 0 .. Lines
<1>1. IsFiniteSet(Chunks) /\ Cardinality(Chunks) = Lines
  BY DeliveryAssumption, FS_Interval DEF Chunks
<1>2. QED
  BY <1>1, FS_Subset, FS_CardinalityType, DeliveryAssumption

LEMMA InitInv == Init => Inv
<1> SUFFICES ASSUME Init PROVE Inv
  OBVIOUS
<1> USE DeliveryAssumption DEF Init
<1>1. TypeOK
  BY DEF TypeOK
<1>2. Roles
  BY Names DEF Roles
<1>3. ASSUME NEW x \in Items PROVE Placed(x) /\ Counted(x)
  <2>1. Held(x) = {} /\ ItemsOf(buffer) = {}
    BY EmptyItems DEF Held
  <2>2. ~Begun(x) /\ ~Abandoned(x)
    BY <1>3, Names DEF Begun, Abandoned, Items, Actors
  <2>3. QED
    BY <1>3, <2>1, <2>2 DEF Placed, Counted
<1>4. Numbering
  <2>1. Numbered = {}
    BY DEF Numbered
  <2>2. QED
    BY <2>1, FS_EmptySet, Names DEF Numbering
<1>5. NumbersDense
  BY DEF NumbersDense
<1>6. QED
  BY <1>1, <1>2, <1>3, <1>4, <1>5 DEF Inv

-----------------------------------------------------------------------------
(* The steps                                                               *)

\* A step that touches neither the buffer, nor a batch, nor the server.
LEMMA HandsOff ==
    ASSUME Inv, NEW x \in Items,
           UNCHANGED <<buffer, batch, attempt, serverVars>>, Kept(x)
    PROVE  Placed(x)' /\ Counted(x)'
<1>1. Held(x)' = Held(x)
  BY DEF Held
<1>2. Placed(x) /\ Counted(x)
  BY DEF Inv
<1>3. QED
  BY <1>1, <1>2 DEF Placed, Counted, Kept, serverVars

\* A step that gives no number and moves no task past the counter.
LEMMA NumbersKept ==
    ASSUME Inv, UNCHANGED <<next, number>>,
           \A c \in Chunks : pc[c] \in {"idle", "spawned"} <=> pc'[c] \in {"idle", "spawned"}
    PROVE  Numbering' /\ NumbersDense'
<1>1. Numbered' = Numbered
  BY DEF Numbered
<1>2. Numbering /\ NumbersDense
  BY DEF Inv
<1>3. Numbering'
  BY <1>1, <1>2 DEF Numbering
<1>4. NumbersDense'
  BY <1>2 DEF NumbersDense
<1>5. QED
  BY <1>3, <1>4

LEMMA EmitKeeps == ASSUME Inv, Emit PROVE Inv'
<1> USE Names, DeliveryAssumption DEF Emit
<1>1. emitted + 1 \in Chunks /\ pc[emitted + 1] = "idle"
  BY DEF Inv, TypeOK, Roles, Chunks
<1>2. TypeOK'
  <2>1. pc' \in [Actors -> States]
    BY <1>1 DEF Inv, TypeOK, States
  <2>2. emitted' \in 0 .. Lines
    BY <1>1 DEF Chunks
  <2>3. QED
    BY <2>1, <2>2 DEF Inv, TypeOK, serverVars, States
<1>3. Roles'
  BY <1>1 DEF Inv, TypeOK, Roles
<1>4. ASSUME NEW x \in Items PROVE Placed(x)' /\ Counted(x)'
  <2>1. Kept(x)
    BY <1>1 DEF Kept, Begun, Abandoned, Inv, TypeOK, Items, Actors
  <2>2. QED
    BY <2>1, HandsOff DEF serverVars
<1>5. Numbering' /\ NumbersDense'
  BY <1>1, NumbersKept DEF Inv, TypeOK
<1>6. QED
  BY <1>2, <1>3, <1>4, <1>5 DEF Inv

LEMMA EndSilentlyKeeps == ASSUME Inv, EndSilently \/ UNCHANGED vars PROVE Inv'
<1> USE DEF EndSilently, vars, serverVars
<1>1. TypeOK' /\ Roles'
  BY DEF Inv, TypeOK, Roles
<1>2. ASSUME NEW x \in Items PROVE Placed(x)' /\ Counted(x)'
  <2>1. Kept(x)
    BY DEF Kept, Begun, Abandoned
  <2>2. QED
    BY <2>1, HandsOff
<1>3. Numbering' /\ NumbersDense'
  BY NumbersKept
<1>4. QED
  BY <1>1, <1>2, <1>3 DEF Inv

LEMMA PublishKeeps == ASSUME Inv, Publish PROVE Inv'
<1> USE Names, DeliveryAssumption DEF Publish
<1>1. pc[Publisher] = "idle" /\ batch[Publisher] = << >>
  BY DEF Inv, Roles
<1>2. TypeOK'
  <2>1. <<Completion>> \in Seq(Items)
    OBVIOUS
  <2>2. QED
    BY <2>1 DEF Inv, TypeOK, serverVars
<1>3. Roles'
  BY DEF Inv, TypeOK, Roles
<1>4. ASSUME NEW x \in Items PROVE Placed(x)' /\ Counted(x)'
  <2>1. CASE x = Completion
    <3>1. ~Begun(x) /\ Begun(x)' /\ ~Abandoned(x)'
      BY <2>1, <1>1 DEF Begun, Abandoned, Inv, TypeOK
    <3>2. Placed(x) /\ Counted(x)
      BY DEF Inv
    <3>3. Held(x)' = {Publisher}
      BY <2>1, <3>1, <3>2, SingleItem DEF Held, Placed, Inv, TypeOK
    <3>4. stored[x] = 0 /\ attempt[Publisher] \in Nat
      BY <3>1, <3>2 DEF Placed, Counted, Inv, TypeOK
    <3>5. QED
      BY <3>1, <3>2, <3>3, <3>4 DEF Placed, Counted, serverVars
  <2>2. CASE x # Completion
    <3>1. Held(x)' = Held(x)
      BY <2>2, <1>1, SingleItem, EmptyItems DEF Held, Inv, TypeOK
    <3>2. Kept(x)
      BY <2>2 DEF Kept, Begun, Abandoned, Inv, TypeOK, Items
    <3>3. Placed(x) /\ Counted(x)
      BY DEF Inv
    <3>4. QED
      BY <3>1, <3>2, <3>3 DEF Placed, Counted, Kept, serverVars
  <2>3. QED
    BY <2>1, <2>2
<1>5. Numbering' /\ NumbersDense'
  BY NumbersKept DEF Inv, TypeOK
<1>6. QED
  BY <1>2, <1>3, <1>4, <1>5 DEF Inv

LEMMA TakeNumberKeeps == ASSUME Inv, NEW c \in Chunks, TakeNumber(c) PROVE Inv'
<1> USE Names, DeliveryAssumption DEF TakeNumber
<1>1. /\ c \notin Numbered /\ Numbered \in SUBSET Chunks
      /\ Numbered' = Numbered \cup {c}
  BY DEF Inv, TypeOK, Numbering, Numbered
<1>2. /\ next \in 0 .. Lines - 1
      /\ next' = Cardinality(Numbered')
  <2>1. /\ IsFiniteSet(Numbered)
        /\ Cardinality(Numbered') = Cardinality(Numbered) + 1
        /\ Cardinality(Numbered') \in 0 .. Lines
    <3>1. Numbered' \in SUBSET Chunks
      BY <1>1
    <3>2. QED
      BY <1>1, <3>1, FiniteChunks, FS_AddElement
  <2>2. QED
    BY <2>1 DEF Inv, TypeOK, Numbering
<1>3. TypeOK'
  <2>1. pc' \in [Actors -> States]
    BY DEF Inv, TypeOK, States
  <2>2. number' \in [Chunks -> 0 .. Lines - 1 \cup {NoNumber}]
    BY <1>2 DEF Inv, TypeOK
  <2>3. next' \in 0 .. Lines
    BY <1>2
  <2>4. QED
    BY <2>1, <2>2, <2>3 DEF Inv, TypeOK, serverVars, States
<1>4. Roles'
  BY DEF Inv, TypeOK, Roles
<1>5. ASSUME NEW x \in Items PROVE Placed(x)' /\ Counted(x)'
  <2>1. Kept(x)
    BY DEF Kept, Begun, Abandoned, Inv, TypeOK, Items, Actors
  <2>2. QED
    BY <2>1, HandsOff
<1>6. Numbering'
  <2>1. next # NoNumber
    BY <1>2
  <2>2. \A d \in Chunks : number'[d] = NoNumber <=> pc'[d] \in {"idle", "spawned"}
    BY <2>1 DEF Inv, TypeOK, Numbering
  <2>3. QED
    BY <1>2, <2>2 DEF Numbering
<1>7. NumbersDense'
  <2>1. number[c] = NoNumber
    BY DEF Inv, Numbering
  <2>2. {number[d] : d \in Chunks} \ {NoNumber} = 0 .. next - 1
    BY DEF Inv, NumbersDense
  <2>3. \A d \in Chunks : number[d] # next
    <3>1. next \notin 0 .. next - 1 /\ next # NoNumber
      BY <1>2
    <3>2. QED
      BY <2>2, <3>1
  <2>4. \A d \in Chunks : number'[d] = IF d = c THEN next ELSE number[d]
    BY DEF Inv, TypeOK
  <2>5. {number'[d] : d \in Chunks} \ {NoNumber} = ({number[d] : d \in Chunks} \ {NoNumber}) \cup {next}
    <3> DEFINE Old == {number[d] : d \in Chunks}
               New == {number'[d] : d \in Chunks}
    <3>1. next # NoNumber
      BY <1>2
    <3>2. ASSUME NEW d \in Chunks, number'[d] # NoNumber PROVE number'[d] \in (Old \ {NoNumber}) \cup {next}
      BY <2>4, <3>2
    <3>3. ASSUME NEW d \in Chunks, number[d] # NoNumber PROVE number[d] \in New
      <4>1. number'[d] = number[d]
        BY <2>1, <2>4, <3>3
      <4>2. QED
        BY <4>1
    <3>4. next \in New
      <4>1. number'[c] = next
        BY <2>4
      <4>2. QED
        BY <4>1
    <3>5. New \ {NoNumber} \subseteq (Old \ {NoNumber}) \cup {next}
      BY <3>2
    <3>6. (Old \ {NoNumber}) \cup {next} \subseteq New \ {NoNumber}
      BY <3>1, <3>3, <3>4
    <3>7. QED
      BY <3>5, <3>6
  <2>6. (0 .. next - 1) \cup {next} = 0 .. next' - 1
    BY <1>2
  <2>7. {number'[d] : d \in Chunks} \ {NoNumber} = 0 .. next' - 1
    BY <2>2, <2>5, <2>6
  <2>8. \A d, e \in Chunks : d # e /\ number'[d] = number'[e] => number'[d] = NoNumber
    BY <2>3, <2>4 DEF Inv, NumbersDense
  <2>9. QED
    BY <2>7, <2>8 DEF NumbersDense
<1>8. QED
  BY <1>3, <1>4, <1>5, <1>6, <1>7 DEF Inv

LEMMA PushKeeps == ASSUME Inv, NEW c \in Chunks, Push(c) PROVE Inv'
<1> USE Names, DeliveryAssumption DEF Push
<1>1. ItemsOf(buffer') = ItemsOf(buffer) \cup {c}
  BY AppendItems DEF Inv, TypeOK
<1>2. TypeOK'
  <2>1. pc' \in [Actors -> States]
    BY DEF Inv, TypeOK, States
  <2>2. buffer' \in Seq(Chunks)
    BY DEF Inv, TypeOK
  <2>3. QED
    BY <2>1, <2>2 DEF Inv, TypeOK, serverVars, States
<1>3. Roles'
  BY DEF Inv, TypeOK, Roles
<1>4. ASSUME NEW x \in Items PROVE Placed(x)' /\ Counted(x)'
  <2>1. Placed(x) /\ Counted(x)
    BY DEF Inv
  <2>2. Held(x)' = Held(x)
    BY DEF Held
  <2>3. CASE x = c
    <3>1. ~Begun(x) /\ Begun(x)' /\ ~Abandoned(x)'
      BY <2>3 DEF Begun, Abandoned, Inv, TypeOK
    <3>2. QED
      BY <1>1, <2>1, <2>2, <2>3, <3>1 DEF Placed, Counted, serverVars
  <2>4. CASE x # c
    <3>1. Kept(x)
      BY <2>4 DEF Kept, Begun, Abandoned, Inv, TypeOK
    <3>2. QED
      BY <1>1, <2>1, <2>2, <2>4, <3>1 DEF Placed, Counted, Kept, serverVars
  <2>5. QED
    BY <2>3, <2>4
<1>5. Numbering' /\ NumbersDense'
  BY NumbersKept DEF Inv, TypeOK
<1>6. QED
  BY <1>2, <1>3, <1>4, <1>5 DEF Inv

LEMMA CheckFlushKeeps == ASSUME Inv, NEW c \in Chunks, CheckFlush(c) PROVE Inv'
<1> USE Names, DeliveryAssumption DEF CheckFlush
<1>1. TypeOK'
  BY DEF Inv, TypeOK, serverVars
<1>2. Roles'
  BY DEF Inv, TypeOK, Roles
<1>3. ASSUME NEW x \in Items PROVE Placed(x)' /\ Counted(x)'
  <2>1. Kept(x)
    BY DEF Kept, Begun, Abandoned, Inv, TypeOK, Items, Actors
  <2>2. QED
    BY <2>1, HandsOff
<1>4. Numbering' /\ NumbersDense'
  BY NumbersKept DEF Inv, TypeOK
<1>5. QED
  BY <1>1, <1>2, <1>3, <1>4 DEF Inv

\* What was in the buffer is in the batch of the actor, which had none.
LEMMA DrainKeeps == ASSUME Inv, NEW a \in Chunks \cup {Flusher}, Drain(a) PROVE Inv'
<1> USE Names, DeliveryAssumption DEF Drain, Rest
<1>1. a \in Actors /\ a # Publisher /\ pc[a] # "sending" /\ batch[a] = << >>
  BY DEF Inv, TypeOK, Roles
<1>2. TypeOK'
  <2>1. pc' \in [Actors -> States]
    BY <1>1 DEF Inv, TypeOK, States
  <2>2. batch' \in [Actors -> Seq(Items)]
    BY <1>1, ChunkSequences DEF Inv, TypeOK
  <2>3. << >> \in Seq(Chunks)
    OBVIOUS
  <2>4. QED
    BY <2>1, <2>2, <2>3 DEF Inv, TypeOK, serverVars, States
<1>3. Roles'
  BY <1>1 DEF Inv, TypeOK, Roles
<1>4. ASSUME NEW x \in Items PROVE Placed(x)' /\ Counted(x)'
  <2>1. Placed(x) /\ Counted(x)
    BY DEF Inv
  <2>2. Kept(x)
    BY <1>1 DEF Kept, Begun, Abandoned, Inv, TypeOK, Items, Actors
  <2>3. ItemsOf(buffer') = {}
    BY EmptyItems
  <2>4. Held(x)' = IF x \in ItemsOf(buffer) THEN Held(x) \cup {a} ELSE Held(x)
    BY <1>1, EmptyItems DEF Held, Inv, TypeOK
  <2>5. CASE x \in ItemsOf(buffer)
    <3>1. Held(x)' = {a} /\ stored[x] = 0
      BY <2>1, <2>4, <2>5 DEF Placed, Counted
    <3>2. attempt[a] \in Nat
      BY <1>1 DEF Inv, TypeOK
    <3>3. QED
      BY <2>1, <2>2, <2>3, <2>5, <3>1, <3>2 DEF Placed, Counted, Kept, serverVars
  <2>6. CASE x \notin ItemsOf(buffer)
    BY <2>1, <2>2, <2>3, <2>4, <2>6 DEF Placed, Counted, Kept, serverVars
  <2>7. QED
    BY <2>5, <2>6
<1>5. Numbering' /\ NumbersDense'
  BY NumbersKept DEF Inv, TypeOK
<1>6. QED
  BY <1>2, <1>3, <1>4, <1>5 DEF Inv

\* The batch of a leaves its hands, acknowledged (into = settled) or given up.
LEMMA FinishMoves ==
    ASSUME Inv, NEW a \in Actors, pc[a] = "sending", Finish(a), Frame
    PROVE  /\ pc' \in [Actors -> States]
           /\ batch' \in [Actors -> Seq(Items)]
           /\ attempt' \in [Actors -> 0 .. MaxRetries - 1]
           /\ \A x \in Items : Held(x)' = Held(x) \ {a} /\ Kept(x)
           /\ Roles'
           /\ Numbering' /\ NumbersDense'
<1> USE Names, DeliveryAssumption DEF Finish, Frame, Rest
<1>1. pc' \in [Actors -> States]
  BY DEF Inv, TypeOK, States
<1>2. batch' \in [Actors -> Seq(Items)]
  <2>1. << >> \in Seq(Items)
    OBVIOUS
  <2>2. QED
    BY <2>1 DEF Inv, TypeOK
<1>3. attempt' \in [Actors -> 0 .. MaxRetries - 1]
  BY DEF Inv, TypeOK
<1>4. ASSUME NEW x \in Items
      PROVE  Held(x)' = Held(x) \ {a} /\ Kept(x)
  <2>1. Held(x)' = Held(x) \ {a}
    BY EmptyItems DEF Held, Inv, TypeOK
  <2>2. Kept(x)
    BY DEF Kept, Begun, Abandoned, Inv, TypeOK, Items, Actors
  <2>3. QED
    BY <2>1, <2>2
<1>5. Roles'
  BY DEF Inv, TypeOK, Roles, Actors
<1>6. Numbering' /\ NumbersDense'
  BY NumbersKept DEF Inv, TypeOK, Actors
<1>7. QED
  BY <1>1, <1>2, <1>3, <1>4, <1>5, <1>6

\* What a request does to the counts of the server.
LEMMA StoreCounts ==
    ASSUME Inv, NEW a \in Actors, pc[a] = "sending",
           Store(a) \/ UNCHANGED stored
    PROVE  /\ stored' \in [Items -> Nat]
           /\ \A x \in Items : /\ a \notin Held(x) => stored'[x] = stored[x]
                               /\ stored'[x] >= stored[x]
                               /\ stored'[x] <= stored[x] + 1
                               /\ Store(a) /\ a \in Held(x) => stored'[x] >= 1
                               /\ a \in Held(x) => stored'[x] <= attempt[a] + 1
<1>1. stored \in [Items -> Nat] /\ attempt \in [Actors -> 0 .. MaxRetries - 1]
  BY DEF Inv, TypeOK
<1>2. \A x \in Items : a \in Held(x) <=> x \in ItemsOf(batch[a])
  BY DEF Held
<1>3. \A x \in Items : a \in Held(x) => stored[x] <= attempt[a]
  BY DEF Inv, Counted
<1>4. CASE Store(a)
  BY <1>1, <1>2, <1>3, <1>4 DEF Store
<1>5. CASE UNCHANGED stored /\ ~Store(a)
  BY <1>1, <1>3, <1>5
<1>6. QED
  BY <1>4, <1>5

\* The request was acknowledged, refused, or the last one allowed.
LEMMA LastRequestKeeps ==
    ASSUME Inv, NEW a \in Actors, pc[a] = "sending", Finish(a), Frame,
           Store(a) \/ UNCHANGED stored,
           \/ Store(a) /\ settled' = settled \cup ItemsOf(batch[a]) /\ UNCHANGED dropped
           \/ dropped' = dropped \cup ItemsOf(batch[a]) /\ UNCHANGED settled
    PROVE  Inv'
<1> USE Names, DeliveryAssumption
<1>1. batch[a] \in Seq(Items) /\ attempt[a] \in 0 .. MaxRetries - 1
  BY DEF Inv, TypeOK
<1>2. TypeOK'
  <2>1. settled' \subseteq Items /\ dropped' \subseteq Items
    BY <1>1, ItemsType DEF Inv, TypeOK
  <2>2. stored' \in [Items -> Nat]
    BY StoreCounts
  <2>3. QED
    BY <2>1, <2>2, FinishMoves DEF Inv, TypeOK, Frame, States
<1>3. ASSUME NEW x \in Items PROVE Placed(x)' /\ Counted(x)'
  <2>1. Placed(x) /\ Counted(x)
    BY DEF Inv
  <2>2. Held(x)' = Held(x) \ {a} /\ Kept(x)
    BY FinishMoves
  <2>3. ItemsOf(buffer)' = ItemsOf(buffer)
    BY DEF Frame
  <2>4. CASE a \in Held(x)
    <3>1. Held(x)' = {} /\ x \in ItemsOf(batch[a])
      BY <2>1, <2>2, <2>4 DEF Placed, Held
    <3>2. Placed(x)'
      BY <2>1, <2>2, <2>3, <2>4, <3>1 DEF Placed, Kept
    <3>3. stored'[x] <= attempt[a] + 1 /\ (Store(a) => stored'[x] >= 1) /\ stored'[x] \in Nat
      BY <2>4, StoreCounts
    <3>4. Counted(x)'
      BY <1>1, <2>1, <2>4, <3>1, <3>3 DEF Counted, Kept, Placed
    <3>5. QED
      BY <3>2, <3>4
  <2>5. CASE a \notin Held(x)
    <3>1. Held(x)' = Held(x) /\ x \notin ItemsOf(batch[a])
      BY <2>2, <2>5 DEF Held
    <3>2. Placed(x)'
      BY <2>1, <2>2, <2>3, <3>1 DEF Placed, Kept
    <3>3. stored'[x] = stored[x]
      BY <2>5, StoreCounts
    <3>4. \A b \in Held(x) : attempt'[b] = attempt[b]
      BY <2>5 DEF Held, Finish, Inv, TypeOK
    <3>5. Counted(x)'
      BY <2>1, <2>2, <3>1, <3>3, <3>4 DEF Counted, Kept
    <3>6. QED
      BY <3>2, <3>5
  <2>6. QED
    BY <2>4, <2>5
<1>4. QED
  BY <1>2, <1>3, FinishMoves DEF Inv

\* The request failed and another one follows.
LEMMA RetryKeeps ==
    ASSUME Inv, NEW a \in Actors, pc[a] = "sending",
           attempt[a] < MaxRetries - 1,
           attempt' = [attempt EXCEPT ![a] = @ + 1],
           UNCHANGED <<pc, batch, dropped, settled>>, Frame,
           Store(a) \/ UNCHANGED stored
    PROVE  Inv'
<1> USE Names, DeliveryAssumption DEF Frame
<1>1. attempt[a] \in 0 .. MaxRetries - 1
  BY DEF Inv, TypeOK
<1>2. TypeOK'
  <2>1. attempt' \in [Actors -> 0 .. MaxRetries - 1]
    BY <1>1 DEF Inv, TypeOK
  <2>2. QED
    BY <2>1, StoreCounts DEF Inv, TypeOK
<1>3. Roles'
  BY DEF Inv, Roles
<1>4. ASSUME NEW x \in Items PROVE Placed(x)' /\ Counted(x)'
  <2>1. Placed(x) /\ Counted(x)
    BY DEF Inv
  <2>2. Held(x)' = Held(x) /\ Kept(x)
    BY DEF Held, Kept, Begun, Abandoned
  <2>3. Placed(x)'
    BY <2>1, <2>2 DEF Placed, Kept
  <2>4. CASE a \in Held(x)
    <3>1. Held(x) = {a}
      BY <2>1, <2>4 DEF Placed, Kept
    <3>2. attempt'[a] = attempt[a] + 1
      BY DEF Inv, TypeOK
    <3>3. stored'[x] <= attempt[a] + 1 /\ stored'[x] \in Nat
      BY <2>4, StoreCounts
    <3>4. x \notin settled
      BY <2>1, <2>4 DEF Placed, Kept
    <3>5. QED
      BY <1>1, <2>2, <2>3, <3>1, <3>2, <3>3, <3>4 DEF Counted, Kept
  <2>5. CASE a \notin Held(x)
    <3>1. stored'[x] = stored[x]
      BY <2>5, StoreCounts
    <3>2. \A b \in Held(x) : attempt'[b] = attempt[b]
      BY <2>5 DEF Held, Inv, TypeOK
    <3>3. QED
      BY <2>1, <2>2, <2>3, <3>1, <3>2 DEF Counted, Kept
  <2>6. QED
    BY <2>4, <2>5
<1>5. Numbering' /\ NumbersDense'
  BY NumbersKept
<1>6. QED
  BY <1>2, <1>3, <1>4, <1>5 DEF Inv

LEMMA RequestKeeps == ASSUME Inv, NEW a \in Actors, RequestEnds(a) PROVE Inv'
<1>1. CASE Acknowledged(a)
  BY <1>1, LastRequestKeeps DEF Acknowledged
<1>2. CASE Refused(a)
  BY <1>2, LastRequestKeeps DEF Refused, GiveUp
<1>3. CASE AnswerLost(a)
  <2> USE <1>3 DEF AnswerLost
  <2>1. CASE GiveUp(a)
    BY <2>1, LastRequestKeeps DEF GiveUp
  <2>2. CASE ~GiveUp(a)
    BY <2>2, RetryKeeps DEF RetryOrGiveUp
  <2>3. QED
    BY <2>1, <2>2
<1>4. CASE Unavailable(a)
  <2> USE <1>4 DEF Unavailable
  <2>1. CASE GiveUp(a)
    BY <2>1, LastRequestKeeps DEF GiveUp
  <2>2. CASE ~GiveUp(a)
    BY <2>2, RetryKeeps DEF RetryOrGiveUp
  <2>3. QED
    BY <2>1, <2>2
<1>5. QED
  BY <1>1, <1>2, <1>3, <1>4 DEF RequestEnds

\* The handler is aborted while it publishes: the event is nowhere, and was
\* stored at most once more.
LEMMA AbortKeeps == ASSUME Inv, AbortPublish PROVE Inv'
<1> USE Names, DeliveryAssumption DEF AbortPublish, Frame
<1>1. \A x \in Items : Publisher \in Held(x) <=> x = Completion
  <2>1. ItemsOf(batch[Publisher]) = {Completion}
    BY SingleItem DEF Inv, Roles
  <2>2. QED
    BY <2>1 DEF Held
<1>2. TypeOK'
  <2>1. << >> \in Seq(Items) /\ 0 \in 0 .. MaxRetries - 1
    OBVIOUS
  <2>2. pc' \in [Actors -> States]
    BY DEF Inv, TypeOK, States
  <2>3. stored' \in [Items -> Nat]
    BY StoreCounts
  <2>4. QED
    BY <2>1, <2>2, <2>3 DEF Inv, TypeOK, States
<1>3. Roles'
  BY DEF Inv, TypeOK, Roles
<1>4. ASSUME NEW x \in Items PROVE Placed(x)' /\ Counted(x)'
  <2>1. Placed(x) /\ Counted(x)
    BY DEF Inv
  <2>2. Held(x)' = Held(x) \ {Publisher}
    BY EmptyItems DEF Held, Inv, TypeOK
  <2>3. CASE x = Completion
    <3>1. /\ x \notin ItemsOf(buffer) \cup settled \cup dropped
          /\ Held(x)' = {}
      BY <1>1, <2>1, <2>2, <2>3 DEF Placed
    <3>2. Begun(x)' /\ Abandoned(x)'
      BY <2>3 DEF Begun, Abandoned, Inv, TypeOK
    <3>3. stored'[x] <= MaxRetries
      <4>1. stored'[x] <= attempt[Publisher] + 1 /\ stored'[x] \in Nat
        BY <1>1, <2>3, StoreCounts
      <4>2. QED
        BY <4>1 DEF Inv, TypeOK
    <3>4. QED
      BY <3>1, <3>2, <3>3 DEF Placed, Counted
  <2>4. CASE x # Completion
    <3>1. Held(x)' = Held(x) /\ stored'[x] = stored[x]
      BY <1>1, <2>2, <2>4, StoreCounts
    <3>2. Kept(x)
      BY <2>4 DEF Kept, Begun, Abandoned, Inv, TypeOK, Items
    <3>3. \A b \in Held(x) : attempt'[b] = attempt[b]
      BY <1>1, <2>4 DEF Held, Inv, TypeOK
    <3>4. QED
      BY <2>1, <3>1, <3>2, <3>3 DEF Placed, Counted, Kept
  <2>5. QED
    BY <2>3, <2>4
<1>5. Numbering' /\ NumbersDense'
  BY NumbersKept DEF Inv, TypeOK
<1>6. QED
  BY <1>2, <1>3, <1>4, <1>5 DEF Inv

LEMMA NextInv == ASSUME Inv, [Next]_vars PROVE Inv'
<1>1. CASE Emit
  BY <1>1, EmitKeeps
<1>2. CASE Publish
  BY <1>2, PublishKeeps
<1>3. CASE EndSilently \/ UNCHANGED vars
  BY <1>3, EndSilentlyKeeps
<1>4. CASE \E c \in Chunks : TaskStep(c)
  <2>1. PICK c \in Chunks : TaskStep(c)
    BY <1>4
  <2>2. QED
    BY <2>1, TakeNumberKeeps, PushKeeps, CheckFlushKeeps, DrainKeeps DEF TaskStep
<1>5. CASE Drain(Flusher)
  BY <1>5, DrainKeeps
<1>6. CASE \E a \in Actors : RequestEnds(a)
  BY <1>6, RequestKeeps
<1>7. CASE AbortPublish
  BY <1>7, AbortKeeps
<1>8. QED
  BY <1>1, <1>2, <1>3, <1>4, <1>5, <1>6, <1>7 DEF Next

LEMMA InvHolds == Spec => []Inv
BY InitInv, NextInv, PTL DEF Spec

-----------------------------------------------------------------------------
(* The theorems                                                            *)

\* The variables keep their types; in particular no item is retried beyond the
\* limit and no number beyond the last chunk is given out.
THEOREM TypeCorrect == Spec => []TypeOK
<1>1. Inv => TypeOK
  BY DEF Inv
<1>2. QED
  BY <1>1, InvHolds, PTL

\* However flushes and background ticks overlap, an entry that was pushed is in
\* the buffer, in one batch, acknowledged or given up, and in one of them only.
THEOREM NoEntryLost == Spec => []EntryInOnePlace
<1>1. Inv => EntryInOnePlace
  <2> SUFFICES ASSUME Inv, NEW c \in Chunks
               PROVE  Cardinality(Places(c)) = IF pc[c] \in {"idle", "spawned", "numbered"} THEN 0 ELSE 1
    BY DEF EntryInOnePlace
  <2>1. /\ Placed(c)
        /\ Begun(c) <=> pc[c] \notin {"idle", "spawned", "numbered"}
    BY Names DEF Inv, Begun
  <2>6. ~ Abandoned(c)
    BY Names DEF Abandoned
  <2>2. Places(c) = {p \in {"buffer", "settled", "dropped"} :
                        \/ p = "buffer" /\ c \in ItemsOf(buffer)
                        \/ p = "settled" /\ c \in settled
                        \/ p = "dropped" /\ c \in dropped} \cup Held(c)
    BY DEF Places, Held
  <2>3. CASE ~Begun(c)
    <3>1. Places(c) = {}
      BY <2>1, <2>2, <2>3 DEF Placed
    <3>2. QED
      BY <2>1, <2>3, <3>1, FS_EmptySet
  <2>4. CASE Begun(c)
    <3>1. CASE Held(c) # {}
      <4>1. PICK a \in Held(c) : Held(c) = {a}
        BY <2>1, <3>1 DEF Placed
      <4>2. Places(c) = {a}
        BY <2>1, <2>2, <3>1, <4>1 DEF Placed
      <4>3. QED
        BY <2>1, <2>4, <4>2, FS_Singleton
    <3>2. CASE c \in ItemsOf(buffer)
      <4>1. Places(c) = {"buffer"}
        BY <2>1, <2>2, <3>2 DEF Placed
      <4>2. QED
        BY <2>1, <2>4, <4>1, FS_Singleton
    <3>3. CASE c \in settled
      <4>1. Places(c) = {"settled"}
        BY <2>1, <2>2, <3>3 DEF Placed
      <4>2. QED
        BY <2>1, <2>4, <4>1, FS_Singleton
    <3>4. CASE c \in dropped
      <4>1. Places(c) = {"dropped"}
        BY <2>1, <2>2, <3>4 DEF Placed
      <4>2. QED
        BY <2>1, <2>4, <4>1, FS_Singleton
    <3>5. QED
      BY <2>1, <2>4, <2>6, <3>1, <3>2, <3>3, <3>4 DEF Placed
  <2>5. QED
    BY <2>3, <2>4
<1>2. QED
  BY <1>1, InvHolds, PTL

\* The sequence numbers given out are distinct and without a gap.
THEOREM NumbersAreDense == Spec => []NumbersDense
<1>1. Inv => NumbersDense
  BY DEF Inv
<1>2. QED
  BY <1>1, InvHolds, PTL

-----------------------------------------------------------------------------
(* LogDelivery implements EntryDelivery                                    *)

Fates == [x \in Items |-> Fate(x)]

\* An item in a batch is open, and the server may take it once more.
LEMMA HeldIsOpen ==
    ASSUME Inv, NEW a \in Actors, NEW x \in ItemsOf(batch[a])
    PROVE  x \in Items /\ Fates[x] = "open" /\ stored[x] < MaxRetries
<1>1. x \in Items
  <2>1. batch[a] \in Seq(Items)
    BY DEF Inv, TypeOK
  <2>2. QED
    BY <2>1, ItemsType
<1>2. a \in Held(x) /\ Placed(x) /\ Counted(x)
  BY <1>1 DEF Held, Inv
<1>3. Fate(x) = "open"
  BY <1>2 DEF Placed, Fate
<1>4. stored[x] <= attempt[a] /\ attempt[a] \in 0 .. MaxRetries - 1 /\ stored[x] \in Nat
  BY <1>1, <1>2 DEF Counted, Inv, TypeOK
<1>5. QED
  BY <1>1, <1>3, <1>4, DeliveryAssumption DEF Fates

LEMMA FatesKept ==
    ASSUME UNCHANGED serverVars, \A x \in Items : Kept(x)
    PROVE  Fates' = Fates /\ stored' = stored
<1>1. \A x \in Items : Fate(x)' = Fate(x)
  BY DEF Fate, Kept, serverVars
<1>2. QED
  BY <1>1 DEF Fates, serverVars

LEMMA HandsOver ==
    ASSUME Inv, NEW x \in Items, ~ Begun(x), UNCHANGED serverVars,
           \A y \in Items : Begun(y)' <=> y = x \/ Begun(y),
           \A y \in Items : Abandoned(y)' <=> Abandoned(y)
    PROVE  Delivery!Next
<1>1. x \notin settled /\ x \notin dropped /\ ~ Abandoned(x)
  BY DEF Inv, Placed
<1>2. \A y \in Items : Fate(y)' = IF y = x THEN "open" ELSE Fate(y)
  BY <1>1 DEF Fate, serverVars
<1>3. Fates[x] = "new" /\ Fates' = [Fates EXCEPT ![x] = "open"]
  BY <1>1, <1>2 DEF Fates, Fate
<1>4. Delivery!HandOver(x)
  BY <1>3 DEF Delivery!HandOver, Fates, serverVars
<1>5. QED
  BY <1>4 DEF Delivery!Next

\* The batch of a request becomes what the request made of it.
LEMMA BatchBecomes ==
    ASSUME Inv, NEW a \in Actors,
           \A x \in Items : Kept(x),
           NEW f \in {"open", "acknowledged", "given up"},
           settled' = IF f = "acknowledged" THEN settled \cup ItemsOf(batch[a]) ELSE settled,
           dropped' = IF f = "given up" THEN dropped \cup ItemsOf(batch[a]) ELSE dropped
    PROVE  /\ ItemsOf(batch[a]) \in SUBSET Items
           /\ Delivery!Become(ItemsOf(batch[a]), f)
           /\ Store(a) => Delivery!Take(ItemsOf(batch[a]))
<1> DEFINE S == ItemsOf(batch[a])
<1>1. \A x \in S : x \in Items /\ Fates[x] = "open" /\ stored[x] < MaxRetries
  BY HeldIsOpen
<1>2. \A x \in S : Begun(x) /\ ~ Abandoned(x) /\ x \notin settled /\ x \notin dropped
  BY <1>1 DEF Fates, Fate
<1>3. \A x \in Items : Fate(x)' = IF x \in S THEN f ELSE Fate(x)
  BY <1>2 DEF Fate, Kept
<1>4. Fates' = [x \in Items |-> IF x \in S THEN f ELSE Fates[x]]
  BY <1>3 DEF Fates
<1>5. Delivery!Become(S, f)
  BY <1>1, <1>4 DEF Delivery!Become, Fates
<1>6. Store(a) => Delivery!Take(S)
  BY <1>1 DEF Delivery!Take, Store
<1>7. QED
  BY <1>1, <1>5, <1>6

LEMMA RequestDelivers ==
    ASSUME Inv, NEW a \in Actors, RequestEnds(a)
    PROVE  Delivery!Next \/ (Fates' = Fates /\ stored' = stored)
<1> DEFINE S == ItemsOf(batch[a])
<1> USE DEF Delivery!Next
<1>1. \A x \in Items : Kept(x)
  <2>1. CASE Finish(a)
    BY <2>1, FinishMoves DEF RequestEnds, Acknowledged, AnswerLost, Unavailable, Refused
  <2>2. CASE UNCHANGED pc
    BY <2>2 DEF Kept, Begun, Abandoned
  <2>3. QED
    BY <2>1, <2>2 DEF RequestEnds, Acknowledged, AnswerLost, Unavailable, Refused, RetryOrGiveUp, GiveUp
<1>2. CASE Acknowledged(a)
  <2>1. S \in SUBSET Items /\ Delivery!Become(S, "acknowledged") /\ Delivery!Take(S)
    BY <1>1, <1>2, BatchBecomes DEF Acknowledged
  <2>2. QED
    BY <2>1 DEF Delivery!Succeed
<1>3. CASE AnswerLost(a)
  <2>1. PICK f \in {"open", "given up"} :
            dropped' = IF f = "given up" THEN dropped \cup S ELSE dropped
    BY <1>3 DEF AnswerLost, RetryOrGiveUp, GiveUp
  <2>2. S \in SUBSET Items /\ Delivery!Become(S, f) /\ Delivery!Take(S)
    BY <1>1, <1>3, <2>1, BatchBecomes DEF AnswerLost
  <2>3. QED
    BY <2>2 DEF Delivery!LoseAnswer
<1>4. CASE (Unavailable(a) \/ Refused(a)) /\ GiveUp(a)
  <2>1. S \in SUBSET Items /\ Delivery!Become(S, "given up") /\ UNCHANGED stored
    BY <1>1, <1>4, BatchBecomes DEF Unavailable, Refused, GiveUp
  <2>2. QED
    BY <2>1 DEF Delivery!GiveUp
<1>5. CASE Unavailable(a) /\ ~ GiveUp(a)
  BY <1>1, <1>5, FatesKept DEF Unavailable, RetryOrGiveUp, serverVars
<1>6. QED
  BY <1>2, <1>3, <1>4, <1>5 DEF RequestEnds, Refused

\* Aborting the handler abandons the event, and nothing else.
LEMMA AbortAbandons == ASSUME Inv, AbortPublish PROVE Delivery!Abandon(Completion)
<1> USE Names DEF AbortPublish
<1>1. ItemsOf(batch[Publisher]) = {Completion}
  BY SingleItem DEF Inv, Roles
<1>2. Fates[Completion] = "open" /\ stored[Completion] < MaxRetries
  BY <1>1, HeldIsOpen
<1>3. Completion \notin settled \cup dropped
  BY <1>2 DEF Fates, Fate
<1>4. \A x \in Items : Fate(x)' = IF x = Completion THEN "abandoned" ELSE Fate(x)
  BY <1>3 DEF Fate, Begun, Abandoned, Inv, TypeOK, Items
<1>5. Delivery!Become({Completion}, "abandoned")
  BY <1>2, <1>4 DEF Delivery!Become, Fates
<1>6. Store(Publisher) => Delivery!Take({Completion})
  BY <1>1, <1>2 DEF Delivery!Take, Store
<1>7. QED
  BY <1>5, <1>6 DEF Delivery!Abandon

LEMMA NextDelivers ==
    ASSUME Inv, [Next]_vars
    PROVE  Delivery!Next \/ (Fates' = Fates /\ stored' = stored)
<1> USE Names
<1>1. CASE Emit
  <2>1. \A x \in Items : Kept(x)
    <3>1. emitted + 1 \in Chunks /\ pc[emitted + 1] = "idle"
      BY <1>1, DeliveryAssumption DEF Emit, Inv, TypeOK, Roles, Chunks
    <3>2. QED
      BY <1>1, <3>1 DEF Emit, Kept, Begun, Abandoned, Inv, TypeOK, Items, Actors
  <2>2. QED
    BY <1>1, <2>1, FatesKept DEF Emit
<1>2. CASE Publish
  <2>1. /\ ~ Begun(Completion)
        /\ \A y \in Items : Begun(y)' <=> y = Completion \/ Begun(y)
        /\ \A y \in Items : Abandoned(y)' <=> Abandoned(y)
    BY <1>2 DEF Publish, Begun, Abandoned, Inv, TypeOK, Roles, Items, Actors
  <2>2. QED
    BY <1>2, <2>1, HandsOver DEF Publish
<1>3. CASE EndSilently \/ UNCHANGED vars
  BY <1>3, FatesKept DEF EndSilently, vars, Kept, Begun, Abandoned, serverVars
<1>4. ASSUME NEW c \in Chunks, Push(c) PROVE Delivery!Next
  <2>1. /\ ~ Begun(c)
        /\ \A y \in Items : Begun(y)' <=> y = c \/ Begun(y)
        /\ \A y \in Items : Abandoned(y)' <=> Abandoned(y)
    BY <1>4 DEF Push, Begun, Abandoned, Inv, TypeOK, Items, Actors
  <2>2. QED
    BY <1>4, <2>1, HandsOver DEF Push
<1>5. ASSUME NEW c \in Chunks, TakeNumber(c) \/ CheckFlush(c) PROVE Fates' = Fates /\ stored' = stored
  <2>1. \A x \in Items : Kept(x)
    BY <1>5 DEF TakeNumber, CheckFlush, Kept, Begun, Abandoned, Inv, TypeOK, Items, Actors
  <2>2. QED
    BY <1>5, <2>1, FatesKept DEF TakeNumber, CheckFlush
<1>6. ASSUME NEW a \in Chunks \cup {Flusher}, Drain(a) PROVE Fates' = Fates /\ stored' = stored
  <2>1. \A x \in Items : Kept(x)
    BY <1>6 DEF Drain, Rest, Kept, Begun, Abandoned, Inv, TypeOK, Items, Actors
  <2>2. QED
    BY <1>6, <2>1, FatesKept DEF Drain
<1>7. CASE AbortPublish
  BY <1>7, AbortAbandons DEF Delivery!Next
<1>8. QED
  BY <1>1, <1>2, <1>3, <1>4, <1>5, <1>6, <1>7, RequestDelivers DEF Next, TaskStep

\* Whatever tasks and flushes share the buffer, each entry and the event is tried a
\* bounded number of times, is on the server if it is acknowledged, and is not sent
\* again once it is over (log_streamer.rs:173-198, event_publisher.rs:48).
THEOREM DeliveryIsImplemented == Spec => DeliverySpec
<1>1. Init => Delivery!Init
  <2> SUFFICES ASSUME Init PROVE Delivery!Init
    OBVIOUS
  <2>1. \A x \in Items : Fate(x) = "new"
    BY Names DEF Init, Fate, Begun, Abandoned, Items, Actors
  <2>2. QED
    BY <2>1 DEF Init, Delivery!Init
<1>2. Inv /\ [Next]_vars => [Delivery!Next]_<<[x \in Items |-> Fate(x)], stored>>
  BY NextDelivers DEF Fates
<1>3. QED
  BY <1>1, <1>2, InvHolds, PTL DEF Spec, DeliverySpec, Delivery!Spec

\* In particular what was acknowledged was stored, no item more often than
\* there are attempts.
THEOREM StoredIsReported ==
    Spec => []\A x \in Items : stored[x] <= MaxRetries /\ (x \in settled => stored[x] >= 1)
<1>1. Inv => \A x \in Items : stored[x] <= MaxRetries /\ (x \in settled => stored[x] >= 1)
  BY DEF Inv, Counted
<1>2. QED
  BY <1>1, InvHolds, PTL
=============================================================================
