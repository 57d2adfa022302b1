-------------------------- MODULE ArtifactsProofs --------------------------
(***************************************************************************)
(* Theorems about Artifacts, for every number of steps, patterns, pieces   *)
(* and errors.                                                             *)
(*                                                                         *)
(* An upload is touched when a piece of it is out, it is listed, or the    *)
(* store holds it.  Nothing is touched before its turn, so that what an    *)
(* upload finds under its name is older; and the pieces that were written  *)
(* and those that are out add up to those that were handed over.           *)
(***************************************************************************)
EXTENDS Artifacts, TLAPS

Uploading == {"upload", "writing", "put"}

Listed(u) == \E i \in DOMAIN listing : listing[i] = u

Touched(u) == u \in pending \cup cut \/ Listed(u) \/ stored[u.kind].step = u.step

\* Archives of this step whose upload has not begun.
Unbegun(k) ==
    \/ pc = "upload" /\ \E i \in DOMAIN queue : queue[i] = k
    \/ pc \in {"writing", "put"} /\ queue = <<"tar", "zip">> /\ k = "zip"

Late(u) == IF u \in pending \cup cut THEN 1 ELSE 0
Out(u) == IF u \in pending THEN 1 ELSE 0

Progress ==
    /\ pc = "collect" => queue = << >> /\ Len(collected) <= 2 * (step - 1)
    /\ pc \in Uploading => queue # << >> /\ step \in Steps
    /\ pc \in {"collect", "upload"} => handed = 0
    /\ pc # "done" => reported = << >>
    /\ pending \cap cut = {}

NothingAhead ==
    pc \in {"collect"} \cup Uploading =>
        \A u \in Uploads : Touched(u) =>
            /\ u.step <= step
            /\ u.step = step => pc # "collect" /\ ~Unbegun(u.kind)

PiecesAddUp ==
    /\ \A u \in Uploads : stored[u.kind].step = u.step => stored[u.kind].pieces + Out(u) <= Pieces
    /\ pc \in {"writing", "put"} => stored[Head(queue)].step = step
    /\ pc = "writing" => stored[Head(queue)].pieces + Late(This) = handed
    /\ pc = "put" => stored[Head(queue)].pieces = Pieces /\ Late(This) = 0

\* NewestIsServed for one upload.
Served(u) ==
    /\ stored[u.kind].step >= u.step
    /\ stored[u.kind].step = u.step /\ ~stored[u.kind].torn => stored[u.kind].pieces + Late(u) = Pieces

Inv == /\ TypeOK
       /\ Progress
       /\ NothingAhead
       /\ PiecesAddUp
       /\ \A u \in Uploads : Listed(u) => Served(u)

\* Where the entries of a step are among those collected so far.
Collection(s) == {i \in DOMAIN collected : collected[i].step = s}

\* What a step that is over has left is what EveryArchiveReported asks for.
Settled(s) ==
    /\ s \in failed => Collection(s) = {}
    /\ Collection(s) # {} => \E n \in Collection(s) :
          \/ Collection(s) = {n} /\ s \in lost
          \/ /\ Collection(s) = {n, n + 1}
             /\ collected[n].kind = "tar" /\ collected[n + 1].kind = "zip"
    /\ Regular(s) /\ s \notin failed \cup lost => Collection(s) # {}
    /\ Refused(s) /\ s \notin lost => Collection(s) = {}

\* Nothing has vanished, or this step and those to come are marked.
Complete ==
    \/ Files \subseteq present /\ (pc \in Uploading => Kinds \subseteq present)
    \/ \A s \in Steps : s >= step => s \in lost

\* The steps that are over are settled; of the others nothing is collected, but
\* for the tar of the step whose zip is next.
Account ==
    /\ Complete
    /\ \A s \in failed : s < step
    /\ pc # "aborted" => \A s \in Steps : /\ s < step => Settled(s)
                                          /\ s > step => Collection(s) = {}
    /\ pc = "collect" => Collection(step) = {}
    /\ pc \in Uploading =>
          /\ Refused(step) => step \in lost
          /\ queue = <<"tar", "zip">> => Collection(step) = {}
          /\ queue = <<"zip">> =>
                \/ /\ Collection(step) = {Len(collected)}
                   /\ collected[Len(collected)].kind = "tar"
                \/ Collection(step) = {} /\ step \in lost
    /\ pc = "done" => step \notin Steps

Contents == [step : 0..NSteps, pieces : 0..Pieces, torn : BOOLEAN]

-----------------------------------------------------------------------------
(* Lemmas                                                                  *)

LEMMA QueueShapes ==
    ASSUME queue \in {<< >>, <<"zip">>, <<"tar", "zip">>}
    PROVE  /\ queue = << >> => Len(queue) = 0 /\ DOMAIN queue = {}
           /\ queue = <<"zip">> => /\ Head(queue) = "zip" /\ Tail(queue) = << >> /\ Len(queue) = 1
                                   /\ \A k : (\E i \in DOMAIN queue : queue[i] = k) <=> k = "zip"
           /\ queue = <<"tar", "zip">> =>
                 /\ Head(queue) = "tar" /\ Tail(queue) = <<"zip">> /\ Len(queue) = 2
                 /\ \A k : (\E i \in DOMAIN queue : queue[i] = k) <=> k \in {"tar", "zip"}
<1>1. CASE queue = << >>
  BY <1>1
<1>2. CASE queue = <<"zip">>
  BY <1>2
<1>3. CASE queue = <<"tar", "zip">>
  <2>1. DOMAIN queue = {1, 2} /\ queue[1] = "tar" /\ queue[2] = "zip"
    BY <1>3
  <2>2. \A k : (\E i \in DOMAIN queue : queue[i] = k) <=> k \in {"tar", "zip"}
    BY <2>1
  <2>3. QED
    BY <1>3, <2>2
<1>4. QED
  BY <1>1, <1>2, <1>3

LEMMA ZipAlone == DOMAIN <<"zip">> = {1} /\ <<"zip">>[1] = "zip" /\ Len(<<"zip">>) = 1
OBVIOUS

LEMMA ThisType ==
    ASSUME Inv, pc \in Uploading
    PROVE  This \in Uploads /\ Head(queue) \in Kinds /\ This.kind = Head(queue) /\ This.step = step
<1>1. Head(queue) \in Kinds
  BY QueueShapes DEF Inv, TypeOK, Progress, Kinds
<1>2. step \in Steps
  BY DEF Inv, Progress
<1>3. QED
  BY <1>1, <1>2 DEF This, Uploads

LEMMA UploadTypes ==
    \A u \in Uploads : u.kind \in Kinds /\ u.step \in Steps /\ u = [kind |-> u.kind, step |-> u.step]
BY DEF Uploads

\* The next archive, or the next step, after the one at the head of the queue.
LEMMA QueueAdvances ==
    ASSUME Inv, pc \in Uploading, ToNextArchive
    PROVE  /\ queue' \in {<< >>, <<"zip">>}
           /\ Len(queue') = Len(queue) - 1
           /\ \/ queue' = << >> /\ pc' = "collect" /\ step' = step + 1
              \/ queue' = <<"zip">> /\ pc' = "upload" /\ step' = step /\ Head(queue) = "tar"
           /\ step' \in 1..(NSteps + 1)
           /\ \A k : Unbegun(k)' <=> queue' = <<"zip">> /\ k = "zip"
<1> USE DEF ToNextArchive
<1>1. queue \in {<<"zip">>, <<"tar", "zip">>} /\ step \in 1..NSteps
  BY DEF Inv, TypeOK, Progress, Steps
<1>2. CASE queue = <<"zip">>
  <2>1. Len(queue) = 1 /\ queue' = << >> /\ pc' = "collect" /\ step' = step + 1
    BY <1>2, QueueShapes DEF ToNextStep
  <2>2. QED
    BY <1>1, <2>1, ArtifactsAssumption DEF Unbegun
<1>3. CASE queue = <<"tar", "zip">>
  <2>1. Len(queue) = 2 /\ queue' = <<"zip">> /\ pc' = "upload" /\ step' = step /\ Head(queue) = "tar"
    BY <1>3, QueueShapes
  <2>2. DOMAIN queue' = {1} /\ queue'[1] = "zip" /\ Len(queue') = 1
    BY <2>1, ZipAlone
  <2>3. \A k : Unbegun(k)' <=> k = "zip"
    BY <2>1, <2>2 DEF Unbegun
  <2>4. step' \in 1..(NSteps + 1) /\ Len(queue') = Len(queue) - 1
    BY <1>1, <2>1, <2>2, ArtifactsAssumption
  <2>5. QED
    BY <2>1, <2>3, <2>4
<1>4. QED
  BY <1>1, <1>2, <1>3

LEMMA InitInv == Init => Inv
<1> SUFFICES ASSUME Init PROVE Inv
  OBVIOUS
<1> USE ArtifactsAssumption DEF Init
<1>1. TypeOK
  <2>1. stored \in [Kinds -> Contents]
    BY DEF Absent, Contents
  <2>2. /\ listing \in Seq(Uploads)
        /\ collected \in Seq([kind : Kinds, step : Steps, uploaded : BOOLEAN])
        /\ Len(collected) + Len(queue) <= 2 * step
    OBVIOUS
  <2>3. QED
    BY <2>1, <2>2 DEF TypeOK, Contents
<1>2. Progress
  BY DEF Progress, Uploading
<1>3. \A u \in Uploads : ~Touched(u)
  BY DEF Touched, Listed, Uploads, Steps, Absent
<1>4. NothingAhead
  BY <1>3 DEF NothingAhead
<1>5. PiecesAddUp
  BY <1>3 DEF PiecesAddUp, Touched
<1>6. QED
  BY <1>1, <1>2, <1>3, <1>4, <1>5 DEF Inv, Touched

-----------------------------------------------------------------------------
(* Steps that leave the store alone                                        *)

LEMMA StoreKept ==
    ASSUME Inv, UNCHANGED storeVars
    PROVE  /\ \A u : /\ Touched(u)' <=> Touched(u)
                     /\ Late(u)' = Late(u) /\ Out(u)' = Out(u)
           /\ \A u \in Uploads : Listed(u)' => Served(u)'
           /\ \A u \in Uploads : stored'[u.kind].step = u.step
                  => stored'[u.kind].pieces + Out(u)' <= Pieces
BY DEF storeVars, Touched, Listed, Late, Out, Served, Inv, PiecesAddUp

LEMMA TypeUnlessStore ==
    ASSUME Inv, UNCHANGED <<storeVars, config, backend>>,
           pc' \in {"collect", "upload", "done", "aborted"}, step' \in 1..(NSteps + 1),
           present' \subseteq Files \cup Kinds, failed' \subseteq Steps, lost' \subseteq Steps,
           queue' \in {<< >>, <<"zip">>, <<"tar", "zip">>}, handed' \in 0..Pieces,
           collected' \in Seq([kind : Kinds, step : Steps, uploaded : BOOLEAN]),
           Len(collected') + Len(queue') <= 2 * step',
           reported' \in {<< >>, collected'}, errors' \in 0..MaxErrors
    PROVE  TypeOK'
BY DEF Inv, TypeOK, storeVars

\* The step is over without an upload.
LEMMA StepSkipped ==
    ASSUME Inv, FindNothing \/ ZipRefuses \/ PackFails
    PROVE  Inv'
<1> USE ArtifactsAssumption DEF FindNothing, ZipRefuses, PackFails, ToNextStep, OperationFails
<1>1. /\ pc = "collect" /\ step \in 1..NSteps /\ pc' = "collect" /\ step' = step + 1
      /\ UNCHANGED <<config, backend, storeVars, queue, handed, collected, reported>>
      /\ errors' \in 0..MaxErrors /\ present' \subseteq Files \cup Kinds /\ failed' \subseteq Steps
      /\ UNCHANGED lost
  <2>1. /\ pc = "collect" /\ step \in 1..NSteps /\ pc' = "collect" /\ step' = step + 1
        /\ UNCHANGED <<config, backend, storeVars, queue, handed, collected, reported, lost>>
    BY DEF Steps, packVars
  <2>2. errors' \in 0..MaxErrors
    <3>1. errors \in 0..MaxErrors
      BY DEF Inv, TypeOK
    <3>2. errors' = errors \/ (errors < MaxErrors /\ errors' = errors + 1)
      OBVIOUS
    <3>3. QED
      BY <3>1, <3>2
  <2>3. present' \subseteq Files \cup Kinds /\ failed' \subseteq Steps
    <3>1. present \subseteq Files \cup Kinds /\ failed \subseteq Steps
      BY DEF Inv, TypeOK
    <3>2. CASE FindNothing
      BY <3>1, <3>2 DEF packVars
    <3>3. CASE ZipRefuses
      BY <3>1, <3>3
    <3>4. CASE PackFails
      BY <3>1, <3>4 DEF Kinds
    <3>5. QED
      BY <3>2, <3>3, <3>4
  <2>4. QED
    BY <2>1, <2>2, <2>3
<1>2. queue = << >> /\ Len(queue) = 0 /\ Len(collected) <= 2 * (step - 1) /\ Len(collected) \in Nat
  BY <1>1 DEF Inv, Progress, TypeOK
<1>3. TypeOK'
  <2>1. step' \in 1..(NSteps + 1) /\ Len(collected') + Len(queue') <= 2 * step'
    BY <1>1, <1>2
  <2>2. QED
    BY <1>1, <2>1, TypeUnlessStore DEF Inv, TypeOK
<1>4. Progress'
  BY <1>1, <1>2 DEF Progress, Uploading, Inv, storeVars
<1>5. NothingAhead'
  <2>1. \A u \in Uploads : Touched(u)' => u.step < step'
    BY <1>1, StoreKept, UploadTypes DEF Inv, NothingAhead, Steps
  <2>2. QED
    BY <1>1, <2>1, UploadTypes DEF NothingAhead, Steps
<1>6. PiecesAddUp'
  BY <1>1, StoreKept DEF PiecesAddUp
<1>7. QED
  BY <1>1, <1>3, <1>4, <1>5, <1>6, StoreKept DEF Inv

LEMMA PackKeeps == ASSUME Inv, Pack PROVE Inv'
<1> USE ArtifactsAssumption DEF Pack
<1>1. /\ step \in 1..NSteps /\ queue' = <<"tar", "zip">> /\ Len(queue') = 2
      /\ Len(collected) <= 2 * (step - 1) /\ Len(collected) \in Nat
  BY DEF Inv, Progress, TypeOK, Steps
<1>2. TypeOK'
  <2>1. Len(collected') + Len(queue') <= 2 * step'
    BY <1>1
  <2>2. reported' \in {<< >>, collected'} /\ present' \subseteq Files \cup Kinds /\ step' \in 1..(NSteps + 1)
    BY DEF Inv, TypeOK
  <2>3. QED
    BY <1>1, <2>1, <2>2, TypeUnlessStore DEF Inv, TypeOK
<1>3. Progress'
  BY <1>1 DEF Progress, Uploading, Inv, storeVars, Steps
<1>4. NothingAhead'
  <2>1. \A u \in Uploads : Touched(u)' => u.step < step'
    BY <1>1, StoreKept, UploadTypes DEF Inv, NothingAhead, Steps
  <2>2. QED
    BY <1>1, <2>1, UploadTypes DEF NothingAhead, Steps
<1>5. PiecesAddUp'
  BY StoreKept DEF PiecesAddUp
<1>6. QED
  BY <1>2, <1>3, <1>4, <1>5, StoreKept DEF Inv

LEMMA Sums ==
    ASSUME NEW n \in Nat, NEW q \in Nat, NEW s \in Nat, n + q <= 2 * s
    PROVE  (n + 1) + (q - 1) <= 2 * s /\ (q - 1 = 0 => n + 1 <= 2 * s)
OBVIOUS

\* An upload is reported, with or without success, and the next one is due.
LEMMA Collected ==
    ASSUME Inv, pc \in Uploading, NEW uploaded \in BOOLEAN, Collect(uploaded)
    PROVE  /\ collected' \in Seq([kind : Kinds, step : Steps, uploaded : BOOLEAN])
           /\ Len(collected') + Len(queue') <= 2 * step'
           /\ pc' = "collect" => queue' = << >> /\ Len(collected') <= 2 * (step' - 1)
           /\ handed' \in 0..Pieces
<1> USE ArtifactsAssumption DEF Collect, ToNextArchive
<1>1. /\ Len(queue') = Len(queue) - 1
      /\ \/ queue' = << >> /\ pc' = "collect" /\ step' = step + 1
         \/ queue' = <<"zip">> /\ pc' = "upload" /\ step' = step
  BY QueueAdvances
<1>2. Entry(uploaded) \in [kind : Kinds, step : Steps, uploaded : BOOLEAN]
  BY ThisType DEF Entry, Inv, Progress
<1>3. /\ collected' \in Seq([kind : Kinds, step : Steps, uploaded : BOOLEAN])
      /\ Len(collected') = Len(collected) + 1
      /\ Len(collected) \in Nat
  BY <1>2 DEF Inv, TypeOK
<1>4. /\ Len(collected) + Len(queue) <= 2 * step /\ step \in Nat
      /\ Len(queue) \in Nat
  BY QueueShapes DEF Inv, TypeOK
<1>5. queue' = << >> => Len(queue') = 0
  OBVIOUS
<1>6. handed' \in 0..Pieces
  OBVIOUS
<1>7. /\ Len(collected') + Len(queue') <= 2 * step
      /\ Len(queue') = 0 => Len(collected') <= 2 * step
  <2>1. Len(queue') = Len(queue) - 1
    BY <1>1
  <2>2. QED
    BY <1>3, <1>4, <2>1, Sums
<1>8. CASE queue' = << >> /\ pc' = "collect" /\ step' = step + 1
  <2>1. 2 * (step' - 1) = 2 * step /\ 2 * step <= 2 * step'
    BY <1>4, <1>8
  <2>2. Len(queue') = 0
    BY <1>5, <1>8
  <2>3. Len(collected') <= 2 * (step' - 1) /\ Len(collected') + Len(queue') <= 2 * step'
    <3>1. Len(collected') <= 2 * step /\ Len(collected') \in Nat
      BY <1>3, <1>4, <1>7, <2>2
    <3>2. Len(collected') <= 2 * (step' - 1)
      BY <2>1, <3>1
    <3>3. Len(collected') + 0 <= 2 * step'
      BY <1>4, <1>8, <3>1
    <3>4. QED
      BY <2>2, <3>2, <3>3
  <2>4. QED
    BY <1>3, <1>6, <1>8, <2>3
<1>9. CASE queue' = <<"zip">> /\ pc' = "upload" /\ step' = step
  BY <1>3, <1>6, <1>7, <1>9
<1>10. QED
  BY <1>1, <1>8, <1>9

\* The turn of the next upload comes with nothing of it touched.
LEMMA Advance ==
    ASSUME Inv, pc \in Uploading,
           \/ queue' = << >> /\ pc' = "collect" /\ step' = step + 1
           \/ queue' = <<"zip">> /\ pc' = "upload" /\ step' = step /\ Head(queue) = "tar",
           \A k : Unbegun(k)' <=> queue' = <<"zip">> /\ k = "zip",
           \A u \in Uploads : Touched(u)' => Touched(u) \/ u = This
    PROVE  NothingAhead'
<1> SUFFICES ASSUME NEW u \in Uploads, Touched(u)'
             PROVE  u.step <= step' /\ (u.step = step' => pc' # "collect" /\ ~Unbegun(u.kind)')
  BY DEF NothingAhead
<1>1. step \in Nat /\ u.step \in Nat
  <2>1. step \in 1..(NSteps + 1)
    BY DEF Inv, TypeOK
  <2>2. u.step \in 1..NSteps
    BY UploadTypes DEF Steps
  <2>3. QED
    BY <2>1, <2>2, ArtifactsAssumption
<1>2. This.step = step /\ This.kind = Head(queue)
  BY ThisType
<1>3. u.step <= step
  BY <1>1, <1>2 DEF Inv, NothingAhead
<1>4. CASE queue' = << >> /\ pc' = "collect" /\ step' = step + 1
  BY <1>1, <1>3, <1>4
<1>5. CASE queue' = <<"zip">> /\ pc' = "upload" /\ step' = step /\ Head(queue) = "tar"
  <2>1. queue = <<"tar", "zip">>
    BY <1>5, QueueShapes DEF Inv, TypeOK, Progress
  <2>2. Unbegun("zip")
    BY <2>1, QueueShapes DEF Unbegun, Uploading
  <2>3. u.step = step => u.kind # "zip"
    BY <1>2, <1>5, <2>2 DEF Inv, NothingAhead
  <2>4. QED
    BY <1>3, <1>5, <2>3
<1>6. QED
  BY <1>4, <1>5

LEMMA UploadFailsKeeps == ASSUME Inv, UploadFails PROVE Inv'
<1> USE ArtifactsAssumption DEF UploadFails, OperationFails
<1>1. pc \in Uploading /\ Collect(FALSE) /\ UNCHANGED <<config, backend, packVars, storeVars, reported>>
      /\ errors' \in 0..MaxErrors
  <2>1. errors' \in 0..MaxErrors
    BY DEF Inv, TypeOK
  <2>2. pc \in Uploading
    BY DEF Uploading
  <2>3. QED
    BY <2>1, <2>2
<1>2. /\ queue' \in {<< >>, <<"zip">>}
      /\ \/ queue' = << >> /\ pc' = "collect" /\ step' = step + 1
         \/ queue' = <<"zip">> /\ pc' = "upload" /\ step' = step /\ Head(queue) = "tar"
      /\ step' \in 1..(NSteps + 1)
      /\ \A k : Unbegun(k)' <=> queue' = <<"zip">> /\ k = "zip"
  BY <1>1, QueueAdvances DEF Collect
<1>3. TypeOK'
  <2>1. reported = << >>
    BY <1>1 DEF Inv, Progress, Uploading
  <2>2. reported' \in {<< >>, collected'}
    BY <1>1, <2>1
  <2>3. QED
    BY <1>1, <1>2, <2>2, Collected, TypeUnlessStore DEF Inv, TypeOK, packVars
<1>4. Progress'
  <2>1. reported' = << >> /\ pc # "done"
    BY <1>1 DEF Inv, Progress, Uploading
  <2>2. pending' \cap cut' = {}
    BY <1>1 DEF Inv, Progress, storeVars
  <2>3. pc' = "collect" => queue' = << >> /\ Len(collected') <= 2 * (step' - 1)
    BY <1>1, Collected
  <2>4. pc' \in Uploading => queue' # << >> /\ step' \in Steps
    <3>1. step \in Steps
      BY <1>1 DEF Inv, Progress
    <3>2. pc' \in Uploading => queue' = <<"zip">> /\ step' = step
      BY <1>2 DEF Uploading
    <3>3. <<"zip">> # << >>
      OBVIOUS
    <3>4. QED
      BY <3>1, <3>2, <3>3
  <2>5. handed' = 0
    BY <1>1 DEF Collect, ToNextArchive
  <2>6. QED
    BY <2>1, <2>2, <2>3, <2>4, <2>5 DEF Progress
<1>5. NothingAhead'
  <2>1. \A u \in Uploads : Touched(u)' => Touched(u) \/ u = This
    BY <1>1, StoreKept
  <2>2. QED
    BY <1>1, <1>2, <2>1, Advance
<1>6. PiecesAddUp'
  BY <1>1, <1>2, StoreKept DEF PiecesAddUp
<1>7. QED
  BY <1>1, <1>3, <1>4, <1>5, <1>6, StoreKept DEF Inv

LEMMA SkipKeeps == ASSUME Inv, SkipMissing PROVE Inv'
<1> USE ArtifactsAssumption DEF SkipMissing
<1>1. /\ pc \in Uploading /\ ToNextArchive /\ handed' = 0
      /\ UNCHANGED <<config, backend, packVars, storeVars, collected, reported, errors>>
  BY DEF Uploading, ToNextArchive
<1>2. /\ queue' \in {<< >>, <<"zip">>} /\ Len(queue') = Len(queue) - 1
      /\ \/ queue' = << >> /\ pc' = "collect" /\ step' = step + 1
         \/ queue' = <<"zip">> /\ pc' = "upload" /\ step' = step /\ Head(queue) = "tar"
      /\ step' \in 1..(NSteps + 1)
      /\ \A k : Unbegun(k)' <=> queue' = <<"zip">> /\ k = "zip"
  BY <1>1, QueueAdvances
<1>3. /\ Len(collected') + Len(queue') <= 2 * step'
      /\ pc' = "collect" => queue' = << >> /\ Len(collected') <= 2 * (step' - 1)
  <2>1. /\ Len(collected) + Len(queue) <= 2 * step /\ step \in Nat
        /\ Len(queue) \in Nat /\ Len(queue') \in Nat /\ Len(collected) \in Nat
    BY <1>2, QueueShapes DEF Inv, TypeOK
  <2>2. collected' = collected /\ (queue' = << >> => Len(queue') = 0) /\ step' \in {step, step + 1}
    BY <1>1, <1>2
  <2>3. QED
    BY <1>2, <2>1, <2>2
<1>4. TypeOK'
  <2>1. reported = << >>
    BY <1>1 DEF Inv, Progress, Uploading
  <2>2. QED
    <3>1. reported' \in {<< >>, collected'} /\ errors' \in 0..MaxErrors /\ handed' \in 0..Pieces
      BY <1>1, <2>1 DEF Inv, TypeOK
    <3>2. /\ collected' \in Seq([kind : Kinds, step : Steps, uploaded : BOOLEAN])
          /\ present' \subseteq Files \cup Kinds /\ failed' \subseteq Steps /\ lost' \subseteq Steps
      BY <1>1 DEF Inv, TypeOK, packVars
    <3>3. pc' \in {"collect", "upload"} /\ queue' \in {<< >>, <<"zip">>, <<"tar", "zip">>}
      BY <1>2
    <3>4. QED
      BY <1>1, <1>2, <1>3, <3>1, <3>2, <3>3, TypeUnlessStore
<1>5. Progress'
  <2>1. reported' = << >> /\ pending' \cap cut' = {}
    BY <1>1 DEF Inv, Progress, Uploading, storeVars
  <2>2. step \in Steps /\ <<"zip">> # << >>
    BY <1>1 DEF Inv, Progress
  <2>3. pc' \in Uploading => queue' # << >> /\ step' \in Steps
    BY <1>2, <2>2 DEF Uploading
  <2>4. QED
    BY <1>1, <1>3, <2>1, <2>3 DEF Progress
<1>6. NothingAhead'
  <2>1. \A u \in Uploads : Touched(u)' => Touched(u) \/ u = This
    BY <1>1, StoreKept
  <2>2. QED
    BY <1>1, <1>2, <2>1, Advance
<1>7. PiecesAddUp'
  BY <1>1, <1>2, StoreKept DEF PiecesAddUp
<1>8. QED
  BY <1>1, <1>4, <1>5, <1>6, <1>7, StoreKept DEF Inv

LEMMA VanishKeeps == ASSUME Inv, Vanish PROVE Inv'
<1> USE ArtifactsAssumption DEF Vanish, OperationFails
<1>1. /\ UNCHANGED <<config, backend, pc, step, failed, queue, handed, storeVars, collected, reported>>
      /\ present' \subseteq present /\ lost' \subseteq lost \cup Steps
  OBVIOUS
<1>2. TypeOK'
  <2>1. errors' \in 0..MaxErrors
    BY DEF Inv, TypeOK
  <2>2. QED
    BY <1>1, <2>1 DEF Inv, TypeOK, storeVars
<1>3. Progress' /\ NothingAhead' /\ PiecesAddUp'
  <2>1. This' = This /\ \A k : Unbegun(k)' <=> Unbegun(k)
    BY <1>1 DEF This, Unbegun
  <2>2. QED
    BY <1>1, <2>1, StoreKept DEF Inv, Progress, NothingAhead, PiecesAddUp, Uploading, storeVars
<1>4. QED
  BY <1>1, <1>2, <1>3, StoreKept DEF Inv

LEMMA ReportAbortKeeps == ASSUME Inv, Report \/ Abort PROVE Inv'
<1> USE ArtifactsAssumption DEF Report, Abort
<1>1. /\ pc' \in {"done", "aborted"} /\ pc # "done"
      /\ UNCHANGED <<config, backend, step, packVars, queue, handed, storeVars, collected, errors>>
      /\ reported' \in {<< >>, collected} /\ (pc' = "aborted" => reported' = << >>)
  BY DEF Inv, Progress
<1>2. TypeOK'
  BY <1>1, TypeUnlessStore DEF Inv, TypeOK, packVars
<1>3. Progress' /\ NothingAhead' /\ PiecesAddUp'
  BY <1>1, StoreKept DEF Inv, Progress, NothingAhead, PiecesAddUp, Uploading, storeVars
<1>4. QED
  BY <1>1, <1>2, <1>3, StoreKept DEF Inv

-----------------------------------------------------------------------------
(* Steps of the store                                                      *)

LEMMA StoredType ==
    ASSUME TypeOK
    PROVE  /\ stored \in [Kinds -> Contents]
           /\ \A k \in Kinds : /\ stored[k].step \in Nat /\ stored[k].pieces \in 0..Pieces
                               /\ stored[k].torn \in BOOLEAN
<1>1. stored \in [Kinds -> Contents]
  BY DEF TypeOK, Contents
<1>2. QED
  BY <1>1, ArtifactsAssumption DEF Contents

\* A file is created or an object is put, under a name that only older steps
\* have used.
LEMMA StoreBegins ==
    ASSUME Inv, pc = "upload", NEW n \in {0, Pieces},
           stored' = [stored EXCEPT ![Head(queue)] = [step |-> step, pieces |-> n, torn |-> FALSE]],
           \/ pc' = "writing" /\ n = 0
           \/ pc' = "put" /\ n = Pieces,
           UNCHANGED <<config, backend, step, packVars, queue, handed, pending, cut, listing,
                       collected, reported, errors>>
    PROVE  Inv'
<1> USE ArtifactsAssumption
<1> DEFINE h == Head(queue)
<1>1. /\ h \in Kinds /\ This \in Uploads /\ This.kind = h /\ This.step = step /\ step \in Steps
      /\ queue # << >> /\ handed = 0 /\ reported = << >>
  BY ThisType DEF Uploading, Inv, Progress
<1>2. ~Touched(This)
  <2>1. Unbegun(h)
    BY <1>1, QueueShapes DEF Inv, TypeOK, Unbegun
  <2>2. QED
    BY <1>1, <2>1 DEF Inv, NothingAhead, Uploading
<1>3. /\ \A k \in Kinds \ {h} : stored'[k] = stored[k]
      /\ stored'[h] = [step |-> step, pieces |-> n, torn |-> FALSE]
  BY <1>1, StoredType DEF Inv
<1>4. \A u \in Uploads : u = This <=> u.kind = h /\ u.step = step
  BY <1>1, UploadTypes DEF This
<1>5. \A u \in Uploads : Touched(u)' => Touched(u) \/ u = This
  BY <1>3, <1>4, UploadTypes DEF Touched, Listed
<1>6. TypeOK'
  <2>1. [step |-> step, pieces |-> n, torn |-> FALSE] \in Contents
    BY <1>1 DEF Contents, Steps
  <2>2. stored' \in [Kinds -> Contents]
    BY <2>1, StoredType DEF Inv
  <2>3. QED
    BY <2>2 DEF Inv, TypeOK, Contents, packVars
<1>7. Progress'
  BY <1>1 DEF Inv, Progress, Uploading
<1>8. NothingAhead'
  <2>1. \A k : Unbegun(k)' => Unbegun(k) /\ k # h
    BY QueueShapes DEF Unbegun, Inv, TypeOK
  <2>2. QED
    BY <1>1, <1>4, <1>5, <2>1, UploadTypes DEF Inv, NothingAhead, Uploading, Steps
<1>9. PiecesAddUp'
  <2>1. Late(This) = 0 /\ Out(This) = 0
    BY <1>2 DEF Touched, Late, Out
  <2>2. Late(This)' = 0 /\ \A u : Out(u)' = Out(u)
    BY <2>1 DEF Late, Out, This
  <2>3. ASSUME NEW u \in Uploads, stored'[u.kind].step = u.step
        PROVE  stored'[u.kind].pieces + Out(u)' <= Pieces
    <3>1. CASE u = This
      BY <1>1, <1>3, <2>1, <2>2, <3>1
    <3>2. CASE u # This
      BY <1>3, <1>4, <2>2, <2>3, <3>2, UploadTypes DEF Inv, PiecesAddUp
    <3>3. QED
      BY <3>1, <3>2
  <2>4. pc' \in {"writing", "put"} => stored'[Head(queue')].step = step'
    BY <1>3
  <2>5. pc' = "writing" => stored'[Head(queue')].pieces + Late(This)' = handed'
    BY <1>1, <1>3, <2>2
  <2>6. pc' = "put" => stored'[Head(queue')].pieces = Pieces /\ Late(This)' = 0
    BY <1>3, <2>2
  <2>7. QED
    BY <2>3, <2>4, <2>5, <2>6 DEF PiecesAddUp
<1>10. ASSUME NEW u \in Uploads, Listed(u)' PROVE Served(u)'
  <2>1. Listed(u) /\ Late(u)' = Late(u) /\ u.step <= step /\ u # This
    BY <1>2, <1>10 DEF Listed, Late, Touched, Inv, NothingAhead, Uploading
  <2>2. CASE u.kind = h
    BY <1>3, <1>4, <2>1, <2>2 DEF Served
  <2>3. CASE u.kind # h
    BY <1>3, <1>10, <2>1, <2>3, UploadTypes DEF Inv, Served
  <2>4. QED
    BY <2>2, <2>3
<1>11. QED
  BY <1>6, <1>7, <1>8, <1>9, <1>10 DEF Inv

LEMMA HandOverKeeps == ASSUME Inv, HandOver PROVE Inv'
<1> USE ArtifactsAssumption DEF HandOver
<1>1. /\ This \in Uploads /\ This.kind = Head(queue) /\ This.step = step
      /\ stored[This.kind].step = This.step /\ Late(This) = 0 /\ Out(This) = 0
      /\ stored[This.kind].pieces = handed /\ handed \in Nat
  <2>1. This \in Uploads /\ This.kind = Head(queue) /\ This.step = step
    BY ThisType DEF Uploading
  <2>2. Late(This) = 0 /\ Out(This) = 0
    BY DEF Late, Out
  <2>3. stored[This.kind].pieces \in Nat /\ handed \in Nat
    BY <2>1, StoredType, UploadTypes DEF Inv, TypeOK
  <2>4. QED
    BY <2>1, <2>2, <2>3 DEF Inv, PiecesAddUp
<1>2. /\ \A u : Touched(u)' <=> Touched(u) \/ u = This
      /\ \A u : Late(u)' = (IF u = This THEN 1 ELSE Late(u)) /\ Out(u)' = (IF u = This THEN 1 ELSE Out(u))
      /\ This' = This
  BY <1>1 DEF Touched, Listed, Late, Out, This
<1>3. TypeOK'
  BY <1>1 DEF Inv, TypeOK, packVars
<1>4. Progress'
  BY DEF Inv, Progress, Uploading
<1>5. NothingAhead'
  <2>1. Touched(This)
    BY <1>1 DEF Touched
  <2>2. QED
    BY <1>2, <2>1 DEF Inv, NothingAhead, Unbegun
<1>6. PiecesAddUp'
  <2>1. ASSUME NEW u \in Uploads, stored[u.kind].step = u.step
        PROVE  stored[u.kind].pieces + Out(u)' <= Pieces
    <3>1. CASE u = This
      BY <1>1, <1>2, <3>1
    <3>2. CASE u # This
      BY <1>2, <2>1, <3>2 DEF Inv, PiecesAddUp
    <3>3. QED
      BY <3>1, <3>2
  <2>2. stored[Head(queue)].step = step
    BY <1>1
  <2>3. stored[Head(queue)].pieces + Late(This)' = handed'
    BY <1>1, <1>2
  <2>4. QED
    BY <2>1, <2>2, <2>3 DEF PiecesAddUp
<1>7. ASSUME NEW u \in Uploads, Listed(u)' PROVE Served(u)'
  <2>1. Listed(u) /\ Served(u)
    BY <1>7 DEF Listed, Inv
  <2>2. CASE u = This
    BY <1>1, <2>1, <2>2 DEF Served
  <2>3. CASE u # This
    BY <1>2, <2>1, <2>3 DEF Served
  <2>4. QED
    BY <2>2, <2>3
<1>8. QED
  BY <1>3, <1>4, <1>5, <1>6, <1>7 DEF Inv

\* A piece is written, into the content it belongs to or into a later one.
LEMMA LandKeeps == ASSUME Inv, NEW u \in Uploads, Land(u) PROVE Inv'
<1> USE ArtifactsAssumption DEF Land
<1>1. /\ u.kind \in Kinds /\ stored[u.kind].step \in Nat
      /\ stored[u.kind].pieces \in 0..Pieces /\ stored[u.kind].torn \in BOOLEAN
      /\ stored[u.kind] \in Contents
      /\ u \notin cut
  BY UploadTypes, StoredType DEF Inv, Progress
<1>2. /\ \A k \in Kinds \ {u.kind} : stored'[k] = stored[k]
      /\ stored'[u.kind].step = stored[u.kind].step
      /\ stored[u.kind].step = u.step => /\ stored'[u.kind].pieces = stored[u.kind].pieces + 1
                                         /\ stored'[u.kind].torn = stored[u.kind].torn
      /\ stored[u.kind].step # u.step => /\ stored'[u.kind].pieces = stored[u.kind].pieces
                                         /\ stored'[u.kind].torn = TRUE
  <2> DEFINE c == stored[u.kind]
             d == IF c.step = u.step THEN [c EXCEPT !.pieces = c.pieces + 1] ELSE [c EXCEPT !.torn = TRUE]
  <2>1. stored' = [stored EXCEPT ![u.kind] = d] /\ stored \in [Kinds -> Contents]
    BY StoredType DEF Inv
  <2>2. c.step = u.step => d.step = c.step /\ d.pieces = c.pieces + 1 /\ d.torn = c.torn
    BY <1>1 DEF Contents
  <2>3. c.step # u.step => d.step = c.step /\ d.pieces = c.pieces /\ d.torn = TRUE
    BY <1>1 DEF Contents
  <2>4. stored'[u.kind] = d /\ \A k \in Kinds \ {u.kind} : stored'[k] = stored[k]
    <3> HIDE DEF d, c
    <3>1. QED
      BY <1>1, <2>1
  <2> HIDE DEF d
  <2>5. QED
    BY <2>2, <2>3, <2>4
<1>3. /\ Late(u) = 1 /\ Out(u) = 1 /\ Late(u)' = 0 /\ Out(u)' = 0
      /\ \A v : v # u => Late(v)' = Late(v) /\ Out(v)' = Out(v)
      /\ This' = This
  BY <1>1 DEF Late, Out, This
<1>4. \A v : Late(v) \in {0, 1} /\ Out(v) \in {0, 1}
  BY DEF Late, Out
<1>5. \A v \in Uploads : v # u /\ v.kind = u.kind => v.step # u.step
  BY UploadTypes
<1>6. TypeOK'
  <2>1. stored[u.kind].step = u.step => stored[u.kind].pieces + 1 <= Pieces
    BY <1>3 DEF Inv, PiecesAddUp
  <2>2. stored' \in [Kinds -> Contents]
    <3> DEFINE c == stored[u.kind]
               d == IF c.step = u.step THEN [c EXCEPT !.pieces = c.pieces + 1] ELSE [c EXCEPT !.torn = TRUE]
    <3>1. d \in Contents
      <4>1. CASE c.step = u.step
        <5>1. c.pieces + 1 \in 0..Pieces
          BY <1>1, <2>1, <4>1
        <5>2. QED
          BY <1>1, <4>1, <5>1 DEF Contents
      <4>2. CASE c.step # u.step
        BY <1>1, <4>2 DEF Contents
      <4>3. QED
        BY <4>1, <4>2
    <3>2. stored' = [stored EXCEPT ![u.kind] = d] /\ stored \in [Kinds -> Contents]
      BY StoredType DEF Inv
    <3> HIDE DEF d
    <3>3. QED
      BY <1>1, <3>1, <3>2
  <2>3. QED
    BY <2>2 DEF Inv, TypeOK, Contents, packVars
<1>7. Progress'
  BY DEF Inv, Progress
<1>8. NothingAhead'
  <2>1. \A v \in Uploads : Touched(v)' => Touched(v)
    BY <1>2, UploadTypes DEF Touched, Listed
  <2>2. QED
    BY <2>1 DEF Inv, NothingAhead, Unbegun
<1>9. PiecesAddUp'
  <2>1. ASSUME NEW v \in Uploads, stored'[v.kind].step = v.step
        PROVE  stored'[v.kind].pieces + Out(v)' <= Pieces
    <3>1. stored[v.kind].step = v.step /\ stored[v.kind].pieces + Out(v) <= Pieces
          /\ stored[v.kind].pieces \in Nat
      BY <1>2, <2>1, UploadTypes, StoredType DEF Inv, PiecesAddUp
    <3>2. CASE v = u
      BY <1>2, <1>3, <3>1, <3>2
    <3>3. CASE v # u
      BY <1>2, <1>3, <1>5, <3>1, <3>3, UploadTypes
    <3>4. QED
      BY <3>2, <3>3
  <2>2. ASSUME pc \in {"writing", "put"}
        PROVE  /\ stored'[Head(queue)].step = step
               /\ stored'[Head(queue)].pieces + Late(This)' = stored[Head(queue)].pieces + Late(This)
               /\ Late(This) = 0 => Late(This)' = 0
    <3>1. /\ This \in Uploads /\ This.kind = Head(queue) /\ This.step = step
          /\ stored[Head(queue)].step = step
      BY <2>2, ThisType DEF Uploading, Inv, PiecesAddUp
    <3>2. CASE This = u
      <4>1. Head(queue) = u.kind /\ stored[u.kind].step = u.step /\ u.step = step
        BY <3>1, <3>2
      <4>2. stored'[u.kind].step = u.step /\ stored'[u.kind].pieces = stored[u.kind].pieces + 1
        BY <1>2, <4>1
      <4>3. Late(This) = 1 /\ Late(This)' = 0
        BY <1>3, <3>2
      <4>4. stored[u.kind].pieces \in Nat
        BY <1>1
      <4>5. stored'[u.kind].pieces + Late(This)' = stored[u.kind].pieces + Late(This)
        BY <4>2, <4>3, <4>4
      <4>6. QED
        BY <4>1, <4>2, <4>3, <4>5
    <3>3. CASE This # u
      BY <1>2, <1>3, <1>5, <3>1, <3>3, UploadTypes
    <3>4. QED
      BY <3>2, <3>3
  <2>3. pc = "writing" => stored'[Head(queue)].pieces + Late(This)' = handed
    BY <2>2 DEF Inv, PiecesAddUp
  <2>4. ASSUME pc = "put" PROVE stored'[Head(queue)].pieces = Pieces /\ Late(This)' = 0
    <3>1. Late(This) = 0 /\ Late(This)' = 0 /\ stored[Head(queue)].pieces = Pieces
      BY <2>2, <2>4 DEF Inv, PiecesAddUp
    <3>2. Head(queue) \in Kinds
      BY <2>4, ThisType DEF Uploading
    <3>3. stored'[Head(queue)].pieces \in 0..Pieces
      BY <1>6, <3>2 DEF TypeOK
    <3>4. stored'[Head(queue)].pieces + 0 = Pieces + 0
      BY <2>2, <2>4, <3>1
    <3>5. QED
      BY <3>1, <3>3, <3>4
  <2>5. QED
    BY <2>1, <2>2, <2>3, <2>4 DEF PiecesAddUp
<1>10. ASSUME NEW v \in Uploads, Listed(v)' PROVE Served(v)'
  <2>1. Listed(v) /\ Served(v)
    BY <1>10 DEF Listed, Inv
  <2>2. CASE v = u
    <3>1. CASE stored[u.kind].step = u.step
      <4>1. stored'[u.kind].pieces = stored[u.kind].pieces + 1 /\ stored'[u.kind].torn = stored[u.kind].torn
            /\ stored'[u.kind].step = u.step /\ u.step \in Nat
        BY <1>1, <1>2, <3>1
      <4>2. ~stored[u.kind].torn => stored[u.kind].pieces + 1 = Pieces
        BY <1>3, <2>1, <2>2, <3>1 DEF Served
      <4>3. ~stored'[u.kind].torn => stored'[u.kind].pieces + 0 = Pieces
        BY <1>1, <4>1, <4>2
      <4>4. QED
        BY <1>3, <2>2, <4>1, <4>3 DEF Served
    <3>2. CASE stored[u.kind].step # u.step
      BY <1>2, <2>1, <2>2, <3>2 DEF Served
    <3>3. QED
      BY <3>1, <3>2
  <2>3. CASE v # u /\ v.kind = u.kind
    BY <1>2, <1>3, <1>5, <2>1, <2>3 DEF Served
  <2>4. CASE v.kind # u.kind
    BY <1>2, <1>3, <2>1, <2>4, UploadTypes DEF Served
  <2>5. QED
    BY <2>2, <2>3, <2>4
<1>11. QED
  BY <1>6, <1>7, <1>8, <1>9, <1>10 DEF Inv

LEMMA LandFailsKeeps == ASSUME Inv, NEW u \in Uploads, LandFails(u) PROVE Inv'
<1> USE ArtifactsAssumption DEF LandFails, OperationFails
<1>1. /\ \A v : Late(v)' = Late(v) /\ Out(v)' <= Out(v) /\ Out(v) \in {0, 1} /\ Out(v)' \in {0, 1}
      /\ \A v : Touched(v)' <=> Touched(v)
      /\ This' = This
  BY DEF Late, Out, Touched, Listed, This
<1>2. TypeOK'
  BY DEF Inv, TypeOK, packVars
<1>3. Progress'
  BY DEF Inv, Progress
<1>4. NothingAhead'
  BY <1>1 DEF Inv, NothingAhead, Unbegun
<1>5. PiecesAddUp'
  <2>1. ASSUME NEW v \in Uploads, stored[v.kind].step = v.step
        PROVE  stored[v.kind].pieces + Out(v)' <= Pieces
    <3>1. stored[v.kind].pieces + Out(v) <= Pieces /\ stored[v.kind].pieces \in Nat
      BY <2>1, UploadTypes, StoredType DEF Inv, PiecesAddUp
    <3>2. QED
      BY <1>1, <3>1
  <2>2. QED
    BY <1>1, <2>1 DEF Inv, PiecesAddUp
<1>6. ASSUME NEW v \in Uploads, Listed(v)' PROVE Served(v)'
  BY <1>1, <1>6 DEF Listed, Served, Inv
<1>7. QED
  BY <1>2, <1>3, <1>4, <1>5, <1>6 DEF Inv

LEMMA ListKeeps == ASSUME Inv, ListLocal \/ ListObject PROVE Inv'
<1> USE ArtifactsAssumption
<1>1. /\ pc \in {"writing", "put"} /\ Collect(TRUE) /\ listing' = Append(listing, This)
      /\ UNCHANGED <<config, backend, packVars, pending, stored, cut, reported, errors>>
      /\ pc = "writing" => handed = Pieces
  BY DEF ListLocal, ListObject
<1>2. This \in Uploads /\ This.kind = Head(queue) /\ This.step = step /\ pc \in Uploading
  BY <1>1, ThisType DEF Uploading
<1>3. /\ queue' \in {<< >>, <<"zip">>}
      /\ \/ queue' = << >> /\ pc' = "collect" /\ step' = step + 1
         \/ queue' = <<"zip">> /\ pc' = "upload" /\ step' = step /\ Head(queue) = "tar"
      /\ step' \in 1..(NSteps + 1)
      /\ \A k : Unbegun(k)' <=> queue' = <<"zip">> /\ k = "zip"
  BY <1>1, <1>2, QueueAdvances DEF Collect
<1>4. listing' \in Seq(Uploads) /\ \A u : Listed(u)' <=> Listed(u) \/ u = This
  <2>1. listing \in Seq(Uploads)
    BY DEF Inv, TypeOK
  <2>2. /\ DOMAIN listing' = 1 .. Len(listing) + 1 /\ DOMAIN listing = 1 .. Len(listing)
        /\ Len(listing) \in Nat /\ listing'[Len(listing) + 1] = This
        /\ \A i \in 1 .. Len(listing) : listing'[i] = listing[i]
    BY <1>1, <1>2, <2>1
  <2>3. \A u : Listed(u)' => Listed(u) \/ u = This
    BY <2>2 DEF Listed
  <2>4. \A u : Listed(u) => Listed(u)'
    BY <2>2 DEF Listed
  <2>5. Len(listing) + 1 \in DOMAIN listing'
    BY <2>2
  <2>6. ASSUME NEW u, u = This PROVE Listed(u)'
    BY <2>2, <2>5, <2>6 DEF Listed
  <2>7. QED
    BY <1>1, <1>2, <2>1, <2>3, <2>4, <2>6
<1>5. \A u : Late(u)' = Late(u) /\ Out(u)' = Out(u)
  BY <1>1 DEF Late, Out
<1>6. TypeOK'
  <2>1. reported = << >>
    BY <1>2 DEF Inv, Progress, Uploading
  <2>2. reported' \in {<< >>, collected'}
    BY <1>1, <2>1
  <2>3. QED
    BY <1>1, <1>2, <1>3, <1>4, <2>2, Collected DEF Inv, TypeOK, packVars
<1>7. Progress'
  <2>1. reported' = << >>
    BY <1>1 DEF Inv, Progress
  <2>2. pending' \cap cut' = {}
    BY <1>1 DEF Inv, Progress
  <2>3. pc' = "collect" => queue' = << >> /\ Len(collected') <= 2 * (step' - 1)
    BY <1>1, <1>2, Collected
  <2>4. pc' \in Uploading => queue' # << >> /\ step' \in Steps
    <3>1. step \in Steps
      BY <1>2 DEF Inv, Progress
    <3>2. pc' \in Uploading => queue' = <<"zip">> /\ step' = step
      BY <1>3 DEF Uploading
    <3>3. <<"zip">> # << >>
      OBVIOUS
    <3>4. QED
      BY <3>1, <3>2, <3>3
  <2>5. handed' = 0
    BY <1>1 DEF Collect, ToNextArchive
  <2>6. QED
    BY <2>1, <2>2, <2>3, <2>4, <2>5 DEF Progress
<1>8. NothingAhead'
  <2>1. \A u \in Uploads : Touched(u)' => Touched(u) \/ u = This
    BY <1>1, <1>4 DEF Touched
  <2>2. QED
    BY <1>2, <1>3, <2>1, Advance
<1>9. PiecesAddUp'
  <2>1. \A u \in Uploads : stored'[u.kind].step = u.step => stored'[u.kind].pieces + Out(u)' <= Pieces
    BY <1>1, <1>5 DEF Inv, PiecesAddUp
  <2>2. pc' \notin {"writing", "put"}
    BY <1>3
  <2>3. QED
    BY <2>1, <2>2 DEF PiecesAddUp
<1>10. ASSUME NEW u \in Uploads, Listed(u)' PROVE Served(u)'
  <2>1. CASE Listed(u)
    BY <1>1, <1>5, <2>1 DEF Served, Inv
  <2>2. CASE u = This
    <3>1. stored[u.kind].step = u.step /\ stored[u.kind].pieces + Late(u) = Pieces
      BY <1>1, <1>2, <2>2 DEF Inv, PiecesAddUp
    <3>2. stored[u.kind].step \in Nat
      BY StoredType, UploadTypes DEF Inv
    <3>3. QED
      BY <1>1, <1>5, <3>1, <3>2 DEF Served
  <2>3. QED
    BY <1>4, <1>10, <2>1, <2>2
<1>11. QED
  BY <1>6, <1>7, <1>8, <1>9, <1>10 DEF Inv

LEMMA NextInv == ASSUME Inv, [Next]_vars PROVE Inv'
<1>1. CASE FindNothing \/ ZipRefuses \/ PackFails
  BY <1>1, StepSkipped
<1>2. CASE Pack
  BY <1>2, PackKeeps
<1>3. CASE CreateFile
  BY <1>3, StoreBegins DEF CreateFile
<1>4. CASE PutObject
  BY <1>4, StoreBegins DEF PutObject
<1>5. CASE HandOver
  BY <1>5, HandOverKeeps
<1>6. CASE \E u \in Uploads : Land(u) \/ LandFails(u)
  BY <1>6, LandKeeps, LandFailsKeeps
<1>7. CASE ListLocal \/ ListObject
  BY <1>7, ListKeeps
<1>8. CASE UploadFails
  BY <1>8, UploadFailsKeeps
<1>9. CASE Report \/ Abort
  BY <1>9, ReportAbortKeeps
<1>12. CASE SkipMissing
  BY <1>12, SkipKeeps
<1>13. CASE Vanish
  BY <1>13, VanishKeeps
<1>10. CASE UNCHANGED vars
  <2>1. UNCHANGED storeVars
    BY <1>10 DEF vars
  <2>2. TypeOK' /\ Progress' /\ This' = This /\ \A k : Unbegun(k)' <=> Unbegun(k)
    BY <1>10 DEF vars, packVars, storeVars, Inv, TypeOK, Progress, This, Unbegun
  <2>3. NothingAhead' /\ PiecesAddUp'
    BY <1>10, <2>1, <2>2, StoreKept DEF vars, storeVars, Inv, NothingAhead, PiecesAddUp
  <2>4. QED
    BY <2>1, <2>2, <2>3, StoreKept DEF Inv
<1>11. QED
  BY <1>1, <1>2, <1>3, <1>4, <1>5, <1>6, <1>7, <1>8, <1>9, <1>10, <1>12, <1>13 DEF Next

LEMMA InvHolds == Spec => []Inv
BY InitInv, NextInv, PTL DEF Spec

-----------------------------------------------------------------------------
(* What is collected                                                       *)

LEMMA SettledStays ==
    ASSUME NEW s, Settled(s), UNCHANGED config, s \in failed' <=> s \in failed, lost \subseteq lost',
           Collection(s)' = Collection(s),
           \A i \in Collection(s) : collected'[i].kind = collected[i].kind
    PROVE  Settled(s)'
<1>1. Regular(s)' = Regular(s) /\ Refused(s)' = Refused(s)
  BY DEF Regular, Refused
<1>2. ASSUME Collection(s) # {}
      PROVE  \E n \in Collection(s) :
                \/ Collection(s) = {n} /\ s \in lost'
                \/ /\ Collection(s) = {n, n + 1}
                   /\ collected'[n].kind = "tar" /\ collected'[n + 1].kind = "zip"
  <2>1. PICK n \in Collection(s) : \/ Collection(s) = {n} /\ s \in lost
                                   \/ /\ Collection(s) = {n, n + 1}
                                      /\ collected[n].kind = "tar" /\ collected[n + 1].kind = "zip"
    BY <1>2 DEF Settled
  <2>2. CASE Collection(s) = {n} /\ s \in lost
    BY <2>2
  <2>3. CASE /\ Collection(s) = {n, n + 1}
             /\ collected[n].kind = "tar" /\ collected[n + 1].kind = "zip"
    <3>1. n \in Collection(s) /\ n + 1 \in Collection(s)
      BY <2>3
    <3>2. QED
      BY <2>3, <3>1
  <2>4. QED
    BY <2>1, <2>2, <2>3
<1>3. s \in failed' => Collection(s)' = {}
  BY DEF Settled
<1>4. Regular(s)' /\ s \notin failed' \cup lost' => Collection(s)' # {}
  BY <1>1 DEF Settled
<1>5. Refused(s)' /\ s \notin lost' => Collection(s)' = {}
  BY <1>1 DEF Settled
<1>6. QED
  BY <1>2, <1>3, <1>4, <1>5 DEF Settled

\* A step that collects nothing and stays within the same pipeline step.
LEMMA AccountKept ==
    ASSUME Account, UNCHANGED <<config, step, packVars, queue, collected>>,
           \/ pc' = pc \/ pc' = "aborted"
           \/ pc \in Uploading /\ pc' \in Uploading
           \/ pc = "collect" /\ pc' = "done" /\ step \notin Steps
    PROVE  Account'
<1> USE DEF packVars
<1>1. \A s : Collection(s)' = Collection(s) /\ Refused(s)' = Refused(s)
  BY DEF Collection, Refused
<1>2. \A s : Settled(s) => Settled(s)'
  BY <1>1, SettledStays
<1>3. Complete'
  BY DEF Account, Complete, Uploading
<1>4. QED
  BY <1>1, <1>2, <1>3 DEF Account, Uploading

LEMMA CollectedTypes ==
    ASSUME TypeOK
    PROVE  \A i \in DOMAIN collected : collected[i].step \in Steps
<1> DEFINE R == [kind : Kinds, step : Steps, uploaded : BOOLEAN]
<1>1. collected \in Seq(R)
  BY DEF TypeOK
<1>2. \A r \in R : r.step \in Steps
  OBVIOUS
<1> HIDE DEF R
<1>3. \A i \in DOMAIN collected : collected[i] \in R
  BY <1>1
<1>4. QED
  BY <1>2, <1>3

\* Something vanishes: the steps it can matter to are marked.
LEMMA AccountVanishes == ASSUME Inv, Account, Vanish PROVE Account'
<1> USE DEF Vanish
<1>1. UNCHANGED <<config, pc, step, failed, queue, collected>> /\ lost \subseteq lost'
  OBVIOUS
<1>2. \A s : Collection(s)' = Collection(s) /\ Refused(s)' = Refused(s)
  BY DEF Collection, Refused
<1>3. \A s : Settled(s) => Settled(s)'
  BY <1>1, <1>2, SettledStays
<1>4. Complete'
  BY DEF Complete
<1>5. QED
  BY <1>1, <1>2, <1>3, <1>4 DEF Account, Uploading

\* A step of the pipeline is over without an upload, and what is over stays settled.
LEMMA AccountSkips ==
    ASSUME Inv, Account, FindNothing \/ ZipRefuses \/ PackFails
    PROVE  Account'
<1> USE DEF FindNothing, ZipRefuses, PackFails, ToNextStep
<1>1. /\ pc = "collect" /\ step \in Steps /\ pc' = "collect" /\ step' = step + 1
      /\ UNCHANGED <<config, queue, collected, lost>>
      /\ present \subseteq present'
      /\ failed \subseteq failed' /\ failed' \subseteq failed \cup {step}
  BY DEF packVars
<1>2. step \in Nat /\ NSteps \in Nat
  BY <1>1, ArtifactsAssumption DEF Steps
<1>3. \A s : /\ Collection(s)' = Collection(s)
             /\ Regular(s)' = Regular(s) /\ Refused(s)' = Refused(s)
  BY <1>1 DEF Collection, Regular, Refused
<1>4. \A s : s # step /\ Settled(s) => Settled(s)'
  BY <1>1, <1>3, SettledStays
<1>5. ~ (Regular(step) /\ step \notin failed' \cup lost)
  <2>1. CASE FindNothing
    <3>1. Files \subseteq present \/ step \in lost
      BY <1>1, <1>2 DEF Account, Complete
    <3>2. QED
      BY <2>1, <3>1 DEF NothingFound, Found, Regular
  <2>2. CASE ZipRefuses
    BY <2>2 DEF FoundTwice, Found, Regular
  <2>3. CASE PackFails
    BY <2>3
  <2>4. QED
    BY <2>1, <2>2, <2>3
<1> PICK now : now = step
  OBVIOUS
<1>6. Settled(now)'
  <2>1. Collection(now) = {}
    BY <1>1 DEF Account
  <2>2. ~ (Regular(now)' /\ now \notin failed' \cup lost')
    BY <1>1, <1>3, <1>5
  <2>3. QED
    BY <1>3, <2>1, <2>2 DEF Settled
<1>7. ASSUME NEW s \in Steps PROVE (s < step' => Settled(s)') /\ (s > step' => Collection(s)' = {})
  <2>1. s \in Nat
    BY <1>2 DEF Steps
  <2>2. s < step' => (s < step /\ s # step) \/ s = now
    BY <1>1, <1>2, <2>1
  <2>3. s > step' => s > step
    BY <1>1, <1>2, <2>1
  <2>4. s < step /\ s # step => Settled(s)'
    BY <1>1, <1>4 DEF Account
  <2>5. s > step => Collection(s)' = {}
    BY <1>1, <1>3 DEF Account
  <2>6. QED
    BY <1>6, <2>2, <2>3, <2>4, <2>5
<1>8. Collection(step)' = {}
  <2> PICK next : next = step'
    OBVIOUS
  <2>1. next \in Steps => Collection(next) = {}
    BY <1>1, <1>2 DEF Account, Steps
  <2>2. next \notin Steps => Collection(next) = {}
    BY CollectedTypes DEF Collection, Inv
  <2>3. Collection(step)' = Collection(next)'
    BY DEF Collection
  <2>4. QED
    BY <1>3, <2>1, <2>2, <2>3
<1>9. Complete' /\ \A s \in failed' : s < step'
  <2>1. Files \subseteq present => Complete'
    BY <1>1 DEF Complete, Uploading
  <2>2. (\A s \in Steps : s >= step => s \in lost) => Complete'
    BY <1>1, <1>2 DEF Complete, Steps
  <2>3. failed \subseteq Steps
    BY DEF Inv, TypeOK
  <2>4. \A s \in failed : s < step'
    BY <1>1, <1>2, <2>3 DEF Account, Steps
  <2>5. QED
    BY <1>1, <1>2, <2>1, <2>2, <2>4 DEF Account, Complete
<1>10. QED
  BY <1>1, <1>7, <1>8, <1>9 DEF Account, Uploading

LEMMA AccountPacks == ASSUME Inv, Account, Pack PROVE Account'
<1> USE DEF Pack
<1>1. /\ pc = "collect" /\ pc' = "upload" /\ queue' = <<"tar", "zip">>
      /\ UNCHANGED <<config, step, failed, lost, collected>> /\ step \in Steps
  OBVIOUS
<1>2. \A s : /\ Collection(s)' = Collection(s)
             /\ Regular(s)' = Regular(s) /\ Refused(s)' = Refused(s)
  BY <1>1 DEF Collection, Regular, Refused
<1>3. \A s : Settled(s) => Settled(s)'
  BY <1>1, <1>2, SettledStays
<1>4. Refused(step) => step \in lost
  <2>1. Files \subseteq present \/ step \in lost
    BY <1>1, ArtifactsAssumption DEF Account, Complete, Steps
  <2>2. QED
    BY <2>1 DEF Refused, FoundTwice, Found
<1>5. queue' # <<"zip">>
  BY <1>1
<1>6. Complete'
  BY <1>1 DEF Account, Complete
<1>7. QED
  BY <1>1, <1>2, <1>3, <1>4, <1>5, <1>6 DEF Account, Uploading

\* The turn of the next archive comes with the step, or its first archive, accounted
\* for, and what was collected of other steps kept.
LEMMA AccountMoves ==
    ASSUME Inv, Account, pc \in Uploading, ToNextArchive, UNCHANGED <<config, packVars>>,
           NEW now, now = step,
           \A s : s # step => /\ Collection(s)' = Collection(s)
                              /\ \A i \in Collection(s) : collected'[i].kind = collected[i].kind,
           queue = <<"zip">> => Settled(now)',
           queue = <<"tar", "zip">> =>
                \/ /\ Collection(now)' = {Len(collected')}
                   /\ collected'[Len(collected')].kind = "tar"
                \/ Collection(now)' = {} /\ now \in lost
    PROVE  Account'
<1> USE DEF packVars
<1>1. step \in Steps /\ step \in Nat /\ NSteps \in Nat
  BY ArtifactsAssumption DEF Inv, Progress, Steps
<1>2. \A s : s # step /\ Settled(s) => Settled(s)'
  BY SettledStays
<1>3. \A s \in Steps : /\ s < step => s # step /\ Settled(s)'
                       /\ s > step => s # step /\ Collection(s)' = {}
  BY <1>1, <1>2 DEF Account, Uploading, Steps
<1>4. CASE queue = <<"zip">>
  <2>1. pc' = "collect" /\ step' = step + 1 /\ queue' = << >>
    BY <1>4, QueueShapes DEF ToNextArchive, ToNextStep
  <2>2. ASSUME NEW s \in Steps PROVE (s < step' => Settled(s)') /\ (s > step' => Collection(s)' = {})
    <3>1. s \in Nat
      BY <1>1 DEF Steps
    <3>2. s < step' => s < step \/ s = now
      BY <1>1, <2>1, <3>1
    <3>3. s > step' => s > step
      BY <1>1, <2>1, <3>1
    <3>4. QED
      BY <1>3, <1>4, <3>2, <3>3
  <2>3. Collection(step)' = {}
    <3> PICK next : next = step'
      OBVIOUS
    <3>1. next # step /\ next > step
      BY <1>1, <2>1
    <3>2. Collection(next)' = Collection(next)
      BY <3>1
    <3>3. next \in Steps => Collection(next) = {}
      BY <3>1 DEF Account, Uploading
    <3>4. next \notin Steps => Collection(next) = {}
      BY CollectedTypes DEF Collection, Inv
    <3>5. Collection(step)' = Collection(next)'
      BY DEF Collection
    <3>6. QED
      BY <3>2, <3>3, <3>4, <3>5
  <2>4. Complete' /\ \A s \in failed' : s < step'
    <3>1. (\A s \in Steps : s >= step => s \in lost) => \A s \in Steps : s >= step' => s \in lost
      BY <1>1, <2>1 DEF Steps
    <3>2. failed \subseteq Steps
      BY DEF Inv, TypeOK
    <3>3. \A s \in failed : s < step'
      BY <1>1, <2>1, <3>2 DEF Account, Steps
    <3>4. QED
      BY <2>1, <3>1, <3>3 DEF Account, Complete, Uploading
  <2>5. QED
    BY <2>1, <2>2, <2>3, <2>4 DEF Account, Uploading
<1>5. CASE queue = <<"tar", "zip">>
  <2>1. pc' = "upload" /\ step' = step /\ queue' = <<"zip">>
    BY <1>5, QueueShapes DEF ToNextArchive
  <2>2. /\ Collection(step)' = Collection(now)'
        /\ Refused(step)' = Refused(step)
    BY <2>1 DEF Collection, Refused
  <2>3. queue' # <<"tar", "zip">>
    BY <2>1
  <2>4. \/ /\ Collection(step)' = {Len(collected')}
           /\ collected'[Len(collected')].kind = "tar"
        \/ Collection(step)' = {} /\ step' \in lost'
    BY <1>5, <2>1, <2>2
  <2>5. Refused(step)' => step' \in lost'
    BY <2>1, <2>2 DEF Account
  <2>6. Complete' /\ \A s \in failed' : s < step'
    BY <2>1 DEF Account, Complete, Uploading
  <2>7. \A s \in Steps : (s < step' => Settled(s)') /\ (s > step' => Collection(s)' = {})
    BY <1>3, <2>1
  <2>8. QED
    BY <2>1, <2>3, <2>4, <2>5, <2>6, <2>7 DEF Account, Uploading
<1>6. QED
  BY <1>4, <1>5 DEF Inv, TypeOK, Progress

\* The step that is being uploaded was packed, and is none that failed.
LEMMA NotFailed ==
    ASSUME Inv, Account, pc \in Uploading
    PROVE  step \notin failed
<1>1. step \in Nat
  BY ArtifactsAssumption DEF Inv, Progress, Steps
<1>2. QED
  BY <1>1 DEF Account

\* An archive that is not there is passed over: its step is marked.
LEMMA AccountSkipsMissing == ASSUME Inv, Account, SkipMissing PROVE Account'
<1> USE DEF SkipMissing
<1>1. /\ pc \in Uploading /\ ToNextArchive /\ UNCHANGED <<config, packVars, collected>>
      /\ Head(queue) \in Kinds /\ step \in Steps
  BY ThisType DEF Uploading, Inv, Progress
<1>2. step \in lost
  BY <1>1, ArtifactsAssumption DEF Account, Complete, Steps
<1>3. \A s : Collection(s)' = Collection(s)
  BY <1>1 DEF Collection
<1> PICK now : now = step
  OBVIOUS
<1>4. now \in lost /\ now \in lost' /\ now \notin failed'
  BY <1>1, <1>2, NotFailed DEF packVars
<1>5. queue = <<"zip">> => Settled(now)'
  <2> SUFFICES ASSUME queue = <<"zip">> PROVE Settled(now)'
    OBVIOUS
  <2>1. Collection(now) = {Len(collected)} \/ Collection(now) = {}
    BY <1>1 DEF Account
  <2>2. QED
    BY <1>3, <1>4, <2>1 DEF Settled
<1>6. queue = <<"tar", "zip">> => Collection(now)' = {} /\ now \in lost
  BY <1>1, <1>3, <1>4 DEF Account
<1>7. \A s : s # step => /\ Collection(s)' = Collection(s)
                         /\ \A i \in Collection(s) : collected'[i].kind = collected[i].kind
  BY <1>1, <1>3
<1>8. QED
  BY <1>1, <1>5, <1>6, <1>7, AccountMoves

\* An upload is collected: the tar of the step, or its zip, right after the tar unless
\* that was passed over.
LEMMA AccountCollects ==
    ASSUME Inv, Account, pc \in Uploading, NEW uploaded \in BOOLEAN, Collect(uploaded),
           UNCHANGED <<config, packVars>>
    PROVE  Account'
<1> DEFINE n == Len(collected)
           e == Entry(uploaded)
<1>1. collected' = Append(collected, e) /\ ToNextArchive
  BY DEF Collect
<1>2. /\ Head(queue) \in Kinds /\ step \in Steps /\ step \in Nat
      /\ e \in [kind : Kinds, step : Steps, uploaded : BOOLEAN]
      /\ e.kind = Head(queue) /\ e.step = step
  BY ThisType, ArtifactsAssumption DEF Entry, Inv, Progress, Steps
<1>3. /\ n \in Nat /\ DOMAIN collected = 1 .. n /\ DOMAIN collected' = 1 .. n + 1
      /\ \A i \in 1 .. n : collected'[i] = collected[i]
      /\ collected'[n + 1] = e /\ Len(collected') = n + 1
  <2> DEFINE R == [kind : Kinds, step : Steps, uploaded : BOOLEAN]
  <2>1. collected \in Seq(R) /\ e \in R
    BY <1>2 DEF Inv, TypeOK
  <2> HIDE DEF e, R
  <2>2. QED
    BY <1>1, <2>1
<1> HIDE DEF n, e
<1>4. \A s : Collection(s)' = Collection(s) \cup (IF s = step THEN {n + 1} ELSE {})
  BY <1>2, <1>3 DEF Collection
<1>5. \A s : s # step => /\ Collection(s)' = Collection(s)
                         /\ \A i \in Collection(s) : collected'[i].kind = collected[i].kind
  BY <1>3, <1>4 DEF Collection
<1> PICK now : now = step
  OBVIOUS
<1>6. (Refused(now)' => now \in lost') /\ now \notin failed'
  <2>1. Refused(now)' = Refused(now)
    BY DEF Refused
  <2>2. Refused(now) => now \in lost
    BY DEF Account
  <2>3. QED
    BY <2>1, <2>2, NotFailed DEF packVars
<1>7. queue = <<"zip">> => Settled(now)'
  <2> SUFFICES ASSUME queue = <<"zip">> PROVE Settled(now)'
    OBVIOUS
  <2>1. e.kind = "zip"
    BY <1>2, QueueShapes
  <2>2. CASE Collection(now) = {n} /\ collected[n].kind = "tar"
    <3>1. n \in DOMAIN collected
      BY <2>2 DEF Collection
    <3>2. Collection(now)' = {n, n + 1}
      BY <1>4, <2>2
    <3>3. collected'[n].kind = "tar" /\ collected'[n + 1].kind = "zip"
      BY <1>3, <2>1, <2>2, <3>1
    <3>4. n \in Collection(now)'
      BY <3>2
    <3>5. QED
      BY <1>6, <3>2, <3>3, <3>4 DEF Settled
  <2>3. CASE Collection(now) = {} /\ now \in lost
    <3>1. Collection(now)' = {n + 1} /\ now \in lost'
      BY <1>4, <2>3 DEF packVars
    <3>2. QED
      BY <1>6, <3>1 DEF Settled
  <2>4. QED
    BY <2>2, <2>3 DEF Account, n
<1>8. queue = <<"tar", "zip">> =>
          Collection(now)' = {Len(collected')} /\ collected'[Len(collected')].kind = "tar"
  <2> SUFFICES ASSUME queue = <<"tar", "zip">>
               PROVE  Collection(now)' = {n + 1} /\ collected'[n + 1].kind = "tar"
    BY <1>3
  <2>1. e.kind = "tar"
    BY <1>2, QueueShapes
  <2>2. Collection(now) = {}
    BY DEF Account
  <2>3. QED
    BY <1>3, <1>4, <2>1, <2>2
<1>9. QED
  BY <1>1, <1>5, <1>7, <1>8, AccountMoves

LEMMA AccountNext == ASSUME Inv, Account, [Next]_vars PROVE Account'
<1>1. CASE FindNothing \/ ZipRefuses \/ PackFails
  BY <1>1, AccountSkips
<1>2. CASE Pack
  BY <1>2, AccountPacks
<1>3. CASE CreateFile \/ PutObject \/ HandOver
  BY <1>3, AccountKept DEF CreateFile, PutObject, HandOver, packVars, Uploading
<1>4. CASE \E u \in Uploads : Land(u) \/ LandFails(u)
  BY <1>4, AccountKept DEF Land, LandFails, packVars
<1>5. CASE ListLocal \/ ListObject
  BY <1>5, AccountCollects DEF ListLocal, ListObject, Uploading, packVars
<1>6. CASE UploadFails
  BY <1>6, AccountCollects DEF UploadFails, Uploading, packVars
<1>7. CASE Report \/ Abort
  BY <1>7, AccountKept DEF Report, Abort, packVars
<1>8. CASE UNCHANGED vars
  BY <1>8, AccountKept DEF vars, packVars
<1>9. CASE SkipMissing
  BY <1>9, AccountSkipsMissing
<1>10. CASE Vanish
  BY <1>10, AccountVanishes
<1>11. QED
  BY <1>1, <1>2, <1>3, <1>4, <1>5, <1>6, <1>7, <1>8, <1>9, <1>10 DEF Next

LEMMA AccountHolds == Spec => [](Inv /\ Account)
<1>1. Init => Inv /\ Account
  <2> SUFFICES ASSUME Init PROVE Account
    BY InitInv
  <2>1. \A s : Collection(s) = {}
    BY DEF Init, Collection
  <2>2. \A s \in Steps : ~ (s < 1)
    BY ArtifactsAssumption DEF Steps
  <2>3. Complete
    BY DEF Init, Complete, Uploading
  <2>4. QED
    BY <2>1, <2>2, <2>3 DEF Init, Account, Uploading
<1>2. Inv /\ Account /\ [Next]_vars => (Inv /\ Account)'
  BY NextInv, AccountNext
<1>3. QED
  BY <1>1, <1>2, PTL DEF Spec

LEMMA AccountIsEnough == ASSUME Inv, Account PROVE EveryArchiveReported
<1> SUFFICES ASSUME reported # << >>, NEW s \in Steps
             PROVE  /\ s \in failed => EntriesOf(s) = {}
                    /\ EntriesOf(s) # {} => \E n \in EntriesOf(s) :
                          \/ EntriesOf(s) = {n} /\ s \in lost
                          \/ /\ EntriesOf(s) = {n, n + 1}
                             /\ reported[n].kind = "tar" /\ reported[n + 1].kind = "zip"
                    /\ (Regular(s) /\ s \notin failed \cup lost) => EntriesOf(s) # {}
                    /\ (Refused(s) /\ s \notin lost) => EntriesOf(s) = {}
  BY DEF EveryArchiveReported
<1>1. reported = collected /\ pc = "done"
  BY DEF Inv, TypeOK, Progress
<1>2. EntriesOf(s) = Collection(s)
  BY <1>1 DEF EntriesOf, Collection
<1>3. s < step
  BY <1>1, ArtifactsAssumption DEF Account, Inv, TypeOK, Steps
<1>4. Settled(s)
  BY <1>1, <1>3 DEF Account
<1>5. QED
  BY <1>1, <1>2, <1>4 DEF Settled

-----------------------------------------------------------------------------
(* The theorems                                                            *)

\* The variables keep their types: no archive gets more pieces than it has, and
\* no step reports more than two archives.
THEOREM TypeCorrect == Spec => []TypeOK
<1>1. Inv => TypeOK
  BY DEF Inv
<1>2. QED
  BY <1>1, InvHolds, PTL

\* A download never gets an archive older than the last one listed under its
\* name, and gets that one whole, but for a last piece that is still out or was
\* lost unnoticed, unless a late piece of an earlier step tore it.
THEOREM ServesNewest == Spec => []NewestIsServed
<1>1. Inv => NewestIsServed
  <2> SUFFICES ASSUME Inv, NEW i \in DOMAIN listing PROVE
         LET u == listing[i]
             content == stored[u.kind]
         IN  /\ content.step >= u.step
             /\ (content.step = u.step /\ ~content.torn)
                => content.pieces + (IF u \in pending \cup cut THEN 1 ELSE 0) = Pieces
    BY DEF NewestIsServed
  <2>1. listing[i] \in Uploads /\ Listed(listing[i])
    BY DEF Inv, TypeOK, Listed
  <2>2. Served(listing[i])
    BY <2>1 DEF Inv
  <2>3. QED
    BY <2>2 DEF Served, Late
<1>2. QED
  BY <1>1, InvHolds, PTL

\* The record of a job accounts for the artifacts of every step, whatever could not
\* be packed or uploaded: both archives or none, but for steps during or before which
\* something vanished from the workspace.
THEOREM ArchivesAreReported == Spec => []EveryArchiveReported
<1>1. Inv /\ Account => EveryArchiveReported
  BY AccountIsEnough
<1>2. QED
  BY <1>1, AccountHolds, PTL
=============================================================================
