------------------------------ MODULE Artifacts ------------------------------
(***************************************************************************)
(* The end of a job's run: main.rs collects the artifacts of its post      *)
(* steps, services/artifact_compressor.rs packs them, and an artifact      *)
(* store (stores/artifacts.rs or stores/s3_artifacts.rs) keeps them for    *)
(* GET /api/v1/jobs/{job_id}/artifacts/{artifact_name}.                    *)
(*                                                                         *)
(* Every step packs a tar and a zip, and the names of both depend on the   *)
(* job alone: each step replaces the archives of the one before it, in the *)
(* workspace (where a pattern may match them) and in the store.  The job   *)
(* may be aborted wherever it awaits; what it handed to a thread or to a   *)
(* server goes on. Files and archives may vanish from the workspace while  *)
(* it runs: the hourly pass, or a thread that an earlier run of the id has *)
(* left, removes them (JobHandler). An archive that is not there is passed *)
(* over without a word.                                                    *)
(***************************************************************************)
EXTENDS Integers, Sequences, FiniteSets

CONSTANTS
    NSteps,     \* post steps with artifacts, in the order of the file
    Files,      \* files of the workspace
    Configs,    \* what the patterns of each step match
    Pieces,     \* writes that make up an archive
    MaxErrors   \* bound of the operations that fail, and of what vanishes

Steps == 1..NSteps

\* The archives of a job, by the names the compressor gives them.
Kinds == {"tar", "zip"}

ASSUME ArtifactsAssumption ==
    /\ NSteps \in Nat
    /\ Configs \subseteq [Steps -> Seq(SUBSET (Files \cup Kinds))]
    /\ Pieces \in Nat \ {0}
    /\ MaxErrors \in Nat

VARIABLES
    config,     \* the configuration of the job
    backend,    \* which store the server was started with
    pc,         \* progress of the collection
    step,       \* the step whose artifacts are collected
    present,    \* files and archives that are found in the workspace
    failed,     \* steps that an error of the file system ended
    lost,       \* steps since something vanished from the workspace
    queue,      \* archives of the step that are still to be uploaded
    handed,     \* pieces of the first of them given to a writing thread
    pending,    \* pieces that threads have yet to write
    stored,     \* the store: the content under each name
    cut,        \* uploads whose last piece was not written, which nobody noticed
    listing,    \* the store's own list of what was uploaded
    collected,  \* what the job will report
    reported,   \* the artifacts in the job's record
    errors      \* operations that failed so far

packVars == <<present, failed, lost>>
storeVars == <<pending, stored, cut, listing>>
vars == <<config, backend, pc, step, packVars, queue, handed, storeVars,
          collected, reported, errors>>

Absent == [step |-> 0, pieces |-> 0, torn |-> FALSE]
Uploads == [kind : Kinds, step : Steps]
Entry(uploaded) == [kind |-> Head(queue), step |-> step, uploaded |-> uploaded]

Init ==
    /\ config \in Configs
    /\ backend \in {"local", "s3"}
    /\ pc = "collect"
    /\ step = 1
    /\ present = Files
    /\ failed = {}
    /\ lost = {}
    /\ queue = << >>
    /\ handed = 0
    /\ pending = {}
    /\ stored = [k \in Kinds |-> Absent]
    /\ cut = {}
    /\ listing = << >>
    /\ collected = << >>
    /\ reported = << >>
    /\ errors = 0

OperationFails == errors < MaxErrors /\ errors' = errors + 1

-----------------------------------------------------------------------------
(* ArtifactCompressor::collect_and_compress                                *)

\* Files that pattern i of the step finds.
Found(i) == config[step][i] \cap present

\* The list of files has those of each pattern in turn, shared ones twice.
NothingFound == \A i \in DOMAIN config[step] : Found(i) = {}
FoundTwice == \E i, h \in DOMAIN config[step] : i # h /\ Found(i) \cap Found(h) # {}

ToNextStep == pc' = "collect" /\ step' = step + 1

\* No file matches: the list of archives is empty.
FindNothing ==
    /\ pc = "collect" /\ step \in Steps
    /\ NothingFound
    /\ ToNextStep
    /\ UNCHANGED <<config, backend, packVars, queue, handed, storeVars, collected, reported, errors>>

\* Both archives are built, over those of the step before.
Pack ==
    /\ pc = "collect" /\ step \in Steps
    /\ ~NothingFound /\ ~FoundTwice
    /\ present' = present \cup Kinds
    /\ queue' = <<"tar", "zip">>
    /\ pc' = "upload"
    /\ UNCHANGED <<config, backend, step, failed, lost, handed, storeVars, collected, reported, errors>>

\* A zip takes a name only once: the step is given up, with the tar it has built.
ZipRefuses ==
    /\ pc = "collect" /\ step \in Steps
    /\ FoundTwice
    /\ present' = present \cup Kinds
    /\ ToNextStep
    /\ UNCHANGED <<config, backend, failed, lost, queue, handed, storeVars, collected, reported, errors>>

\* A file or an archive cannot be read or written.
PackFails ==
    /\ pc = "collect" /\ step \in Steps
    /\ \E made \in {{}, {"tar"}, Kinds} : present' = present \cup made
    /\ failed' = failed \cup {step}
    /\ OperationFails
    /\ ToNextStep
    /\ UNCHANGED <<config, backend, lost, queue, handed, storeVars, collected, reported>>

\* Files or archives are removed, or cannot be examined any more: to exists() it
\* is the same.
Vanish ==
    /\ pc \notin {"done", "aborted"}
    /\ \E gone \in SUBSET present \ {{}} : present' = present \ gone
    /\ lost' = lost \cup {s \in Steps : s >= step}
    /\ OperationFails
    /\ UNCHANGED <<config, backend, pc, step, failed, queue, handed, storeVars, collected, reported>>

-----------------------------------------------------------------------------
(* upload_artifact_from_file                                               *)

This == [kind |-> Head(queue), step |-> step]

\* The next archive of the step, or the next step.
ToNextArchive ==
    /\ queue' = Tail(queue)
    /\ handed' = 0
    /\ IF Len(queue) = 1 THEN ToNextStep ELSE pc' = "upload" /\ UNCHANGED step

\* The upload returns and its outcome is collected.
Collect(uploaded) ==
    /\ collected' = Append(collected, Entry(uploaded))
    /\ ToNextArchive

\* An archive that is not there is neither uploaded nor reported.
SkipMissing ==
    /\ pc = "upload" /\ Head(queue) \notin present
    /\ ToNextArchive
    /\ UNCHANGED <<config, backend, packVars, storeVars, collected, reported, errors>>

\* The local store creates, or empties, the file.
CreateFile ==
    /\ pc = "upload" /\ backend = "local" /\ Head(queue) \in present
    /\ stored' = [stored EXCEPT ![Head(queue)] = [step |-> step, pieces |-> 0, torn |-> FALSE]]
    /\ pc' = "writing"
    /\ UNCHANGED <<config, backend, step, packVars, queue, handed, pending, cut, listing, collected,
                   reported, errors>>

\* Faulty variant: the outcome of the last piece is not looked at.
HandOverBlindly ==
    /\ pc = "writing" /\ handed < Pieces
    /\ This \notin pending
    /\ handed' = handed + 1
    /\ pending' = pending \cup {This}
    /\ cut' = cut \ {This}
    /\ UNCHANGED <<config, backend, pc, step, packVars, queue, stored, listing, collected, reported, errors>>

\* write_all gives a piece to a thread when the one before it was written.
HandOver ==
    /\ pc = "writing" /\ handed < Pieces
    /\ This \notin pending \cup cut
    /\ handed' = handed + 1
    /\ pending' = pending \cup {This}
    /\ UNCHANGED <<config, backend, pc, step, packVars, queue, stored, cut, listing, collected,
                   reported, errors>>

\* A thread writes its piece, also when the upload has returned or was aborted:
\* the file has no other owner, so the piece tears the content of a later step.
Land(u) ==
    /\ u \in pending
    /\ pending' = pending \ {u}
    /\ LET content == stored[u.kind]
       IN  stored' = [stored EXCEPT ![u.kind] =
               IF content.step = u.step THEN [content EXCEPT !.pieces = content.pieces + 1]
               ELSE [content EXCEPT !.torn = TRUE]]
    /\ UNCHANGED <<config, backend, pc, step, packVars, queue, handed, cut, listing, collected,
                   reported, errors>>

\* The write fails, which only a further write to the file would report.
LandFails(u) ==
    /\ u \in pending
    /\ pending' = pending \ {u}
    /\ cut' = cut \cup {u}
    /\ OperationFails
    /\ UNCHANGED <<config, backend, pc, step, packVars, queue, handed, stored, listing, collected, reported>>

\* All pieces were handed over (the file is not flushed): the upload is listed.
ListLocal ==
    /\ pc = "writing" /\ handed = Pieces
    /\ listing' = Append(listing, This)
    /\ Collect(TRUE)
    /\ UNCHANGED <<config, backend, packVars, pending, stored, cut, reported, errors>>

\* The PUT of the whole object.
PutObject ==
    /\ pc = "upload" /\ backend = "s3" /\ Head(queue) \in present
    /\ stored' = [stored EXCEPT ![Head(queue)] = [step |-> step, pieces |-> Pieces, torn |-> FALSE]]
    /\ pc' = "put"
    /\ UNCHANGED <<config, backend, step, packVars, queue, handed, pending, cut, listing, collected,
                   reported, errors>>

\* Its answer arrives.
ListObject ==
    /\ pc = "put"
    /\ listing' = Append(listing, This)
    /\ Collect(TRUE)
    /\ UNCHANGED <<config, backend, packVars, pending, stored, cut, reported, errors>>

\* Faulty variant: the archive stays in the loop.
UploadRepeated ==
    /\ \/ pc \in {"upload", "writing", "put"} /\ OperationFails
       \/ pc = "writing" /\ This \in cut /\ handed < Pieces /\ UNCHANGED errors
    /\ collected' = Append(collected, Entry(FALSE))
    /\ pc' = "upload"
    /\ handed' = 0
    /\ UNCHANGED <<config, backend, step, queue, packVars, storeVars, reported>>

\* Faulty variant: what was not uploaded is not reported.
UploadForgotten ==
    /\ \/ pc \in {"upload", "writing", "put"} /\ OperationFails
       \/ pc = "writing" /\ This \in cut /\ handed < Pieces /\ UNCHANGED errors
    /\ ToNextArchive
    /\ UNCHANGED <<config, backend, packVars, storeVars, collected, reported>>

\* The archive cannot be read back, the file not be created, the object not be
\* put or its answer is lost; or a write finds that the one before it failed.
\* The archive is reported all the same.
UploadFails ==
    /\ \/ pc \in {"upload", "writing", "put"} /\ OperationFails
       \/ pc = "writing" /\ This \in cut /\ handed < Pieces /\ UNCHANGED errors
    /\ Collect(FALSE)
    /\ UNCHANGED <<config, backend, packVars, storeVars, reported>>

-----------------------------------------------------------------------------
\* After the last step: set_job_artifacts, which does nothing for a job whose
\* record was evicted.
Report ==
    /\ pc = "collect" /\ step \notin Steps
    /\ pc' = "done"
    /\ \E found \in BOOLEAN : reported' = IF found THEN collected ELSE reported
    /\ UNCHANGED <<config, backend, step, packVars, queue, handed, storeVars, collected, errors>>

\* The job is cancelled; an object that is on its way is stored or is not.
Abort ==
    /\ pc \notin {"done", "aborted"}
    /\ pc' = "aborted"
    /\ UNCHANGED <<config, backend, step, packVars, queue, handed, storeVars, collected, reported, errors>>

Next ==
    \/ FindNothing \/ Pack \/ ZipRefuses \/ PackFails \/ Vanish
    \/ SkipMissing \/ CreateFile \/ HandOver \/ ListLocal \/ PutObject \/ ListObject \/ UploadFails
    \/ \E u \in Uploads : Land(u) \/ LandFails(u)
    \/ Report \/ Abort

Spec == Init /\ [][Next]_vars

-----------------------------------------------------------------------------
(* Properties                                                              *)

\* Types, and what bounds the report: two archives of each step at most.
TypeOK ==
    /\ config \in Configs
    /\ backend \in {"local", "s3"}
    /\ pc \in {"collect", "upload", "writing", "put", "done", "aborted"}
    /\ step \in 1..(NSteps + 1)
    /\ present \subseteq Files \cup Kinds
    /\ failed \subseteq Steps
    /\ lost \subseteq Steps
    /\ queue \in {<< >>, <<"zip">>, <<"tar", "zip">>}
    /\ handed \in 0..Pieces
    /\ pending \subseteq Uploads
    /\ stored \in [Kinds -> [step : 0..NSteps, pieces : 0..Pieces, torn : BOOLEAN]]
    /\ cut \subseteq Uploads
    /\ listing \in Seq(Uploads)
    /\ collected \in Seq([kind : Kinds, step : Steps, uploaded : BOOLEAN])
    /\ Len(collected) + Len(queue) <= 2 * step
    /\ reported \in {<< >>, collected}
    /\ errors \in 0..MaxErrors

\* What a download gets is never older than the archive of that name that was
\* listed last, and if it is that one it is whole, but for a last piece that is
\* still to be written or failed unnoticed, because the local store does not
\* flush; unless a late piece of an earlier step has torn it.
NewestIsServed ==
    \A i \in DOMAIN listing :
        LET u == listing[i]
            content == stored[u.kind]
        IN  /\ content.step >= u.step
            /\ (content.step = u.step /\ ~content.torn)
               => content.pieces + (IF u \in pending \cup cut THEN 1 ELSE 0) = Pieces

\* Steps whose patterns share a file of the workspace, and those whose patterns
\* cannot share anything and match some file.
Refused(s) == \E i, h \in DOMAIN config[s] :
                 i # h /\ config[s][i] \cap config[s][h] \cap Files # {}
Regular(s) == /\ \E i \in DOMAIN config[s] : config[s][i] \cap Files # {}
              /\ \A i, h \in DOMAIN config[s] : i # h => config[s][i] \cap config[s][h] = {}

\* Where the record has the archives of a step.
EntriesOf(s) == {i \in DOMAIN reported : reported[i].step = s}

\* The record of a job that has reported accounts for every step.  It has nothing of
\* a step whose packing failed; of any other at most its tar and its zip, side by
\* side, each once.  And unless something has vanished from the workspace by the
\* end of the step, in which case archives are missing without a word, it has both
\* archives of a step that could pack them, whether or not their upload worked, never
\* one without the other, and nothing of a step whose patterns overlap (its zip
\* refuses the second copy of a file).
EveryArchiveReported ==
    reported # << >> =>
        \A s \in Steps :
            /\ s \in failed => EntriesOf(s) = {}
            /\ EntriesOf(s) # {} => \E n \in EntriesOf(s) :
                  \/ EntriesOf(s) = {n} /\ s \in lost
                  \/ /\ EntriesOf(s) = {n, n + 1}
                     /\ reported[n].kind = "tar" /\ reported[n + 1].kind = "zip"
            /\ (Regular(s) /\ s \notin failed \cup lost) => EntriesOf(s) # {}
            /\ (Refused(s) /\ s \notin lost) => EntriesOf(s) = {}
=============================================================================
