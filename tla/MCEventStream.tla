---------------------------- MODULE MCEventStream ----------------------------
(* Instances of EventStream for TLC. *)
EXTENDS EventStream, TLC

CONSTANTS c1, a, b

\* One client of job a.  Job b is a submission, that pushes a out of the history,
\* or a replay; its events share the channel with those of a.
MCClients == {c1}
MCJobs == {a, b}
MCSubmitted == {a, b}
MCReplayed == {b}
MCWatches == c1 :> a
=============================================================================
