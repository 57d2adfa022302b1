--------------------------- MODULE MCJobScheduler ---------------------------
(* Instances of JobScheduler for TLC. *)
EXTENDS JobScheduler, TLC

CONSTANTS c1, c2, c3, a, b

\* Three calls; the first two carry the same job id.
MCCalls == {c1, c2, c3}
MCJobs == {a, b}
MCJobOf == c1 :> a @@ c2 :> a @@ c3 :> b
MCPanicky == {c1, c3}
NobodyPanics == {}
=============================================================================
