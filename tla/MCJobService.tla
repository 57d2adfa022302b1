---------------------------- MODULE MCJobService ----------------------------
(* Instances of JobService for TLC. *)
EXTENDS JobService, TLC

CONSTANTS c1, c2, c3, a, b

\* Two submissions of a and a request with an id of its own, which is either a
\* submission, that pushes a out of the history, or a replay or retry of a.
MCCalls == {c1, c2, c3}
MCJobs == {a, b}
MCJobOf == c1 :> a @@ c2 :> a @@ c3 :> b
MCKindsOf == c1 :> {"submit"} @@ c2 :> {"submit"} @@ c3 :> Kinds
MCSourceOf == [c \in MCCalls |-> a]
MCPanicky == {c3}
NobodyPanics == {}
=============================================================================
