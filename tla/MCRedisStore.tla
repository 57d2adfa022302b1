---------------------------- MODULE MCRedisStore ----------------------------
(* Instances of RedisStore for TLC. *)
EXTENDS RedisStore, TLC

CONSTANTS task, canceller, first, second, third

\* A history of one, and three submissions: of three jobs, or of two of which the
\* first is submitted again.  That one has a task and a cancellation.
MCJobs == {first, second, third}
MCCreations == 1..4
MCIdOf == <<first, second, third, first>>
MCWriters == {task, canceller}
MCTarget == task :> first @@ canceller :> first
MCPlanOf == task :> <<{"success", "error"}>> @@ canceller :> <<{"cancelled"}>>
=============================================================================
