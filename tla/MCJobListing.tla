---------------------------- MODULE MCJobListing ----------------------------
(* Instances of JobListing for TLC. *)
EXTENDS JobListing, TLC

CONSTANTS r1, r2, r3, good, bad, j1, j2, j3

\* Three requests, any of which may be the client's, at two per key and
\* window; or no authentication.
MCCalls == {r1, r2, r3}
MCKeys == {good, bad}
MCConfigured == {{}, {good}}
MCJobs == {j1, j2, j3}

\* No property compares requests or jobs, and none is a liveness property.
Symmetry == Permutations(MCCalls) \cup Permutations(MCJobs)
=============================================================================
