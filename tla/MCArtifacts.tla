----------------------------- MODULE MCArtifacts -----------------------------
(* Instances of Artifacts for TLC. *)
EXTENDS Artifacts

CONSTANTS f, g

MCFiles == {f, g}

\* One pattern, two that are disjoint, none that matches, two that share a file,
\* one for everything, and two that share only the archive of an earlier step.
Patterns == {<<{f}>>, <<{f}, {g}>>, <<{}>>, <<{f}, {f, g}>>, <<{f, g, "tar", "zip"}>>,
             <<{f, "tar"}, {g, "tar"}>>}

MCConfigs == [1..NSteps -> Patterns]
=============================================================================
