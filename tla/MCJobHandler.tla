--------------------------- MODULE MCJobHandler ---------------------------
(* An instance of JobHandler for TLC. *)
EXTENDS JobHandler
=============================================================================
