-------------------------- MODULE MCSandboxExecution --------------------------
(***************************************************************************)
(* Statements for model checking SandboxExecution.                         *)
(***************************************************************************)
EXTENDS SandboxExecution

Approximated ==
  [ upload |-> FALSE, readOnly |-> TRUE, parses |-> TRUE, unknown |-> FALSE, claimed |-> FALSE,
    dialect |-> "snowflake", contains |-> {"date_mask", "numeric_mask"}, fault |-> "none" ]

(* As a source it fails in DuckDB, as a target it is refused.              *)
Unclaimed == [Approximated EXCEPT !.unknown = TRUE, !.fault = "missing_function"]

MCStatements == {Approximated, Unclaimed, [Approximated EXCEPT !.upload = TRUE]}

OneStatement == {Approximated}
==============================================================================
