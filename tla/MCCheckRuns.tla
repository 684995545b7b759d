---------------------------- MODULE MCCheckRuns ----------------------------
(* Small instances of CheckRuns.                                             *)
EXTENDS CheckRuns, TLC

\* The reports of failures are about one workflow at one commit.
OneWorkflow ==
  [k \in Keys |-> IF k \in Failures THEN CHOOSE f \in Failures : TRUE ELSE k]
=============================================================================
