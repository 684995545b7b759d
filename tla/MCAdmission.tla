---------------------------- MODULE MCAdmission ----------------------------
(* Small instances of Admission.  The event of run 2 is older than that of   *)
(* run 1, run 3 carries no timestamp.                                        *)
EXTENDS Admission, TLC

MCEventTime == [r \in Runs |-> IF r = 1 THEN 2 ELSE IF r = 2 THEN 1 ELSE 0]

\* Every job runs.
AllRun == [r \in Runs |-> {}]

\* The first job of run 2 and the last of run 3 are skipped.
SomeSkipped ==
  [r \in Runs |-> CASE r = 2 -> {1} [] r = 3 -> {NumChunks} [] OTHER -> {}]
=============================================================================
