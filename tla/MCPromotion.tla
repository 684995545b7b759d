---------------------------- MODULE MCPromotion ----------------------------
(* Small workflows for Promotion: a matrix with its dependents, a deferred   *)
(* matrix beside a reusable call, and a call whose last job is skipped.      *)
EXTENDS Promotion, TLC

OnSuccess == [s \in Terminal |-> IF s = "success" THEN "run" ELSE "skip"]
OnFailure == [s \in Terminal |-> IF s = "failure" THEN "run" ELSE "skip"]
Always    == [s \in Terminal |-> "run"]
Broken    == [s \in Terminal |-> "error"]

\* build, then three legs and a call, then a deployment and a job on failure
\* that need the legs and the call.
MatrixJobs   == {"build", "m1", "m2", "m3", "call", "c1", "c2", "deploy", "alert"}
MatrixSubmit == MatrixJobs \ {"c1", "c2"}
MatrixOrder  == [j \in MatrixJobs |->
  CASE j = "build" -> 0 [] j = "m1" -> 1 [] j = "m2" -> 2 [] j = "m3" -> 3
    [] j = "deploy" -> 5 [] j = "alert" -> 6 [] OTHER -> 4]
MatrixBase   == [j \in MatrixJobs |-> IF j \in {"m1", "m2", "m3"} THEN "m" ELSE j]
MatrixNeeds  == [j \in MatrixJobs |->
  CASE j = "build" -> {} [] j \in {"deploy", "alert"} -> {"m", "call"}
    [] j = "c2" -> {"build", "c1"} [] OTHER -> {"build"}]
MatrixIf     == [j \in MatrixJobs |->
  CASE j \in {"deploy", "c2"} -> Always [] j = "alert" -> OnFailure [] OTHER -> OnSuccess]
MatrixInner  == [j \in MatrixJobs |-> IF j = "call" THEN {"c1", "c2"} ELSE {}]
TwoLegs      == [n \in Names |-> IF n = "m" THEN 2 ELSE Cardinality(Jobs)]

\* plan, then a matrix its output decides and a call; last needs the matrix.
CallJobs   == {"plan", "fan", "f1", "f2", "ship", "s1", "last"}
CallSubmit == {"plan", "fan", "ship", "last"}
CallOrder  == [j \in CallJobs |->
  CASE j = "plan" -> 0 [] j \in {"fan", "f1", "f2"} -> 1 [] j = "last" -> 3 [] OTHER -> 2]
CallBase   == [j \in CallJobs |-> IF j \in {"f1", "f2"} THEN "fan" ELSE j]
CallNeeds  == [j \in CallJobs |->
  CASE j = "plan" -> {} [] j = "last" -> {"fan"} [] OTHER -> {"plan"}]
CallIf     == [j \in CallJobs |->
  CASE j \in {"ship", "s1"} -> Always [] j = "last" -> Broken [] OTHER -> OnSuccess]
CallInner  == [j \in CallJobs |->
  CASE j = "fan" -> {"f1", "f2"} [] j = "ship" -> {"s1"} [] OTHER -> {}]
Unlimited  == [n \in Names |-> Cardinality(Jobs)]

\* a call of two jobs, the second of which runs if the first succeeds.
SkipJobs   == {"call", "test", "publish"}
SkipOrder  == [j \in SkipJobs |-> 0]
SkipBase   == [j \in SkipJobs |-> j]
SkipNeeds  == [j \in SkipJobs |-> IF j = "publish" THEN {"test"} ELSE {}]
SkipIf     == [j \in SkipJobs |-> OnSuccess]
SkipInner  == [j \in SkipJobs |-> IF j = "call" THEN {"test", "publish"} ELSE {}]
=============================================================================
