\* A deferred matrix, a call a later job needs and a gated call, expanded by
\* up to two loops across a cancellation and a restart.
SPECIFICATION FairSpec
CONSTANTS
  Jobs <- CallJobs
  Submitted <- CallSubmit
  Order <- CallOrder
  Base <- CallBase
  Needs <- CallNeeds
  If <- CallIf
  Matrix = {"fan"}
  Callers = {"ship"}
  Inner <- CallInner
  FailFast = {"fan"}
  Limit <- Unlimited
  Unsatisfiable = {}
  Unhostable = {}
  Tolerated = {}
  Gated = {"ship"}
  Guarded = {}
  MaxDrains = 2
  MaxRestarts = 1
INVARIANTS
  TypeOK
  CompletedRunIsDone
PROPERTIES
  RunConcludes
CHECK_DEADLOCK FALSE
