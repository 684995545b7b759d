\* A call whose last job is skipped because the first one failed.
SPECIFICATION Spec
CONSTANTS
  Jobs <- SkipJobs
  Submitted = {"call"}
  Order <- SkipOrder
  Base <- SkipBase
  Needs <- SkipNeeds
  If <- SkipIf
  Matrix = {}
  Callers = {"call"}
  Inner <- SkipInner
  FailFast = {}
  Limit <- Unlimited
  Unsatisfiable = {}
  Unhostable = {}
  Tolerated = {}
  Gated = {}
  Guarded = {}
  MaxDrains = 1
  MaxRestarts = 0
INVARIANT NoHungRun
CHECK_DEADLOCK FALSE
