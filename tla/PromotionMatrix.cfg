\* A matrix of three legs, two at a time, behind one job and in front of a
\* protected, gated deployment and a job on failure.
SPECIFICATION Spec
CONSTANTS
  Jobs <- MatrixJobs
  Submitted <- MatrixSubmit
  Order <- MatrixOrder
  Base <- MatrixBase
  Needs <- MatrixNeeds
  If <- MatrixIf
  Matrix = {}
  Callers = {"call"}
  Inner <- MatrixInner
  FailFast = {"m"}
  Limit <- TwoLegs
  Unsatisfiable = {"alert"}
  Unhostable = {}
  Tolerated = {"m1"}
  Gated = {"deploy"}
  Guarded = {"deploy"}
  MaxDrains = 1
  MaxRestarts = 0
INVARIANTS
  StartsAfterNeeds
  MaxParallelKept
  NoHungRun
PROPERTIES
  VerdictsStand
  ConditionsDecide
CHECK_DEADLOCK FALSE
