\* One job, two runners and two retries: every race around one job.
CONSTANTS
  Jobs = {j1}
  Runners = {n1, n2}
  Sessions = {s1, s2}
  Reqs = {r1, r2, r3}
  Tolerant = {}
  None = None
  LoseCompletions = FALSE
SPECIFICATION Spec
SYMMETRY Interchangeable
INVARIANTS
  TypeOK
  OneLiveAttempt
  NoStrandedJob
  OnlyClaimantReports
PROPERTIES
  FirstResultWins
