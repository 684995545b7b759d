\* One runner process, two jobs, a session renewed once.
CONSTANTS
  Jobs = {j1, j2}
  Runners = {n1}
  Me = n1
  Sessions = {s1, s2}
  Reqs = {r1, r2}
  Tolerant = {}
  None = None
  LoseCompletions = FALSE
SPECIFICATION RFairSpec
PROPERTIES
  ClaimsOnlyWhenFree
  CancelledJobStops
  ClaimsAreWorked
