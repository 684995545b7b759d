\* Two jobs taken one after the other in one session; completions may be lost
\* to a crash or a timeout.
CONSTANTS
  Jobs = {j1, j2}
  Runners = {n1}
  Sessions = {s1}
  Reqs = {r1, r2}
  Tolerant = {j1}
  None = None
  LoseCompletions = TRUE
SPECIFICATION Spec
INVARIANTS
  CancellationsMatch
  SessionsHoldOneAttempt
