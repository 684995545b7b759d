\* One worker and two deliveries; the run of d1 may be archived.
SPECIFICATION Spec
CONSTANTS
  Deliveries = {d1, d2}
  Workers = {w1}
  Archived = {d1}
  None = None
  MaxAttempts = 2
  MaxOutages = 1
INVARIANTS
  OneRunEach
