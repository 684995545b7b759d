\* One delivery, two workers, an outage, two attempts: lost leases, crashes
\* and redeliveries.
SPECIFICATION FairSpec
CONSTANTS
  Deliveries = {d1}
  Workers = {w1, w2}
  Archived = {}
  None = None
  MaxAttempts = 2
  MaxOutages = 1
INVARIANTS
  DoneMeansSubmitted
PROPERTIES
  FencedOutcome
  InboxDrains
