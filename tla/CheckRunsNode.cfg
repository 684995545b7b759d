\* One server: a job of two statuses and the report of a failed workflow.
SPECIFICATION FairSpec
CONSTANTS
  Jobs = {j}
  Failures = {f}
  External <- OneWorkflow
  Senders = {s}
  None = None
  MaxVersion = 1
  MaxAttempts = 2
  NotFoundRetries = 1
  MaxChecks = 3
  MaxRestarts = 1
INVARIANTS
  TypeOK
  OneCheckEach
  QuietMeansShown
PROPERTIES
  NeverGoesBack
  StatusReachesGitHub
