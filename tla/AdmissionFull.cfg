\* A queue with a single place.
SPECIFICATION Spec
CONSTANTS
  Runs = {1, 2, 3}
  NoRun = 0
  NumChunks = 1
  MaxWaiters = 1
  EventTime <- MCEventTime
  Skipped <- AllRun
  External = {2}
INVARIANT QueueBounded
