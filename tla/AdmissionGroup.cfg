\* Three runs of up to two jobs contend for the group through late events,
\* failed submits, starvation, cancellation and restarts.
SPECIFICATION Spec
CONSTANTS
  Runs = {1, 2, 3}
  NoRun = 0
  NumChunks = 2
  MaxWaiters = 2
  EventTime <- MCEventTime
  Skipped <- SomeSkipped
  External = {2}
INVARIANTS
  WaitersParked
  OnlyHolderRuns
PROPERTIES
  OldestWaiterFirst
  NewerRunsSurvive
  ImplementsGroupSlot
