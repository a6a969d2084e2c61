\* Schedulers, users and workers.
SPECIFICATION Spec
CONSTANTS
  None = None
  Deployments = {1, 2, 3}
  Intervals = {0, 1, 2}
  MinRuns = 2
  MaxRuns = 4
  MinScheduledTime = 2
  MaxScheduledTime = 4
  DeploymentBatchSize = 2
  InsertBatchSize = 1
  Prefetch = 1
  MaxTime = 3
  MaxEdits = 2
  Worlds <- MCWorlds
INVARIANTS
  DatesKept
  FewestRuns
  OldRunsRemoved
PROPERTIES
  StartedOnce
