\* Task runs of both kinds and two tags; a flow run with a subflow is cancelled.
SPECIFICATION FairSpec
CONSTANTS
  above = above
  child = child
  sub = sub
  worker = worker
  key = key
  TaskRuns = {above, child, sub, worker}
  Engine = {worker}
  Orchestrated = {child, sub}
  Flows = {1, 2}
  Tags = {1, 2}
  Retries = 1
  CacheKeys = {key}
  MaxRunCount = 2
  MayLose = TRUE
  Deployed = {2}
  BatchSize = 2
  None = None
  FlowOf <- MCFlowOf
  ParentTask <- MCParentTask
  TagsOf <- MCTagsOf
  Limits <- MCLimits
  Proposals <- MCProposals
  Populations <- MCPopulations
  FlowChanges <- MCFlowChanges
INVARIANTS
  SlotsHaveOwners
PROPERTIES
  AdmittedWithinLimits
  KeptWhileExecuting
  CancellationsSpread
  WaitersServed
CHECK_DEADLOCK FALSE
