\* Two threads, tasks of two keys taken in one order, both lock managers; threads end.
SPECIFICATION FairSpec
CONSTANTS
  a = a
  b = b
  t1 = t1
  t2 = t2
  Threads = {t1, t2}
  Keys = {a, b}
  Managers = {"files", "memory"}
  Failures = {"body", "write", "rollback_hook", "crash"}
  None = None
  Modes <- MCModes
  Plans <- MCOrderedPlans
  Retries <- MCRetries
INVARIANTS
  OneOpenTransaction
  RecordWrittenOnce
  LocksStranded
PROPERTIES
  RollbackIsTotal
  WaitersProceed
CHECK_DEADLOCK FALSE
