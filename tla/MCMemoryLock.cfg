\* Two threads and one key with locks in memory; a task that fails is retried.
SPECIFICATION Spec
CONSTANTS
  a = a
  b = b
  t1 = t1
  t2 = t2
  Threads = {t1, t2}
  Keys = {a}
  Managers = {"memory"}
  Failures = {"body"}
  None = None
  Modes <- MCLazy
  Plans <- MCOnePlan
  Retries <- MCOneRetry
INVARIANTS
  OneOpenTransaction
CHECK_DEADLOCK FALSE
