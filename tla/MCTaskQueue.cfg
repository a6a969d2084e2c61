\* Three task runs, two workers, queues of one place, and two troubles.
SPECIFICATION FairSpec
CONSTANTS
  k1 = k1
  k2 = k2
  r1 = r1
  r2 = r2
  r3 = r3
  w1 = w1
  w2 = w2
  TaskRuns = {r1, r2, r3}
  Keys = {k1, k2}
  Workers = {w1, w2}
  Limit <- MCLimit
  ScheduledSize = 1
  RetrySize = 1
  MaxTroubles = 2
  None = None
  KeyOf <- MCKeyOf
  Subscribed <- MCSubscribed
INVARIANTS
  TasksKept
  OneExecutionAtATime
PROPERTIES
  TasksBegin
CHECK_DEADLOCK FALSE
