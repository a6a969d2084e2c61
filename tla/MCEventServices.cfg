\* Two tasks and up to four events, which may be sent twice, out of order.
SPECIFICATION FairSpec
CONSTANTS
  c1 = c1
  c2 = c2
  Events = {1, 2, 3, 4}
  Consumers = {c1, c2}
  MaxSends = 2
  MaxRetries = 1
  MaxDepth = 2
  None = None
  Instances <- MCInstances
INVARIANTS
  RowIsLatest
  NothingForgotten
  HandledOnce
PROPERTIES
  CausallyOrdered
  EventsSettle
CHECK_DEADLOCK FALSE
