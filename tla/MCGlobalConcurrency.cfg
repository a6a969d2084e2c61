\* Calls of several processes for limits with and without decay.
SPECIFICATION FairSpec
CONSTANTS
  la = la
  lb = lb
  ld = ld
  a1 = a1
  a2 = a2
  b1 = b1
  ab1 = ab1
  d1 = d1
  d2 = d2
  sa = sa
  sb = sb
  sab = sab
  sd1 = sd1
  sd2 = sd2
  None = None
  Limits = {la, lb, ld}
  Calls = {a1, a2, b1, ab1, d1, d2}
  Services = {sa, sb, sab, sd1, sd2}
  ServiceOf <- MCServiceOf
  NamesOf <- MCNamesOf
  Occupy <- MCOccupy
  RateCalls = {d2}
  Strict = {d1}
  Timeout <- MCTimeout
  MaxRetries <- MCRetries
  InitialLimit <- MCLimits
  DecayTicks <- MCDecay
  OccupancyTicks = 1
  MaxDenied = 1
  Worlds <- MCWorlds
INVARIANTS
  LimitKept
  NothingLeaks
PROPERTIES
  SomebodyGetsIn
  RateBounded
CHECK_DEADLOCK FALSE
