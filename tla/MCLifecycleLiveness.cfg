\* What must happen, under fairness.
SPECIFICATION FairLifecycle
CONSTANTS
  r1 = r1
  r2 = r2
  w1 = w1
  w2 = w2
  Runs = {r1, r2}
  Deployed = {r1, r2}
  Subflows = {}
  Keys = {k1}
  TransitionIds = {t1}
  Retries = 1
  Strategy = "ENQUEUE"
  None = None
  NoState = NoState
  ClientPolicies = {"core"}
  ForceAllowed = FALSE
  MaxRunCount = 2
  Workers = {w1, w2}
  InitialStates <- MCInitialStates
  Proposals <- MCProposals
  Limits <- MCOneLimit
  Attempts <- MCTwoAttempts
  Worlds <- MCLivenessWorlds
INVARIANTS
  LifecycleTypeOK
PROPERTIES
  ScheduledRunsEnd
  GrantedRetriesHappen
  ResumedRunsStart
