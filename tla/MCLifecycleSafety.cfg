\* Several runs and workers, without fairness.
SPECIFICATION LifecycleSpec
CONSTANTS
  r1 = r1
  r2 = r2
  w1 = w1
  w2 = w2
  Runs = {r1, r2}
  Deployed = {r1, r2}
  Subflows = {}
  Keys = {k1}
  TransitionIds = {}
  Retries = None
  Strategy = "ENQUEUE"
  None = None
  NoState = NoState
  ClientPolicies = {"core"}
  ForceAllowed = FALSE
  MaxRunCount = 2
  Workers = {w1, w2}
  InitialStates <- MCInitialStates
  Proposals <- MCProposals
  Limits <- MCOneLimit
  Attempts <- MCAttempts
  Worlds <- MCSafetyWorlds
SYMMETRY Symmetry
INVARIANTS
  SubmittedOnce
  ExecutedOnce
  RunningHasProcess
  NoSlotLeak
PROPERTIES
  SlotPoolKept
