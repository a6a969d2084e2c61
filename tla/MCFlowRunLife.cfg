\* One run under every proposal, from current and from legacy clients; nothing
\* is forced by a client, two in-process retries.
SPECIFICATION Spec
CONSTANTS
  Runs = {r1}
  Deployed = {r1}
  Subflows = {}
  Keys = {k1}
  TransitionIds = {t1}
  Retries = 2
  Strategy = "CANCEL_NEW"
  None = None
  NoState = NoState
  ClientPolicies = {"core", "legacy"}
  ForceAllowed = FALSE
  MaxRunCount = 4
  InitialStates <- MCInitialStates
  Proposals <- MCLifeProposals
  Limits <- MCLifeLimits
INVARIANTS
  RetriesBounded
PROPERTIES
  CancellationFinal
