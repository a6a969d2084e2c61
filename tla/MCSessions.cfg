\* A session with an old row of a run, while clients go on with the run, forced or
\* not, and the limit is changed, removed and restored.
SPECIFICATION SessionSpec
CONSTANTS
  Runs = {r1}
  Deployed = {r1}
  Subflows = {}
  Keys = {}
  TransitionIds = {}
  Retries = None
  Strategy = "ENQUEUE"
  None = None
  NoState = NoState
  ClientPolicies = {"core"}
  ForceAllowed = TRUE
  MaxRunCount = 1
  Sessions = {s1}
  MaxOvertaken = 2
  InitialStates <- MCInitialStates
  Proposals <- MCProposals
  Limits <- MCLimits
INVARIANTS
  LostSlotsCounted
PROPERTIES
  NoAdmissionBeyondLimit
