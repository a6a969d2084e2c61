\* Two runs and one token; infrastructure fails to start, deployments are deleted,
\* and answers to polls arrive late.
SPECIFICATION WorkerSpec
CONSTANTS
  Runs = {r1, r2}
  Limit = 1
  MayFail = TRUE
  None = None
SYMMETRY Symmetry
INVARIANTS
  NoSlotLost
