SPECIFICATION Spec
CONSTANTS
  Process = {1, 2, 3}
  Boot = 1
  Terminal = {}
  Thread = {}
  MaxImage = 0
  MaxToken = 0
  MaxFork = 3
  Workload <- Reclaims
INVARIANTS ReclaimRetryable
CHECK_DEADLOCK FALSE
