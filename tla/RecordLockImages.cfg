SPECIFICATION Spec
CONSTANTS
  Process = {1, 2}
  File = {1}
  END = 1
  MAX_LOCKS = 2
  MAX_LOCKS_PER_PROCESS = 1
  Thread = {1, 2, 3}
  ProcessOf <- TwoOne
  Request <- ImageRequests
  Unreadable = {1}
  Mortal = {1}
  MAX_WAITERS = 2
  MAX_WAITERS_PER_PROCESS = 1
  MAX_PREPARATIONS = 1
  MaxToken = 2
  MaxImage = 1
  MaxEpoch = 1
INVARIANTS TypeOK WaitHasJob
PROPERTIES NoStaleConflict ExecReleasesPrepared
