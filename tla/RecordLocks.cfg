SPECIFICATION Spec
CONSTANTS
  Process = {1, 2}
  File = {1}
  END = 4
  MAX_LOCKS = 3
  MAX_LOCKS_PER_PROCESS = 2
  Thread = {1, 2}
  ProcessOf <- OneOne
  Request <- RangeRequests
  Unreadable = {}
  Mortal = {}
  MAX_WAITERS = 1
  MAX_WAITERS_PER_PROCESS = 1
  MAX_PREPARATIONS = 1
  MaxToken = 1
  MaxImage = 0
  MaxEpoch = 0
INVARIANTS MutualExclusion ListExact
PROPERTIES ImplementsByteLocks
