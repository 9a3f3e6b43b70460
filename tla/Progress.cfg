SPECIFICATION FairSpec
CONSTANTS
  p1 = p1
  p2 = p2
  t1 = t1
  t2 = t2
  t3 = t3
  LockOwners = {p1, p2}
  LockFiles = {1}
  LockCallers = {t1, t2, t3}
  LockMortals = {p1}
  LockThreads <- LockThreads_
  LockRequests <- LockRequests_
  Process = {1, 2, 3}
  Thread = {21}
  LifeWorkload <- LifeWorkload_
PROPERTIES LockCallsServed ProcessesServed
CHECK_DEADLOCK FALSE
