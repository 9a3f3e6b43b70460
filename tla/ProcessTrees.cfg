SPECIFICATION Spec
CONSTANTS
  Process = {1, 2, 3, 4}
  Terminal = {}
  Thread = {21, 22}
  TreeWorkload <- TreeWorkload_
  p1 = p1
  p2 = p2
  p3 = p3
  t1 = t1
  t2 = t2
  t3 = t3
  Waiters = {p1, p2, p3}
  WaitFiles = {1}
  WaitCallers = {t1, t2, t3}
  WaitThreads <- WaitThreads_
  WaitRequests <- WaitRequests_
INVARIANTS TreesClosed CyclesRefused EndpointsAccounted
PROPERTIES ExitsObserved
SYMMETRY JointSymmetry
CHECK_DEADLOCK FALSE
