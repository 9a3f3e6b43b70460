SPECIFICATION Spec
CONSTANTS
  Process = {1, 2, 3}
  Terminal = {"t", "u"}
  Thread = {11}
  JobWorkload <- JobWorkload_
  SocketWorkload <- SocketWorkload_
INVARIANTS JobsSound ConnectionsExact SocketsServed
PROPERTIES CollectsGarbage
CHECK_DEADLOCK FALSE
