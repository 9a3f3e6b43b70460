SPECIFICATION Spec
CONSTANTS
  Inode = {1}
  Capacity = 2
  PipeBuf = 2
  MaxOpens = 3
  MaxJobs = 2
  Modes <- Modes_
  Sane <- Base
  TerminalWorkload <- TerminalWorkload_
  ShmName = {"x"}
  SemName = {"s"}
  Limit = 1
  MaxOffset = 2
  MaxObjects = 2
  MaxDescriptions = 2
  MaxClientRefs = 1
  StreamWorkload <- StreamWorkload_
  Peer = {"x", "y"}
  Host = {"a", "b"}
  Asked = {"a"}
  Client = {"p", "q"}
  NextHop = {1, 2}
INVARIANTS FifoWakes TerminalsSound  ResolverSound 
CHECK_DEADLOCK FALSE
