SPECIFICATION FairSpec
CONSTANTS
  Thread = {1, 2}
  Signal = {1, 2, 3, 4}
  StopSignals = {3}
  Cont = 2
  Kill = 9
  Uncatchable = {9}
  DefaultIgnored = {4}
  AlarmSignal = 1
  MaxDeliveries = 2
  MaxTimers = 2
  Ceiling = 4
  MaxNow = 2
  Workload <- All_
INVARIANTS SignalsConserve NoLostWake
PROPERTIES WaitsServed
CHECK_DEADLOCK FALSE
