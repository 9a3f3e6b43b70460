SPECIFICATION CountsSpec
CONSTANTS
  Ino = {1, 2, 3, 4, 5}
  FileName = {"a", "b"}
  TreeFaults = 0
  TreeWorkload <- Replaced_
  Client = {"c1", "c2"}
  Val = {0, 1}
  DataWorkload <- DataWorkload_
  DeviceName = {"a"}
  Driver = {"d1", "d2"}
  Grant = {1, 2}
  Slot = {0, 1, 2}
  Guid = {7, 8}
  Mounted = 9
  MaxLayout = 1
  MaxEpoch = 3
  MaxGen = 4
  MaxObject = 2
INVARIANTS CountsExact
CHECK_DEADLOCK FALSE
