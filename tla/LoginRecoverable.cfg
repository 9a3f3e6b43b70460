SPECIFICATION RecoverySpec
CONSTANTS
  User = {"u", "v"}
  MaxSession = 2
  MaxInbox = 2
  App = {"a", "b"}
  LoginWorkload <- Cut_
  Requester = {"r"}
  Frontend = {"terminal", "overlay"}
  Key = {21, 28}
  Button = {256, 257}
  Record = {"a", "b", "c"}
  MaxRecords = 2
  MaxFuse = 20
  MaxFailures = 3
  Chunks = 2
  MaxBuild = 3
  MaxTrial = 2
  MaxRevision = 2
  MaxFaults = 2
  Releases <- Releases_
  Client = {"p", "q"}
  Packages <- Packages_
  CertificateIssuer = {"i"}
  MaxReload = 2
  MaxSwap = 2
  Issuer = {"i"}
  MaxVersion = 2
  MaxNow = 3
  Lifetime = 2
  MaxTrouble = 1
  Period <- Period_
  Backoff <- Backoff_
INVARIANTS LoginRecoverable
CHECK_DEADLOCK FALSE
