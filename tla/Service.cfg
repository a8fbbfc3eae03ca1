SPECIFICATION Spec
CONSTANTS
  None = None
  Keys = {k1, k2, k3}
  Observed = k1
  Window = 2
  Limit = 2
  MaxKeys = 2
  MaxTime = 3
  Addresses = {k1}
  MaxSigned = 2
  Writes = {"build"}
  NonceTtl = 3
  ReadTtl = 2
  MaxNonces = 3
  MaxIssued = 4
  Ants = {a1, a2}
  Healers = {"worker", "cli"}
  PageCap = 2
  Batch = 1
  MaxAttempts = 2
  MaxTroubles = 1
  Worlds <- TwoWorlds
  Poll = 1
  MonitorInterval = 2
  MaxWork = 1
  MaxRead = 1
  RepostInterval <- Reposts
  Thresholds <- Limits
  MaxClock = 12
  MaxChanges = 2
  MaxFaults = 1
INVARIANTS
  LessThanTwiceTheLimit
  AccessComesFromTheWallet
  HealedStaysHealed
  ReportedInTime
PROPERTIES
  NotFlooded
  EveryAntIsSettled
CHECK_DEADLOCK FALSE
