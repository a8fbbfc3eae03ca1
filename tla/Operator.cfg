SPECIFICATION OpSpec
CONSTANTS
  c1 = c1
  c2 = c2
  s1 = s1
  s2 = s2
  d1 = d1
  None = None
  Claims = {c1}
  AssetType <- Ants
  Amount <- Zeros
  Workers = {s1, d1}
  Submits = {s1}
  Role <- Daemons
  MaxSigs = 2
  Batches = {1, 2}
  BatchMax = 1
  MaxCrashes = 1
  AntRequiresApproval = FALSE
  FloatCap = 0
  BigClaimThreshold = 0
  LaggingRpc = FALSE
  Forks = FALSE
  ArioCoreConfigured = FALSE
  OperatorWallet = FALSE
  MaxResignAttempts = 1
INVARIANTS
  AliveIsOnRecord
  ReservationsCanEnd
  HeadersTellTheTruth
  ConfirmedWasPaid
  StoppedNeverPaid
CHECK_DEADLOCK FALSE
