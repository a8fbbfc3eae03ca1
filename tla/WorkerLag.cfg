SPECIFICATION ReportSpec
CONSTANTS
  c1 = c1
  c2 = c2
  d1 = d1
  d2 = d2
  a1 = a1
  None = None
  Claims = {c1}
  AssetType <- OneToken
  Amount <- Ones
  Workers = {d1}
  Role <- OneDaemon
  MaxSigs = 3
  FloatCap = 2
  BigClaimThreshold = 0
  LaggingRpc = TRUE
  Forks = TRUE
  MaxCrashes = 2
  ArioCoreConfigured = TRUE
  Batches = {}
  OperatorWallet = FALSE
  AntRequiresApproval = TRUE
  MaxResignAttempts = 1
INVARIANTS
  AtMostOneExtraTransfer
  OnlyMovementIsReported
CHECK_DEADLOCK FALSE
