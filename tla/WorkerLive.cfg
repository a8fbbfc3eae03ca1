SPECIFICATION FairSpec
CONSTANTS
  c1 = c1
  c2 = c2
  d1 = d1
  d2 = d2
  a1 = a1
  None = None
  Claims = {c1, c2}
  AssetType <- TokenAndVault
  Amount <- TwoAmounts
  Workers = {d1}
  Role <- OneDaemon
  MaxSigs = 2
  FloatCap = 3
  BigClaimThreshold = 1
  LaggingRpc = FALSE
  Forks = FALSE
  MaxCrashes = 1
  ArioCoreConfigured = TRUE
  Batches = {}
  OperatorWallet = FALSE
  AntRequiresApproval = TRUE
  MaxResignAttempts = 1
PROPERTY EveryClaimSettles
CHECK_DEADLOCK FALSE
