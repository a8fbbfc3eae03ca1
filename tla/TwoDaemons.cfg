SPECIFICATION Spec
CONSTANTS
  c1 = c1
  c2 = c2
  d1 = d1
  d2 = d2
  a1 = a1
  None = None
  Claims = {c1}
  AssetType <- OneToken
  Amount <- Ones
  Workers = {d1, d2}
  Role <- TwoDaemons
  MaxSigs = 4
  FloatCap = 3
  BigClaimThreshold = 0
  LaggingRpc = FALSE
  Forks = FALSE
  MaxCrashes = 0
  ArioCoreConfigured = TRUE
  Batches = {}
  OperatorWallet = FALSE
  AntRequiresApproval = TRUE
  MaxResignAttempts = 1
INVARIANT AtMostOneTransfer
CHECK_DEADLOCK FALSE
