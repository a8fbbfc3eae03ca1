SPECIFICATION Spec
CONSTANTS
  c1 = c1
  c2 = c2
  d1 = d1
  d2 = d2
  a1 = a1
  None = None
  Claims = {c1, c2}
  AssetType <- TokenAndVault
  Amount <- TwoAmounts
  Workers = {d1}
  Role <- OneDaemon
  MaxSigs = 3
  FloatCap = 2
  BigClaimThreshold = 1
  LaggingRpc = FALSE
  Forks = FALSE
  MaxCrashes = 2
  ArioCoreConfigured = FALSE
  Batches = {}
  OperatorWallet = FALSE
  AntRequiresApproval = TRUE
  MaxResignAttempts = 1
INVARIANTS
  TypeOK
  ExactlyOnceInv
  AtMostOneTransfer
  ResignCap
  FloatCoversInFlight
  NothingSentUnapproved
PROPERTY ImplementsDispense
CHECK_DEADLOCK FALSE
