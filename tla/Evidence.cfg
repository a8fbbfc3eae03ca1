SPECIFICATION EvidenceSpec
CONSTANTS
  w1 = w1
  w2 = w2
  n1 = n1
  n2 = n2
  c1 = c1
  c2 = c2
  c3 = c3
  ar1 = ar1
  ar2 = ar2
  eth1 = eth1
  d1 = d1
  d2 = d2
  d3 = d3
  None = None
  Nobody = Nobody
  Writers = {w1, w2}
  Runs = {r1}
  Entry = {n1, n2}
  MaxSeq = 3
  PageSize = 1
  ArKeys = {ar1, ar2}
  EthKeys = {eth1}
  Claimants = {c1, c2}
  Deposits <- FrozenDeposits
  RowsOf <- PossibleRows
  MaxClaims = 2
  MaxSignings = 2
  Spellings = {"lower case", "mixed case"}
  AnomalyWindow = 1
  AnomalyThreshold = 2
  AnomalyGcThreshold = 1
  AnomalyMaxEntries = 2
  MaxCalls = 4
  MaxMoment = 4
SYMMETRY Symmetry
INVARIANTS
  ChainLinear
  PagesMissNothing
  HonestLogExtendsAnchors
  AcceptedMeansUnaltered
  AcceptedWasSigned
  OneChallengePerSignature
  EscrowPaysTheRecipient
  RepeatsAreReported
CHECK_DEADLOCK FALSE
