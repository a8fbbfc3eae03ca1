SPECIFICATION PubSpec
CONSTANTS
  None = None
  MS = 2
  MinVaultSize = 2
  MinVaultLock = 2
  MaxVaultLock = 4
  Mapped <- MappedOwners
  Moduli <- ModulusOwners
  Corrupt = {}
  AtRisk <- AtRiskOwners
  AoProcess <- Process
  Snapshots <- AllSnapshots
  BuildTimes = {0, 3}
  MaxBuilds = 2
  MaxTime = 3
  Validity = 1
  ArioCoreSettings = {TRUE, FALSE}
  Reserve = 4
  ColdStart = 1
  MaxPublishes = 1
INVARIANTS
  AssetDeliveredOnce
  LockPreserved
PROPERTIES
  ReportsNeverOverstate
  PlansAreFaithful
  OnlyPublishedIsAccepted
CHECK_DEADLOCK FALSE
