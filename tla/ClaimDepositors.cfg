CONSTANTS
  alice = alice
  bob = bob
  apt = apt
  usd = usd
  eur = eur
  n1 = n1
  n2 = n2
  n3 = n3
  x1 = x1
  x2 = x2
  x3 = x3
  t1 = t1
  t2 = t2
  t3 = t3
  ek1 = ek1
  ek2 = ek2
  None = None
  Accounts = {alice}
  Assets = {apt}
  Commitments = {n1, n2}
  Nonces = {x1, x2, x3}
  Tags = {t1, t2, t3}
  Eks = {ek1}
  GenesisAsset = apt
  GenesisEk = ek1
  AssetIdOf <- CollidingIds
  NoteAsset <- AllApt
  DepositIntents <- ChangeDeposits
  WithdrawIntents <- NoIntents
  ExitIntents <- NoIntents
  AspSets <- OneApprovedSet
  Governed = {}
  HasBridgeVault = FALSE
  AspWindow = 1
  MaxTime = 0
  MaxSequence = 0
  MaxEpoch = 0
  MaxAspSets = 0
  MaxLag = 0
SPECIFICATION Spec
INVARIANTS
  DepositorsAreRecorded
CHECK_DEADLOCK FALSE
