CONSTANTS
  alice = alice
  bob = bob
  apt = apt
  usd = usd
  eur = eur
  n1 = n1
  n2 = n2
  n3 = n3
  x1 = x1
  x2 = x2
  x3 = x3
  t1 = t1
  t2 = t2
  t3 = t3
  ek1 = ek1
  ek2 = ek2
  None = None
  Accounts = {alice}
  Assets = {apt, usd, eur}
  Commitments = {n1, n2, n3}
  Nonces = {x1, x2, x3}
  Tags = {t1, t2, t3}
  Eks = {ek1, ek2}
  GenesisAsset = apt
  GenesisEk = ek1
  AssetIdOf <- CollidingIds
  NoteAsset <- AptAndUsd
  DepositIntents <- UsdDeposits
  WithdrawIntents <- UsdWithdraws
  ExitIntents <- UsdExits
  AspSets <- OneApprovedSet
  Governed = {usd, eur}
  HasBridgeVault = TRUE
  AspWindow = 1
  MaxTime = 1
  MaxSequence = 2
  MaxEpoch = 0
  MaxAspSets = 1
  MaxLag = 0
SPECIFICATION Spec
INVARIANTS
  ExitsAreSequenced
  LeavesAreDense
CHECK_DEADLOCK FALSE
