CONSTANTS
  alice = alice
  bob = bob
  apt = apt
  usd = usd
  eur = eur
  n1 = n1
  n2 = n2
  n3 = n3
  x1 = x1
  x2 = x2
  x3 = x3
  t1 = t1
  t2 = t2
  t3 = t3
  ek1 = ek1
  ek2 = ek2
  None = None
  Accounts = {alice}
  Assets = {apt}
  Commitments = {n1, n2}
  Nonces = {x1, x2, x3}
  Tags = {t1, t2, t3}
  Eks = {ek1}
  GenesisAsset = apt
  GenesisEk = ek1
  AssetIdOf <- CollidingIds
  NoteAsset <- AllApt
  DepositIntents <- ChangeDeposits
  WithdrawIntents <- CachesWithdraws
  ExitIntents <- NoIntents
  AspSets <- RevokingSets
  Governed = {}
  HasBridgeVault = FALSE
  AspWindow = 1
  MaxTime = 0
  MaxSequence = 2
  MaxEpoch = 0
  MaxAspSets = 2
  MaxLag = 1
SPECIFICATION Spec
INVARIANTS
  NoDoubleSpend
  InFlightUnspent
  TypeOK
  SpentNotesAreLeaves
  PayloadFollowsProof
  WithdrawnNotesWereApproved
PROPERTIES
  ImplementsLedger
CHECK_DEADLOCK FALSE
