CONSTANTS
  alice = alice
  bob = bob
  apt = apt
  usd = usd
  eur = eur
  n1 = n1
  n2 = n2
  n3 = n3
  x1 = x1
  x2 = x2
  x3 = x3
  t1 = t1
  t2 = t2
  t3 = t3
  ek1 = ek1
  ek2 = ek2
  None = None
  Accounts = {alice, relayer}
  Assets = {apt}
  Commitments = {n1, n2, n3}
  Nonces = {x1, x2, x3}
  Tags = {t1, t2, t3}
  Eks = {ek1}
  GenesisAsset = apt
  GenesisEk = ek1
  AssetIdOf <- CollidingIds
  NoteAsset <- AllApt
  DepositIntents <- TwoDeposits
  WithdrawIntents <- FullAndPartial
  ExitIntents <- NoIntents
  AspSets <- BothNotes
  Governed = {}
  HasBridgeVault = FALSE
  AspWindow = 1
  MaxTime = 1
  MaxSequence = 3
  MaxEpoch = 0
  MaxAspSets = 1
  MaxLag = 3
  relayer = relayer
  Relayer = relayer
  MaxAttempts = 2
  MaxSubmits = 2
  MaxCrashes = 2
  MaxFaults = 1
SPECIFICATION RelayerSpec
INVARIANTS
  AnswersAreTrue
  JournalIsTruthful
PROPERTIES
  RecordedIsReadable
  OnlyDisturbedCallsFail
  EveryCallIsAnswered
CHECK_DEADLOCK FALSE
