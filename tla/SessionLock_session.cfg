SPECIFICATION FairSpec
CONSTANTS
  w1 = w1  w2 = w2  t1 = t1  t2 = t2  t3 = t3  t4 = t4
  NoWallet = NoWallet
  Wallets <- TwoWallets
  Tokens <- FourTokens
CONSTRAINT TypedIsNotStored
ACTION_CONSTRAINT OneFreeToken
INVARIANTS
  TypeOK
  SpendAuthorityIsOwed
  LockedScanIsSealed
  TeardownNeverUnderUse
  RememberedUnlockIsAnswered
PROPERTIES
  StaleUnlockIsInert
  ReopenWaitsForTeardown
  LockedAuthorityOnlyFalls
  LeaseSpec
  TeardownEnds
  BackgroundScanEnds
  SpendKeyGoes
