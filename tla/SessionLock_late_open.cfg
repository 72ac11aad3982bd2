SPECIFICATION Spec
CONSTANTS
  w1 = w1  w2 = w2  t1 = t1  t2 = t2  t3 = t3  t4 = t4
  NoWallet = NoWallet
  Wallets <- OneWallet
  Tokens <- ThreeTokens
INVARIANT TeardownOwed
