SPECIFICATION DeskSpec
CONSTANTS
  Seeds = {x, y}  NoSeed = None  Unlocks = {u1}
  MinGap = 1  GapSteps = {1, 2, 3}  CoreGap = 2  MaxIndex = 4
  Missing = Missing  Corrupt = Corrupt
  Fresh = {x, y}  Owned = {own}  NoPhrase = None
  Accounts = {x, y}  Filters = {x, y, bad}  BadFilters = {bad}
  CacheSize = 1  MaxRevision = 2  MaxPages = 3
  NoAccount = NoAccount  NoRate = NoRate
  Txids = {x, y}  Pages = {0, 1}  MaxRequests = 2  None = None
  Wallets = {x, y}  LastRevision = 2  Offsets = {0, 1}  MaxQueries = 2  NoSource = None
  Currencies = {x, y}  MaxLength = 2  NoRange = None
  MaxBlocks = 2  KillHeight = 1  Targets = {1}  Nothing = None
SYMMETRY Interchangeable
INVARIANTS
  DeskTypeOK
  MarkedSeedLoads
  StoredWalletKept
  BookScanned
  BookIsFile
  FreshBalanceIsOfSource
  HistoryOfOneLedger
  ExportIsOneLedger
  ExplorerAnswersItsLookup
  AmountsKeepTheirUnit
  EditsSlice
  PassIsEarned
PROPERTIES
  CreatedSeedConfirmed
  VaultSpec
CHECK_DEADLOCK FALSE
