SPECIFICATION FairSpec
CONSTANTS
  n1 = n1 n2 = n2
  Tip = 1
  Nodes = {n1, n2}
  None = None Foreign = Foreign
  MaxRestarts = 2 MaxClears = 1
INVARIANTS TypeOK BackgroundScanKeepsCheckpoint FinalBatchKept
PROPERTIES LockedScanIsTheSealedOne RemovedStaysRemoved ClearedInSession MovedScanIsSaved
