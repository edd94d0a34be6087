SPECIFICATION FairSpec
CONSTANTS
  Count = 2
  Length = 3
  ReadLength = 2
  TryLimit = 2
  ProgressTryLimit = 3
  MaxWaits = 1
  Files = {"good", "missing", "truncated"}
INVARIANTS WholeImage SuccessIsInstalled NoOrphan
PROPERTY UpgradeReturns
