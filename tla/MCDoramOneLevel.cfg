CONSTANTS
  nullptr = nullptr
  a1 = a1  a2 = a2  a3 = a3
  Addr = {a1, a2, a3}
  Queried = {a1, a2}
  NumLevels = 1
  AmpFactor = 2
  AmpPow <- MCAmpPow
  LinearSize = 4
  StashSize = 2
  YBits = 2
  HadInitialBottomLevel = FALSE
  InitYs <- MCInitYs
  Requests <- MCRequests
SPECIFICATION FairSpec
PROPERTIES ImplementsMemory AccessReturns
