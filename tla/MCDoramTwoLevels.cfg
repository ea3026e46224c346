CONSTANTS
  nullptr = nullptr
  a1 = a1  a2 = a2  a3 = a3
  Addr = {a1, a2, a3}
  Queried = {a1, a2, a3}
  NumLevels = 2
  AmpFactor = 2
  AmpPow <- MCAmpPow
  LinearSize = 2
  StashSize = 1
  YBits = 3
  HadInitialBottomLevel = TRUE
  InitYs <- MCInitYs
  Requests <- MCRequests
SPECIFICATION Spec
SYMMETRY AddrSymmetry
INVARIANTS TypeOK SingleCopy RebuildAssertsHold
PROPERTIES ImplementsMemory
