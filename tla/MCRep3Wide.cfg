CONSTANTS
  NumWords = 2
  IoWindow = 2
  MandWindow = 2
  ZsprgBuf = 1
  Capacity = 2
  NumOps = 2
SPECIFICATION Spec
INVARIANTS AndComputesAnd
CHECK_DEADLOCK FALSE
