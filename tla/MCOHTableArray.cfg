CONSTANTS
  nullptr = nullptr
  a1 = a1  a2 = a2  a3 = a3  d1 = d1
  Addr = {a1, a2, a3}
  Label = {d1}
  YBits = 3
  NumLevels = 1
  LinearSize = 2
  StashSize = 1
  NumElements = 3
  NumDummies = 2
  Xs <- MCXs
  YOf <- MCYOf
  FyArrays <- MCFyArrays
SPECIFICATION Spec
INVARIANTS OrdersAgree AssertsHold
PROPERTIES ImplementsTable
\* a drained table is deleted
CHECK_DEADLOCK FALSE
