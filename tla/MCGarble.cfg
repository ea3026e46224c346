CONSTANTS
  Circuits <- MCCircuits
  Capacity = 2
  NumCalls = 2
SPECIFICATION FairSpec
INVARIANTS GarblersAgree ActiveKeys OutputShared BufferAsserts
PROPERTIES Finishes
\* the parties stop after the last call
CHECK_DEADLOCK FALSE
