CONSTANTS
  NumWords = 2
  IoWindow = 1
  MandWindow = 1
  ZsprgBuf = 1
  Capacity = 1
  NumOps = 2
SPECIFICATION FairSpec
INVARIANTS SharesAgree FramesMatch 
PROPERTIES Finishes
\* a program ends
CHECK_DEADLOCK FALSE
