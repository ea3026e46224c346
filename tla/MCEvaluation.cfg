CONSTANTS
  Block = 5
  XBits = 2
  SmallWidths = {1}
  BlockLanes = 2
  ChunkBlocks = 2
  ZsprgBuf = 6
  Capacity = 1
  Calls <- MCCalls
SPECIFICATION FairSpec
INVARIANTS OutputsRight InStep CircuitsCompute RelabelSound
PROPERTIES Finishes
\* a call ends
CHECK_DEADLOCK FALSE
