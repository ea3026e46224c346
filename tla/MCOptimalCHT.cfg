CONSTANTS
  NumEdges = 5
  ColLen = 2
  StashLength = 2
SPECIFICATION FairSpec
INVARIANTS OneEdgePerVertex NothingLost StashMinimal
PROPERTIES BuildEnds
\* the build returns or aborts
CHECK_DEADLOCK FALSE
