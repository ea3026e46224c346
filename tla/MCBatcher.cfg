CONSTANTS
  MaxLen = 9
  NumThreads = 2
SPECIFICATION FairSpec
INVARIANTS Permutation ChunksSorted
PROPERTIES SortEnds
\* the sort returns or aborts
CHECK_DEADLOCK FALSE
