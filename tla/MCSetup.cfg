CONSTANTS
  NumThreads = 3
  Deployments <- MCDeployments
  BasePort <- MCBasePort
  Offset = 2
SPECIFICATION FairSpec
INVARIANTS SocketsMatched ConnectionsKept PortsFree
PROPERTIES AllUp
\* the parties go on to other modules
CHECK_DEADLOCK FALSE
