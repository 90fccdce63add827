CONSTANTS
  MaxThreads = 3
  NNodes = 3
  Chunks <- MCChunks
SPECIFICATION FairSpec
INVARIANTS ReadsConverted
PROPERTIES NodesInOrder GraphEnds
\* At rest when the graph is computed.
CHECK_DEADLOCK FALSE
