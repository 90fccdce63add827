CONSTANTS
  MaxThreads = 3
  NNodes = 1
  Chunks <- OneChunk
  MaxGraphs = 2
  Steady = TRUE
SPECIFICATION PoolFairSpec
INVARIANTS PoolTypeOK ResultReturned
PROPERTIES QuietAtReset GraphsReturn PauseTakesHold PoolIsFreed
\* At rest when the pool is freed.
CHECK_DEADLOCK FALSE
