CONSTANTS
  j1 = j1
  j2 = j2
  t1 = t1
  f1 = f1
  f2 = f2
  Jobs <- MCJobs
  Threads <- MCThreads
  Files <- MCFiles
  NoJob = NoJob
  NoThread = NoThread
  NoFile = NoFile
  Loader = Loader
SPECIFICATION FairSpec
INVARIANTS TypeOK TranscriberExclusive TranscriberAvailable
PROPERTIES ProcessingEnds StopsComplete
\* At rest once every path of Files is used.
CHECK_DEADLOCK FALSE
