CONSTANTS
  c1 = c1
  c2 = c2
  finalizer = finalizer
  nobody = nobody
  Callers <- MCCallers
  Finalizer <- finalizer
  Nobody <- nobody
  MaxSegments = 2
SPECIFICATION FairSpec
INVARIANTS TypeOK NoUseAfterFree SegmentsAreMine
PROPERTIES OneThreadAtATime CallsReturn ReleaseFrees
CHECK_DEADLOCK FALSE
