CONSTANTS
  c1 = c1
  main0 = main0
  finalizer = finalizer
  nobody = nobody
  Callers <- MCCallers
  Main <- main0
  Finalizer <- finalizer
  Nobody <- nobody
  MaxSegments = 1
SPECIFICATION AppSpec
PROPERTIES DestroyCleansUp
CHECK_DEADLOCK FALSE
