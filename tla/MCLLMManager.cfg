CONSTANTS
  r1 = r1
  r2 = r2
  m1 = m1
  m2 = m2
  e1 = e1
  e2 = e2
  e3 = e3
  Requests <- MCRequests
  Managers <- MCManagers
  Engines <- MCEngines
  NoRequest = NoRequest
  NoManager = NoManager
  NoEngine = NoEngine
SPECIFICATION FairSpec
INVARIANTS TypeOK FlagMeansEngine NoClosedEngine
PROPERTIES RequestsReturn
\* At rest once the engines are used up and the last activity is there.
CHECK_DEADLOCK FALSE
