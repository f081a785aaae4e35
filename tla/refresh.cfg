CONSTANTS
  l1 = l1
  d1 = d1
  Location = {l1}
  Device = {d1}
  Home <- MCHome
  Known <- MCKnown
  Leftover = {}
  MaxCached = 1
SPECIFICATION Spec
INVARIANTS
  TypeOK
  RemovedStayRemoved
  CacheServesUnknown
  StatesOfLiveSockets
  GoneAreCleaned
  IssueIsCurrent
