CONSTANTS
  i1 = i1
  i2 = i2
  c1 = c1
  c2 = c2
  c3 = c3
  p1 = p1
  p2 = p2
  o1 = o1
  o2 = o2
  o3 = o3
  d1 = d1
  d2 = d2
  None = None
  Purposes <- MCPurposes
  OldLocks <- MCOldLocks
  Installers = {i1, i2}
  Calls = {c1, c2, c3}
  Processes = {p1, p2}
  ProcessOf <- MCProcessOf
  MaxPolls = 1
  MaxFaults = 2
  Ops <- MCOps
  Parents <- MCParents
  Plans <- MCPlans
SPECIFICATION MCSpec
INVARIANTS
  LeaseCoversWork
PROPERTIES
  ImplementsAtomicStore
  CatalogIsForever
  StaleIsFenced
  CloseEnds
