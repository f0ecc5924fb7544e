CONSTANTS
  p1 = p1  p2 = p2
  c1 = c1  c2 = c2  c3 = c3
  Process = {p1, p2}
  Conn = {c1, c2, c3}
  ProcOf <- TwoProcs
  NLock = 3
  HeapShm = {}
  ReadonlyShm = {c1}
  ShmPerMap = 2
  RegionPages = 1
  Regions = {2}
SPECIFICATION MCSpec
INVARIANTS LockingArrayOk KernelMatches NoStaleShm RefsCounted MappedIsBacked
PROPERTIES ImplementsShmSlots TruncatedWhileUnused
