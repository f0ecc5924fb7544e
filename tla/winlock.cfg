CONSTANTS
  p1 = p1  p2 = p2
  h1 = h1  h2 = h2  h3 = h3
  Process = {p1, p2}
  Handle = {h1, h2, h3}
  ProcOf <- TwoProcs
  ReadOnly = {}
  Builds = {"NT", "CE"}
  Faults = {"pending", "invalid", "read", "exclusive", "close"}
  MaxLost = 1
SPECIFICATION Spec
SYMMETRY ConnSymmetry
INVARIANTS LocksMatchLevel ReadLockRegained NoPhantomReserved
PROPERTIES PendingStopsNewReaders WinceCountersKept ImplementsFileLevels
