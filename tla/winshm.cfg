CONSTANTS
  p1 = p1  p2 = p2
  c1 = c1  c2 = c2  c3 = c3
  Process = {p1, p2}
  Conn = {c1, c2, c3}
  ProcOf <- TwoProcs
  NLock = 2
  Regions = {1}
SPECIFICATION Spec
SYMMETRY ConnSymmetry
INVARIANTS FirstTruncates MappingsSafe KernelMatches
PROPERTY ImplementsShmSlots
