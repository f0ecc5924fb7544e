CONSTANTS
  p1 = p1  p2 = p2  p3 = p3
  t1 = t1  t2 = t2  t3 = t3
  h1 = h1  h2 = h2  h3 = h3  h4 = h4  h5 = h5
  NoHandle = NoHandle
  Process = {p1, p2}
  Thread = {t1, t2}
  Handle = {h1, h2, h3}
  ProcOf <- TwoInOne
  ExclHandle = {}
  LowFdFree = FALSE
  Faults = {}
  MaxFd = 2
SPECIFICATION FairSpec
PROPERTY PendingNeverStarves
