CONSTANTS
  p1 = p1  p2 = p2
  h1 = h1  h2 = h2  h3 = h3  h4 = h4
  NoHandle = NoHandle
  Process = {p1, p2}
  Handle = {h1, h2, h3, h4}
  ProcOf <- TwoProcs
  Styles = {"flock"}
  ProbeAt <- AtShared
  Faults = {}
SPECIFICATION StyleSpec
INVARIANT SoleUser
