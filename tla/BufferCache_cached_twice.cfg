SPECIFICATION Spec
CONSTANTS
  p1 = p1
  p2 = p2
  p3 = p3
  Procs = {p1, p2, p3}
  NBuf = 2
  NReq = 1
  Blocks = {0, 1, 2}
  Written = {}
  Ops = {}
  Outcomes = {TRUE}
  MaxHold = 1
  CountSize = 256
SYMMETRY ProcSymmetry
PROPERTIES
  CachedBlockIsReturned
