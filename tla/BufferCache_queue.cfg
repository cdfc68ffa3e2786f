SPECIFICATION Spec
CONSTANTS
  p1 = p1
  p2 = p2
  p3 = p3
  Procs = {p1,p2,p3}
  NBuf = 3
  NReq = 3
  Blocks = {0, 1, 2}
  Written = {1}
  Ops = {}
  Outcomes = {TRUE}
  MaxHold = 1
  CountSize = 4
INVARIANTS
  LockHasOneOwner
  RequestKeepsBlock
PROPERTIES
  QueuedUntilEnded
  LostOnlyToEndRequest
SYMMETRY ProcSymmetry
