SPECIFICATION Spec
CONSTANTS
  p1 = p1
  p2 = p2
  Procs = {p1, p2}
  NBuf = 2
  NReq = 1
  Blocks = {0, 1, 2}
  Written = {0, 1}
  Ops = {"sync", "inval"}
  Outcomes = {TRUE, FALSE}
  MaxHold = 1
  CountSize = 3
SYMMETRY ProcSymmetry
INVARIANTS
  TypeOK
  CountIsUsers
PROPERTIES
  UsedBufferKeepsBlock
  NoModifiedBufferReused
  KeepsPool
