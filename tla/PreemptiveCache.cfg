SPECIFICATION PreemptiveSpec
CONSTANTS
  p1 = p1
  p2 = p2
  Procs = {p1, p2}
  NBuf = 2
  NReq = 1
  Blocks = {0, 1}
  Written = {0, 1}
  Ops = {}
  Outcomes = {TRUE, FALSE}
  MaxHold = 1
  CountSize = 256
  MaxPreempt = 1
INVARIANTS
  CountIsUsers
