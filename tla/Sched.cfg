SPECIFICATION Spec
CONSTANTS
  NR_PROCESS = 3
  Queues = {"mbuffer"}
  Slice = 2
  Wrap = 3
INVARIANTS
  TypeOK
