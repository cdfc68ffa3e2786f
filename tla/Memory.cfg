CONSTANTS
  Kernel = 3
  Main = 2
  NR_PROCESS = 3
  PerProc = 1
  Size = 1
  Entries = 2
  LowEntries = 1
  MaxRef = 4
SPECIFICATION Spec
INVARIANT PageHasOneUse
CHECK_DEADLOCK FALSE
