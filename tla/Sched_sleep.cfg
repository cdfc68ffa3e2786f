SPECIFICATION Spec
CONSTANTS
  NR_PROCESS = 2
  Queues = {"mbuffer", "request"}
  Slice = 3
  Wrap = 6
PROPERTIES
  SleepsUntilWoken
