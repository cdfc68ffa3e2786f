CONSTANTS
  MAX_ERRORS = 7
  NR_REQUEST = 2
SPECIFICATION Spec
INVARIANTS RequestIsLocked
CHECK_DEADLOCK FALSE
