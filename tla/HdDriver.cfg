CONSTANTS
  MAX_ERRORS = 7
  NR_REQUEST = 4
SPECIFICATION Spec
INVARIANTS TypeOK ErrorsAtHead SomebodyServes
PROPERTIES RetriesEnd ServesInOrder
CHECK_DEADLOCK FALSE
