SPECIFICATION Spec
CONSTANTS
  Users = {u}
  KSize = 2
  TSize = 2
  RowSize = 4
  Rows = 1
  Start = 20
  MemSize = 8
  Word = 1024
  MaxCall = 2
  Low = 20
  High = 24
  MaxTop = 0
  MaxDown = 1
INVARIANTS
  TypeOK
  KeyboardRing
  CursorBehindText
PROPERTY
  ConsoleReturns
