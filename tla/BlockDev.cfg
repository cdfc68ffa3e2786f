SPECIFICATION Spec
CONSTANTS
  p1 = p1
  p2 = p2
  f1 = f1
  f2 = f2
  text = text
  Procs = {p1, p2}
  Files = {f1, f2, text}
  Regular = {text}
  BlockSize = 2
  NBlocks = 4
  Counts = {5}
  Blank = Blank
SYMMETRY Symmetry
INVARIANTS
  TypeOK
  OffsetCountsReturned
  OwnOffsetIsPlace
PROPERTIES
  MovesBytes
