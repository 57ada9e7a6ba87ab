CONSTANTS
  f = f
  g = g
  Files = {f, g}
  Blocks = 2
  None = None
  plain1 = plain1
  plain2 = plain2
  packed = packed
  Contents = {plain1, plain2, packed}
  Garbage = Garbage
  Budget = 1
  Slots = 2
  Room = 2
  Forms <- MCForms
  Written <- MCWritten
  Ids <- MCIds
  MaxDirs = 1
SPECIFICATION Spec
SYMMETRY MCSymmetry
INVARIANTS
  TypeOK
  Coherent
  NoStalePointer
CHECK_DEADLOCK FALSE
