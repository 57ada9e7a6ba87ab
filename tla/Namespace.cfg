CONSTANTS
  Threads = {t1, t2}
  Names = {x, y, m}
  Marked = {m}
  CacheSize = 1
  MaxIno = 3
SPECIFICATION Spec
SYMMETRY MCSymmetry
CHECK_DEADLOCK FALSE
INVARIANTS
  TypeOK
  LinksCounted
  NothingLost
  NoDanglingPointer
PROPERTIES
  ImplementsTree
