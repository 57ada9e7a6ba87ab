CONSTANTS
  a = a
  b = b
  Hole = Hole
  Contents <- MCContents
  Checksum <- MCChecksum
  MaxBlocks = 2
  MaxNodes = 3
  MaxTime = 1
  MaxPending = 1
  Keep = 2
  Expire = 0
  Interval = 1
  Limits = {0, 1}
SPECIFICATION Spec
INVARIANT InheritanceSound
PROPERTIES
  ImplementsStore
