CONSTANTS
  a = a
  b = b
  Hole = Hole
  Contents <- MCContents
  Checksum <- MCChecksum
  MaxBlocks = 1
  MaxNodes = 3
  MaxTime = 2
  MaxPending = 2
  Keep = 2
  Expire = 0
  Interval = 1
  Limits = {0, 1}
SPECIFICATION Spec
INVARIANTS
  TypeOK
  ReadMatchesChecksum
  ParentOnChain
  MetaAgrees
  
PROPERTIES
  SizeLimitEnforced
  RetentionSpares
