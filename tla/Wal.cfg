CONSTANTS
  Writers = {v, w}
  None = None
  Cap = 8
  MaxRuns = 2
  Quota <- MCQuota
SPECIFICATION Spec
SYMMETRY MCSymmetry
INVARIANTS
  TypeOK
  FilePrefix
  SealedOnDisk
  RecoveryReads
