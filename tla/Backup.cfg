CONSTANTS
  Callers = {c, d}
  Timer = Timer
  Threads = {t, u}
  Recs = {1, 2, 3}
  Dirs = {a}
  None = None
  MaxId = 3
  MaxRaces = 1
SPECIFICATION Spec
INVARIANTS
  TypeOK
  FlagHonest
  OneAtATime
  
  NoOrphanFile
PROPERTIES
  FlagClears
  ShutdownReturns
CHECK_DEADLOCK FALSE
