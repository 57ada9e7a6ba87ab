CONSTANTS
  Callers = {c, d}
  N = 2
  Totals = {0, 1, 3}
  Width = 4
  Handles = {g, h, i}
  None = None
  MaxStarts = 2
  MaxReports = 2
  MaxRaces = 1
SPECIFICATION Spec
INVARIANTS
  TypeOK
  Sweep
  StopJoins
  CountHonest
PROPERTIES
  ScanStops
  StopReturns
CHECK_DEADLOCK FALSE
