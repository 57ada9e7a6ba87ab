CONSTANTS
  Files = {f, g}
  Callers = {a, b}
  None = None
  Cleaner = Cleaner
  Interval = 1
  MaxTime = 2
SPECIFICATION Spec
INVARIANT TypeOK
PROPERTY WritersProgress
