CONSTANTS
  Files = {f}
  Callers = {a}
  None = None
  Cleaner = Cleaner
  Interval = 1
  MaxTime = 2
SPECIFICATION Spec
PROPERTY PeriodicVersion
