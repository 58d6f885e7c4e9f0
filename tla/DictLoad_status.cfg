\* A D-Bus status call against everything the main loop does.
SPECIFICATION Spec
CONSTANTS
  DictKeys = {k1, k2}
  None = None
  Callers = {c1}
  DictChCap = 1
  MaxEvents = 3
INVARIANT StatusIsSnapshot
CHECK_DEADLOCK FALSE
