\* Two dictionaries, two D-Bus goroutines, three events, a result channel that
\* can be full.
SPECIFICATION Spec
CONSTANTS
  DictKeys = {k1, k2}
  None = None
  Callers = {c1, c2}
  DictChCap = 1
  MaxEvents = 3
INVARIANTS LookupIsDesired StatusAgrees OneCurrentLoad
PROPERTIES EnabledGetsDictionary EnableRetries ImplementsDictionary
CHECK_DEADLOCK FALSE
