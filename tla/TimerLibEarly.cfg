\* The comment of cronometer: no timer expires before its time.
CONSTANTS
  MaxDelay = 3
  MaxTimers = 3
SPECIFICATION Spec
INVARIANT NeverEarly
