\* Three timers: one whose handler runs, one armed, one behind it.
CONSTANTS
  MaxDelay = 3
  MaxTimers = 3
SPECIFICATION Spec
INVARIANTS
  TypeOK
  TickerHasTimer
  NoMissedDeadline
  ArgFreedOnce
PROPERTIES
  RemovedNeverFires
  EveryTimerSettles
