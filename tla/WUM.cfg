\* Two versions of two fragments: an update takes four messages; seven are enough for
\* one that is broken off, its cancel, and another one.
SPECIFICATION Spec
CONSTANTS
  MaxVersion = 2
  Parts = 2
  MaxRequests = 7
  MaxMisdelivered = 1
INVARIANTS
  TypeOK
  ReadyMeansWhole
  RunningIsWhole
PROPERTIES
  CommitLeadsToRestart
CHECK_DEADLOCK FALSE
