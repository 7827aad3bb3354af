\* More joins than faults, and more retransmissions than faults: what makes the
\* WTP fail is never the bound.
SPECIFICATION Spec
CONSTANTS
  gCWMaxRetransmit = 3
  MaxEras = 3
  MaxEchoes = 1
  MaxLosses = 1
  MaxRepeats = 1
  MaxBreaks = 1
INVARIANTS
  TypeOK
PROPERTIES
  ImplementsAssociation
  ReachesRun
CHECK_DEADLOCK FALSE
