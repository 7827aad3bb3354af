\* Two ACs: one may be silent.  Four packets: three responses and a message in the run state.
SPECIFICATION Spec
CONSTANTS
  ACs = {ac1, ac2}
  NoAC = NoAC
  gCWMaxDiscoveries = 2
  gCWMaxRetransmit = 2
  MaxPackets = 4
  MaxFrames = 1
  MaxBeats = 2
INVARIANTS
  TypeOK
  JoinsAnAnsweringAC
  TimersFitState
  NeverSleepsOnWork
CHECK_DEADLOCK FALSE
PROPERTIES
  StatesEnd
