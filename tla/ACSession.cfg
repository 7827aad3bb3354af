\* Six packets: the three that lead to the run state, and three more there.
SPECIFICATION Spec
CONSTANTS
  MaxPackets = 6
  MaxRequests = 3
INVARIANTS
  TypeOK
  OneTimerPerSession
  AnsweredMeansAcked
PROPERTIES
  PacketsServed
  ClosesAtNextPacket
  ImplementsService
CHECK_DEADLOCK FALSE
