\* Two WTPs on one interface, and one slot more than the AC admits sessions.
SPECIFICATION Spec
CONSTANTS
  Addresses = {a1, a2}
  Sockets = {s1}
  Unset = Unset
  CW_MAX_WTP = 3
  gMaxWTPs = 2
  MaxStartFailures = 1
INVARIANTS
  TypeOK
  SlotOwnership
  NoGhostSessions
  PacketsOfOneWTP
CHECK_DEADLOCK FALSE
