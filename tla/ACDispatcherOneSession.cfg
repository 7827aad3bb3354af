\* One WTP whose second packet comes before its session has set the socket.
SPECIFICATION Spec
CONSTANTS
  Addresses = {a1}
  Sockets = {s1}
  Unset = Unset
  CW_MAX_WTP = 2
  gMaxWTPs = 2
  MaxStartFailures = 0
INVARIANT OneSessionPerWTP
CHECK_DEADLOCK FALSE
