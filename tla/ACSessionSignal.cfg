\* One fragment of a Join Request whose rest never comes is enough.
SPECIFICATION Spec
CONSTANTS
  MaxPackets = 2
  MaxRequests = 1
PROPERTY TimerSignalIsUnblocked
CHECK_DEADLOCK FALSE
