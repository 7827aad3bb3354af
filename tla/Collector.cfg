\* A report and a stranger; pieces that come together or one by one.
SPECIFICATION Spec
CONSTANTS
  Conns = {report, stranger}
  Foreign = {stranger}
  Size = 2
  Room = 2
  Window = 3
  Timeout = 2
  PipeCap = 3
  Server = server
  Control = control
INVARIANTS
  TypeOK
  RowsAreReports
  NothingForgotten
PROPERTIES
  AcceptedIsReleased
  ImplementsService

CHECK_DEADLOCK FALSE
