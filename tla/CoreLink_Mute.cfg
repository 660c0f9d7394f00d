SPECIFICATION Spec
CONSTANTS
  Boards = {"A"}
  MaxConn = 2
  MaxQueue = 1
  TornClose = FALSE
INVARIANTS SenderrIsCurrent
