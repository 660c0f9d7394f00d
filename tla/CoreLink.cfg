SPECIFICATION FairSpec
CONSTANTS
  Boards = {"A", "B", "C", "D", "I"}
  MaxConn = 3
  MaxQueue = 2
  TornClose = FALSE
INVARIANTS NoOrphan NoDangling RecverrIsCurrent
PROPERTIES ClosesOnlyDead LinkRecovers
