CONSTANTS
  NULL = NULL
  Producers <- Fifos
  Consumers <- Drains
  Connected <- Wiring
  ItemCnt <- Pools
  DataMaxLen = 2
  Payload <- Data
  Calls <- AllCalls
  Stray = TRUE
  Setups <- Together
  Frames <- Lengths
  MaxPkts = 3
SPECIFICATION SysSpec
\* The process may die of a NULL dereference (datafifo.c:192).
CHECK_DEADLOCK FALSE
INVARIANTS CrashNeedsMidFrame FramesWhole
PROPERTY ImplementsBroadcast
