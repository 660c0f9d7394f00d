CONSTANTS
  p1 = p1  c1 = c1  c2 = c2  d1 = d1  d2 = d2
  NULL = NULL
  Producers = {p1}
  Consumers = {c1, c2}
  Connected <- FanOut
  ItemCnt <- FanOutCnt
  DataMaxLen = 2
  Payload = {d1, d2}
  Calls <- Packets
  Stray = TRUE
SPECIFICATION FairSpec
\* The process may die of a NULL dereference (datafifo.c:192).
CHECK_DEADLOCK FALSE
INVARIANTS TypeOK RefcntExact RefsAlive NoLeak
PROPERTIES BufferStable ImplementsBroadcast BuffersRecycled AllocReturns
