SPECIFICATION PipeSpec
CONSTANTS
  Boards = {"B"}
  PoolSize = 1
  QueueSize = 1
INVARIANTS OnlyTheseJam
PROPERTY JamIsForEver
CHECK_DEADLOCK FALSE
