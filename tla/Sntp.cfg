CONSTANTS
  Tps = 8
  Frac = 256
  Era = 8
  Epoch = 5
  Servers = {"ntp", "own"}
  Starts = {16, 19, 22}
  Offsets = {0, 24, 46}
  Garbage = {0, 63}
  MaxDelay = 3
  MaxFault = 1
SPECIFICATION FairSpec
\* The client stops when it is done, and waits for ever for a lost answer.
CHECK_DEADLOCK FALSE
INVARIANTS RightToHalfASecond
PROPERTIES Ends
