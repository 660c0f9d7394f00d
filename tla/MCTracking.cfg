CONSTANTS
  MaxPan = 5
  View = 2
  Low = 0
  High = 2
  Patience = 2
  SKIP_STEP = 2
  Depth = 1
  Samples = 1
  Zones <- Ranges
  MaxOutside = 2
SPECIFICATION FairSpec
INVARIANTS SamePlace InZone
PROPERTIES Follows ScanCovers
