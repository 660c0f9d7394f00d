SPECIFICATION FairSpec
CONSTANTS
  Cameras = {"teacher", "student"}
  Orders <- OrdersOf
  Prompt = TRUE
  MaxFault = 2
  MaxWire = 3
INVARIANTS PresetsRight StillMeansStill PositionKnown
PROPERTIES InitCompletes
