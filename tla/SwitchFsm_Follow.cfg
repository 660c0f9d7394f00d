SPECIFICATION FairSpec
CONSTANTS
  InitialState = "TEACHER_PANORAMA"
  VGADuration = 1
  StudentLost = 1
  StillMax = 2
  Interval = 1
  HasScreen = FALSE
  Truthful = TRUE
  Orders = {"start"}
  MaxOrder = 1
  MaxScene = 2
PROPERTIES AutoFollows
