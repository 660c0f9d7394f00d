SPECIFICATION Spec
CONSTANTS
  InitialState = "TEACHER_PANORAMA"
  VGADuration = 1
  StudentLost = 1
  StillMax = 2
  Interval = 1
  HasScreen = TRUE
  Truthful = FALSE
  Orders = {"start", "stop", "switch", "mode"}
  MaxOrder = 2
  MaxScene = 0
INVARIANTS OneOfEach TeacherReal OverlayFed
