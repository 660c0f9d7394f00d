SPECIFICATION FairSpec
CONSTANTS
  Resource = {"V1"}
  IsResouceMode = TRUE
  FopenFails = FALSE
  MaxCtrl = 5
  MaxAv = 1
INVARIANTS NoCrash Marked
PROPERTIES NoReopen Decodable FilesClosed
