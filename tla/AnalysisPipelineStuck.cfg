SPECIFICATION FairSpec
CONSTANTS
  Requests = {r1, r2}
  Rows = {r1, r2}
  None = None
  MayCrash = TRUE
  DurableUploads = FALSE
PROPERTIES
  EveryAnalysisEnds
CHECK_DEADLOCK FALSE
