SPECIFICATION FairSpec
CONSTANTS
  Requests = {r1, r2, r3}
  Rows = {r1, r2, r3}
  None = None
  MayCrash = TRUE
  DurableUploads = FALSE
INVARIANTS
  OneAnalysisAtATime
  CompletedIsWhole
  StatusesAgree
  StagesFollowTheRun
PROPERTIES
  JobSpec
  EveryAnalysisEndsOrIsOrphaned
CHECK_DEADLOCK FALSE
