SPECIFICATION FairSummarySpec
CONSTANTS
  Requests = {r1, r2}
  Readers = {s1}
  Rows = {r1, r2, s1}
  None = None
  MayCrash = TRUE
  DurableUploads = TRUE
INVARIANTS
  SummariesAreHarmless
PROPERTIES
  EveryTaskEnds
CHECK_DEADLOCK FALSE
