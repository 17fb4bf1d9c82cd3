SPECIFICATION Spec
CONSTANTS
  Requests = {r1, r2}
  Rows = {r1, r2}
  None = None
  MayCrash = FALSE
  DurableUploads = TRUE
INVARIANTS
  RerunReplacesFacts
CHECK_DEADLOCK FALSE
