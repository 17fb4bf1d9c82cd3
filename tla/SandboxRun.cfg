SPECIFICATION Spec
CONSTANTS
  Programs <- MCPrograms
  Limit = 4
  Chunk = 2
  PipeSize = 2
  Running = Running
  None = None
INVARIANTS
  ReportIsTrue
  OurKillIsNotTheirs
  LeftoversAreMissedKills
PROPERTIES
  EveryRunEnds
CHECK_DEADLOCK FALSE
