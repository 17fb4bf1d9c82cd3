SPECIFICATION FairSpec
CONSTANTS
  Generations = {g1}
  Repairs = {r1}
  Levels = {0, 60, 70}
  Targets = {60, 80}
  Budgets = {1, 2}
  MaxAnalyses = 1
  MayCrash = TRUE
INVARIANTS
  AnswerIsStored
  RowsAreSound
  StopsInTime
PROPERTIES
  EveryCallEnds
CHECK_DEADLOCK FALSE
