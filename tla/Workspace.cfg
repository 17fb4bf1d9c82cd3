SPECIFICATION FairSpec
CONSTANTS
  Listed = {a}
  Brought = {x}
  Handlers = {h1, h2}
  None = None
  MaxPicks = 2
  MaxPolls = 2
INVARIANTS
  ScreenIsOfTheSelection
  SpinnerStops
PROPERTIES
  EveryPollEnds
CHECK_DEADLOCK FALSE
