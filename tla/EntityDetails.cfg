SPECIFICATION FairDetailsSpec
CONSTANTS
  MaxSelections = 3
  DetailPanes = {explanation, source}
  MayFail = TRUE
  Pending = Pending
  Nothing = Nothing
INVARIANT
  PaneIsCurrent
PROPERTY
  EverySelectionSettles
CHECK_DEADLOCK FALSE
