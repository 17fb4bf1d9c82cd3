SPECIFICATION Spec
CONSTANTS
  Repositories <- MCRepositories
  Replies <- MCReplies
  HighRiskTopN = 2
  IssueLimit = 2
  None = None
  NaN = NaN
  Outside = Outside
INVARIANTS
  FactsAreFiled
  GraphIsSound
  CyclesAreReported
  ImpactAgreesWithGraph
  ExplanationsAreGrounded
CHECK_DEADLOCK FALSE
