SPECIFICATION Spec
CONSTANTS
  Calls = {p1, s1}
  Proposers = {p1}
  Scorers = {s1}
  Retries = 1
  MaxAnalyses = 2
  CallerLimit = 1
  None = None
  Settings <- MCSettings
  Prompts <- MCPrompts
  Shapes <- MCShapes
  Facts <- MCFacts
  Replies <- MCReplies
  Reports <- MCReports
  Contents <- MCContents
INVARIANTS
  OutcomeIsEarned
  ProposalIsOfOnePiece
  ScoresAreSound
PROPERTIES
  ProposersAreServed
CHECK_DEADLOCK FALSE
