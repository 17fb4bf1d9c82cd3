SPECIFICATION FairSpec
CONSTANTS
  t1 = t1
  t2 = t2
  a = a
  b = b
  b1 = b1
  b2 = b2
  s1 = s1
  None = None
  Texts <- MCTexts
  Repositories <- MCRepositories
  Builds <- MCBuilds
  Searches <- MCSearches
  Inputs <- MCInputs
  BatchSize = 2
  Retries = 1
INVARIANTS
  VectorsAreTheirTexts
  SearchSeesWholeBuilds
PROPERTIES
  CallsEndForAReason
CHECK_DEADLOCK FALSE
