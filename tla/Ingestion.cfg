SPECIFICATION Spec
CONSTANTS
  Uploads = {u1}
  Imports = {g1}
  Deletes = {d1, d2}
  Tests = {t1}
  Archives <- MCArchives
  Trees <- MCTrees
  MaxUpload = 2
  MaxBytes = 2
  MaxFiles = 2
  MaxCrashes = 1
  DurableUploads = FALSE
  None = None
INVARIANTS
  FilesAndRowsAgree
  LeaksAreExplained
  AcceptedIsWithinLimits
PROPERTIES
  DeletionsTellTheTruth
CHECK_DEADLOCK FALSE
