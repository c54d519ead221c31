SPECIFICATION Spec
CONSTANTS
  Callers <- MCCallers
  Admins <- MCAdmins
  Ids <- MCIds
  Rules <- MCRules
  Singles <- MCSingles
  Batches <- MCBatches
  Editors <- MCEditors
  Null = Null
  None = None
  admin = admin
  ann = ann
  r1 = r1
  r2 = r2
  s1 = s1
  b1 = b1
  e1 = e1
  e2 = e2
SYMMETRY Symmetry
INVARIANT TypeOK OnlyFilesOfRecords UploadStays
PROPERTY ImplementsStore
CHECK_DEADLOCK FALSE
