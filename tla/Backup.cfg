\* Backups and downloads with failures, kills and power losses between their steps.
SPECIFICATION BSpec
CONSTANTS
  NoFile = NoFile
  OrderedMetadata = FALSE
  Clock = {1, 2, 3}
  Requests = {r1, r2}
  Keep = 1
  MinAge = 1
  MaxFaults = 2
SYMMETRY RequestSymmetry
INVARIANTS PublishedPairsAreIntact AnsweredIsRecoverable AuditClaimsHold DownloadsAreComplete
PROPERTIES ImplementsArchive
CHECK_DEADLOCK FALSE
