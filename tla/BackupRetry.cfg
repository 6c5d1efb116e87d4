\* A retry while its backup is retained, against the documentation.
SPECIFICATION RetrySpec
CONSTANTS
  NoFile = NoFile
  OrderedMetadata = FALSE
  Clock = {1, 2}
  Requests = {r1}
  Keep = 2
  MinAge = 1
  MaxFaults = 1
INVARIANTS OneRetainedBackupPerRequest
CHECK_DEADLOCK FALSE
