\* Restores and starts, with every fault the code can meet.
SPECIFICATION RFairSpec
CONSTANTS
  NoFile = NoFile
  OrderedMetadata = TRUE
  MaxDatabases = 6
  MaxFaults = 4
INVARIANTS RestoreTypeOK CommittedFilesSurvive NoForeignCompanions RestoredIsServed StartSeesEveryCommit
PROPERTIES BackInService
CHECK_DEADLOCK FALSE
