\* One run with one target and a backup; the whole journal against the verifier.
SPECIFICATION MCJSpec
CONSTANTS
  MaintenanceIDs = {m1}
  TargetIDs = {t1}
  t1 = t1
  t2 = t2
  LockKeys = {"db", "web"}
  RawLockKeys <- MCRawLockKeys
  TrimSpace <- MCTrimSpace
  CapturePayloads <- TwoPayloads
  Justifications = {1}
  Preconditions <- Unconditional
  RequestIDs = {r1}
  ObservationPayloads = {o1}
  NoCapture = NoCapture
  MaxVersion = 12
  BackupFiles = {b1}
  MaxEvents = 7
  MaxDownloads = 1
INVARIANTS VerifyAlwaysPasses QueriesMatchJournal JournalIsDense
CHECK_DEADLOCK FALSE
