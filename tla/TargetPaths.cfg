\* One run with one running target.
SPECIFICATION MCPSpec
CONSTANTS
  MaintenanceIDs = {m1}
  TargetIDs = {t1}
  t1 = t1
  t2 = t2
  LockKeys = {"db", "web"}
  RawLockKeys <- MCRawLockKeys
  TrimSpace <- MCTrimSpace
  CapturePayloads <- OneRunning
  Justifications = {1}
  Preconditions <- Unconditional
  RequestIDs = {}
  ObservationPayloads = {}
  NoCapture = NoCapture
  MaxVersion = 12
INVARIANTS HealthyTargetsWereStopped
CHECK_DEADLOCK FALSE
