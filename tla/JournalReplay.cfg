\* One run; every step against the verifier's rules.
SPECIFICATION MCJSpec
CONSTANTS
  MaintenanceIDs = {m1}
  TargetIDs = {t1, t2}
  t1 = t1
  t2 = t2
  LockKeys = {"db", "web"}
  RawLockKeys <- MCRawLockKeys
  TrimSpace <- MCTrimSpace
  CapturePayloads <- ThreePayloads
  Justifications = {0, 4096, 4097}
  Preconditions <- Unconditional
  RequestIDs = {r1}
  ObservationPayloads = {o1}
  NoCapture = NoCapture
  MaxVersion = 12
  BackupFiles = {b1}
  MaxEvents = 12
  MaxDownloads = 12
VIEW JournalView
PROPERTIES ImplementsReplay
CHECK_DEADLOCK FALSE
