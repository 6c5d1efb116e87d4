\* Two runs that race for the same lock keys.
SPECIFICATION MCSpec
CONSTANTS
  MaintenanceIDs = {m1, m2}
  TargetIDs = {t1, t2}
  t1 = t1
  t2 = t2
  LockKeys = {"db", "web"}
  RawLockKeys <- MCRawLockKeys
  TrimSpace <- MCTrimSpace
  CapturePayloads <- RacePayloads
  Justifications = {0, 4096, 4097}
  Preconditions <- Unconditional
  RequestIDs = {}
  ObservationPayloads = {o1}
  NoCapture = NoCapture
  MaxVersion = 9
SYMMETRY Symmetry
INVARIANTS TypeOK LockExclusive CompletedIsReconciled
CHECK_DEADLOCK FALSE
