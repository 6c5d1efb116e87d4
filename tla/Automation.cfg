\* One job, with lost answers and late copies, against everybody else.
SPECIFICATION MCASpec
CONSTANTS
  MaintenanceIDs = {m1}
  TargetIDs = {t1}
  m1 = m1
  t1 = t1
  t2 = t2
  o1 = o1
  LockKeys = {"db", "web"}
  RawLockKeys <- MCRawLockKeys
  TrimSpace <- MCTrimSpace
  CapturePayloads <- AutomationPayloads
  Justifications = {0, 1}
  Preconditions <- Unconditional
  RequestIDs <- MCRequestIDs
  ObservationPayloads = {o1}
  NoCapture = NoCapture
  MaxVersion = 7
  Jobs = {j1}
  Operations <- MCOperations
  Retries = 2
INVARIANTS AppliedAtMostOnce ETagIdentifiesState DoneIsDurable
PROPERTIES DoneJobsHaveNoLateEffect
CHECK_DEADLOCK FALSE
