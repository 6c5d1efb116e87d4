\* One run in any state that a dozen legal writes can reach.
SPECIFICATION RSpec
CONSTANTS
  MaintenanceIDs = {m1}
  TargetIDs = {t1, t2}
  t1 = t1
  t2 = t2
  LockKeys = {"db", "web"}
  RawLockKeys <- MCRawLockKeys
  TrimSpace <- MCTrimSpace
  CapturePayloads <- RecoveryPayloads
  Justifications = {0, 4096}
  Preconditions <- MCPreconditions
  RequestIDs = {r1}
  ObservationPayloads = {o1}
  NoCapture = NoCapture
  MaxVersion = 0
  Interference = 13
INVARIANTS AlwaysAWayOut CancelledIsUntouched StoppedPhaseIsQuiet OnlyRunningTargetsMove
PROPERTIES EveryWriteGetsNearer EvidenceIsKept ChangesAdvanceVersions LocksAreEventuallyReleased
CHECK_DEADLOCK FALSE
