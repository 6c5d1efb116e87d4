\* A server that is asked to stop while requests arrive and hang.
SPECIFICATION SFairSpec
CONSTANTS
  Writes = {w1, w2}
  Reads = {q1}
INVARIANTS ServerTypeOK StoreOutlivesWrites CleanExitAnswersAll
PROPERTIES SignalEndsProcess
CHECK_DEADLOCK FALSE
