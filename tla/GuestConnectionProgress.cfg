SPECIFICATION PacingSpec
CONSTANTS
  b1 = b1
  b2 = b2
  NoBridge = NoBridge
  Bridges <- MCBridges
  Callers = {"c1"}
  Workers = {"w1"}
  Stoppers = {"s1", "s2"}
  HostIntervals = {2}
  ConfigInterval = 1
  HostBridgeRequired = TRUE
  ReplayEnabled = FALSE
  GenerationModulus = 4
  MaxEpoch = 1
CHECK_DEADLOCK FALSE
PROPERTIES
  AttemptsPaced
  OvertakenAttemptDiscarded
  NothingLingers
  WorkerRecovers
