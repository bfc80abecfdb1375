SPECIFICATION Spec
CONSTANTS
  b1 = b1
  b2 = b2
  c1 = c1
  c2 = c2
  w1 = w1
  w2 = w2
  NoBridge = NoBridge
  Bridges <- MCBridges
  Callers <- MCCallers
  Workers <- MCWorkers
  Stoppers = {"s1"}
  HostIntervals <- MCHostIntervals
  ConfigInterval = 1
  HostBridgeRequired = FALSE
  ReplayEnabled = TRUE
  GenerationModulus = 4
  MaxEpoch = 1
SYMMETRY Symmetry
CHECK_DEADLOCK FALSE
INVARIANTS
  IInv
  AdvertisesCurrentSessionOnly
PROPERTIES
  LeaseSpec
