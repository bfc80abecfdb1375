SPECIFICATION FairAudioSpec
CONSTANTS
  Capacity = 1
  MaxRevision = 2
CHECK_DEADLOCK FALSE
INVARIANTS
  NoLostWake
  OffMeansNoHelper
PROPERTIES
  SwitchTakesEffect
