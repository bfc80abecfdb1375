SPECIFICATION FairSpec
CONSTANTS
  Callers = {c1, c2}
  FeedbackCapacity = 2
  MaxCommands = 5
CHECK_DEADLOCK FALSE
INVARIANTS
  NoOrphanedCaller
  OnlyOldFeedbackDropped
  FailureIsReported
PROPERTIES
  ServiceSpec
  NobodyWaitsForever
