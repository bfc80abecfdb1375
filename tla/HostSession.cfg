SPECIFICATION FairSpec
CONSTANTS
  Attempts = 2
  ReopenEvery = 2
  GoneGrace = 1
  ErrorGrace = 2
  DisconnectGrace = 2
INVARIANTS FeedbackEndsWithSession PresentDeviceIsReached PatientWithOutages
PROPERTIES ReconnectEndsItsOwnSession EndsWhenItMust
CHECK_DEADLOCK FALSE
