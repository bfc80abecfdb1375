SPECIFICATION FairSpec
CONSTANTS
  HandshakeTimeout = 2
  InputAttachTimeout = 3
  RetryInterval = 1
  MaxSessionId = 6
  MaxStalls = 1
  MaxSlowOpens = 1
  MaxCrashes = 1
  MaxQuits = 1
INVARIANTS StreamsOfOneAttempt GuestAttachedIsServed
PROPERTY ReconnectsUnlessStalled
CHECK_DEADLOCK FALSE
