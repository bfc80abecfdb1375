SPECIFICATION FairSpec
CONSTANTS
  HandshakeTimeout = 2
  InputAttachTimeout = 3
  RetryInterval = 1
  MaxSessionId = 6
  MaxStalls = 1
  MaxSlowOpens = 0
  MaxCrashes = 0
  MaxQuits = 0
PROPERTY Reconnects
CHECK_DEADLOCK FALSE
