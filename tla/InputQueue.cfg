SPECIFICATION FairInputSpec
CONSTANTS
  Main = 2
  Wireless <- MCWireless
  NoInterface = 0
  Triton = Triton
  Capacity = 3
  MaxReports = 4
CHECK_DEADLOCK FALSE
INVARIANTS
  NoStaleInputLeft
PROPERTIES
  WirelessInputHeld
