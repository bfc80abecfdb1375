SPECIFICATION ConfigSpec
CONSTANTS
  MaxLines = 3
  MaxDevices = 2
  MaxVersion = 2
CHECK_DEADLOCK FALSE
INVARIANTS
  EditIsSurgical
PROPERTIES
  ObservedEditsKept
