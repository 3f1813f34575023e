SPECIFICATION ServerSpec
CONSTANTS
  Managers = 1
  BaseId = 7
  LastId = 8
  Half = 8
  Lively = {7}
  MaxQueue = 1
INVARIANTS
  DisconnectOnce
  NoOrphan
PROPERTIES
  QuietStays
CHECK_DEADLOCK FALSE
