SPECIFICATION RunningSpec
CONSTANTS
  Managers = 3
  BaseId = 1
  LastId = 5
  Half = 2
  Lively = {}
  MaxQueue = 1
INVARIANTS
  RoutesHome
CHECK_DEADLOCK FALSE
