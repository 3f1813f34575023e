SPECIFICATION FairServerSpec
CONSTANTS
  Managers = 1
  BaseId = 7
  LastId = 7
  Half = 8
  Lively = {7}
  MaxQueue = 1
PROPERTIES
  Reaped
  KeepsAccepting
  StopReturns
CHECK_DEADLOCK FALSE
