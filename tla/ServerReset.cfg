SPECIFICATION FairServerSpec
CONSTANTS
  Managers = 1
  BaseId = 7
  LastId = 7
  Half = 8
  Lively = {}
  MaxQueue = 1
PROPERTIES
  AcceptsAgain
CHECK_DEADLOCK FALSE
