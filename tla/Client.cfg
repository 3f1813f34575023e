SPECIFICATION FairClientSpec
CONSTANTS
  MaxQueue = 3
  MaxReads = 2
INVARIANTS
  NeverDeaf
PROPERTIES
  DisconnectFromHandler
  ImplementsNotify
  StopEnds
CHECK_DEADLOCK FALSE
