\* A session: one application thread, fair threads, a ring that never fills.
SPECIFICATION PromptFairSpec
CONSTANTS
  a1 = a1
  mgr = mgr
  start = start
  hb = hb
  Writers = {a1, mgr, start}
  Apps = {a1}
  Manager = mgr
  Starter = start
  Side = "server"
  MaxTries = 3
  HeartBeat = hb
  Sends <- OneMessage
  MaxEchoes = 0
  sendCellSize = 4
  Message <- MCMessage
  Units <- MCUnits
  NULL = NULL
  Wild = Wild
  InitialSlot = NULL
INVARIANTS PathTypeOK SingleReader FramesIntact NoMessageLost Awake
PROPERTIES UsesRing ImplementsFifo AcceptedIsSent
CHECK_DEADLOCK FALSE
