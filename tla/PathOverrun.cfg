\* A session on a ring that its three writers can fill.
SPECIFICATION PromptSpec
CONSTANTS
  a1 = a1
  mgr = mgr
  start = start
  hb = hb
  Writers = {a1, mgr, start}
  Apps = {a1}
  Manager = mgr
  Starter = start
  Side = "server"
  MaxTries = 3
  HeartBeat = hb
  Sends <- TwoMessages
  MaxEchoes = 0
  sendCellSize = 3
  Message <- MCMessage
  Units <- MCUnits
  NULL = NULL
  Wild = Wild
  InitialSlot = NULL
INVARIANT NotErased
CHECK_DEADLOCK FALSE
