\* A ring of two slots: deliver meets a full cache.
SPECIFICATION PromptSpec
CONSTANTS
  a1 = a1
  mgr = mgr
  start = start
  hb = hb
  Writers = {a1, mgr, start}
  Apps = {a1}
  Manager = mgr
  Starter = start
  Side = "server"
  MaxTries = 3
  HeartBeat = hb
  Sends <- OneMessage
  MaxEchoes = 0
  sendCellSize = 2
  Message <- MCMessage
  Units <- MCUnits
  NULL = NULL
  Wild = Wild
  InitialSlot = NULL
INVARIANT NeverStuck
CHECK_DEADLOCK FALSE
