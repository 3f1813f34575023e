\* A client whose application sends from OnRecvData only; deliver may give up.
SPECIFICATION PromptSpec
CONSTANTS
  a1 = a1
  mgr = mgr
  start = start
  hb = hb
  Writers = {mgr, start}
  Apps = {}
  Manager = mgr
  Starter = start
  Side = "client"
  MaxTries = 4
  HeartBeat = hb
  Sends <- ThreeReplies
  MaxEchoes = 1
  sendCellSize = 3
  Message <- MCMessage
  Units <- MCUnits
  NULL = NULL
  Wild = Wild
  InitialSlot = NULL
INVARIANTS NoMessageLost OrderPerThread
CHECK_DEADLOCK FALSE
