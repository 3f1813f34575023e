\* Sessions and clients, with an application that accepts every message and
\* with one that may refuse any of them; and the heartbeats of a pair of them.
SPECIFICATION IncomingSpec
CONSTANTS
  m_total_size = 6
  package_head_len = 1
  FrameSizes <- FittingFrames
  MaxStream = 11
  Junk = Junk
  heartBeatTime = 5
  Delay = 2
  MaxData = 2
INVARIANTS
  BufferHoldsStream
  NothingLeftBehind
  NoStall
  NoFalseTimeout
  DetectsSilence
PROPERTIES
  EachFrameOnce
  ClientKeepsOrder
  NoEchoStorm
CHECK_DEADLOCK FALSE
