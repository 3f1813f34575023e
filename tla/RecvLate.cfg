\* A session that is stopped while data arrives.
SPECIFICATION RecvSpec
CONSTANTS
  m_total_size = 6
  package_head_len = 1
  FrameSizes = {1, 2, 4}
  MaxStream = 11
  Junk = Junk
PROPERTY NoDataAfterDisconnect
CHECK_DEADLOCK FALSE
