CONSTANTS
  Threads = {w, d}
  Bufs = {b1, b2}
  Conns = {c}
  Dispatcher = d
  SndWindow = 1
  MaxRcv = 1
  MaxAuth = 1
  MaxConn = 1
  OtherConns = {0}
  NoBuf = NoBuf
  NoConn = NoConn
SPECIFICATION FairSpec
PROPERTIES
  FailedIsPurged
CHECK_DEADLOCK FALSE
