CONSTANTS
  Threads = {w, d}
  Bufs = {b1, b2}
  Conns = {c}
  Dispatcher = d
  SndWindow = 1
  MaxRcv = 1
  MaxAuth = 1
  MaxConn = 1
  OtherConns = {0, 1}
  NoBuf = NoBuf
  NoConn = NoConn
SPECIFICATION FairSpec
INVARIANTS
  TypeOK
  AssertionsHold
  RemovedIsUnused
  CountersCover
  FreedIsUnused
  FoundIsRegistered
PROPERTIES
  RegisteredIsRemoved
  WritersReturn
CHECK_DEADLOCK FALSE
