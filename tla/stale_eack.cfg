CONSTANTS
  SeqSize = 16
  WordBits = 4
  MaskWords = 1
  SegMax = 4
  WinMod = 16
  MinSendWindow = 2
  ConnectRetries = 1
  DataRetries = 1
  PersistRetries = 1
  ProbeRetries = 1
  Ports = {1}
  MaxMsgs = 4
  Ndebug = {"LastJump"}
  Connectors = {}
  Accepting = {"B"}
  Quota <- FourFromA
  Closers = {}
  ISSs = {6}
  FreshPorts = TRUE
  AcceptAnswers = {TRUE}
  FragCounts = {1}
  Ttls = {"infinite"}
  Socks = {"ok"}
  Elapsed = {}
  PatientRTO = FALSE
  Reorder = {"A", "B"}
  MaxLoss = 1
  MaxDup = 0
  MaxNet = 4
  MaxConns = 1
  MaxConnects = 0
SPECIFICATION SpecOpen
INVARIANTS
  OnlyEackedCancelled
CHECK_DEADLOCK FALSE
