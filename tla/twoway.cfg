CONSTANTS
  SeqSize = 8
  WordBits = 4
  MaskWords = 1
  SegMax = 2
  WinMod = 8
  MinSendWindow = 2
  ConnectRetries = 1
  DataRetries = 1
  PersistRetries = 1
  ProbeRetries = 1
  Ports = {1}
  MaxMsgs = 1
  Ndebug = {"LastJump"}
  Connectors = {}
  Accepting = {"B"}
  Quota <- OneEach
  Closers = {}
  ISSs = {6}
  FreshPorts = TRUE
  AcceptAnswers = {TRUE}
  FragCounts = {1}
  Ttls = {"infinite"}
  Socks = {"ok"}
  Elapsed = {"recent"}
  PatientRTO = FALSE
  Reorder = {}
  MaxLoss = 0
  MaxDup = 0
  MaxNet = 2
  MaxConns = 1
  MaxConnects = 0
SPECIFICATION SpecOpen
PROPERTIES
  ImplementsLinkBA
CHECK_DEADLOCK FALSE
