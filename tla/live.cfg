CONSTANTS
  SeqSize = 8
  WordBits = 4
  MaskWords = 1
  SegMax = 2
  WinMod = 8
  MinSendWindow = 2
  ConnectRetries = 1
  DataRetries = 1
  PersistRetries = 1
  ProbeRetries = 1
  Ports = {1}
  MaxMsgs = 2
  Ndebug = {"LastJump"}
  Connectors = {"A"}
  Accepting = {"B"}
  Quota <- TwoFromA
  Closers = {"B"}
  ISSs = {6}
  FreshPorts = TRUE
  AcceptAnswers = {TRUE}
  FragCounts = {1}
  Ttls = {"infinite"}
  Socks = {"ok"}
  Elapsed = {"recent"}
  PatientRTO = FALSE
  Reorder = {}
  MaxLoss = 1
  MaxDup = 0
  MaxNet = 1
  MaxConns = 1
  MaxConnects = 1
SPECIFICATION FairSpec
PROPERTIES
  ConnectAnswered
  HandshakeEnds
  TeardownEnds
  MessagesArrive
CHECK_DEADLOCK FALSE
