CONSTANTS
  SeqSize = 8
  WordBits = 4
  MaskWords = 1
  SegMax = 2
  WinMod = 8
  MinSendWindow = 2
  ConnectRetries = 1
  DataRetries = 1
  PersistRetries = 1
  ProbeRetries = 1
  Ports = {1, 2}
  MaxMsgs = 1
  Ndebug = {"LastJump"}
  Connectors = {"A"}
  Accepting = {"B"}
  Quota <- OneFromA
  Closers = {}
  ISSs = {6}
  FreshPorts = TRUE
  AcceptAnswers = {TRUE, FALSE}
  FragCounts = {1}
  Ttls = {"infinite"}
  Socks = {"ok"}
  Elapsed = {"recent"}
  PatientRTO = FALSE
  Reorder = {}
  MaxLoss = 0
  MaxDup = 1
  MaxNet = 1
  MaxConns = 2
  MaxConnects = 1
SPECIFICATION Spec
INVARIANTS
  HandshakeAgrees
  NoticesConsistent
CHECK_DEADLOCK FALSE
