CONSTANTS
  MaxSame = 1
  Pushers <- OnePusher
  Quota <- Two
  MaxTxQueue = 2
  MaxIdleProbes = 1
  Expiring = {}
  Events = {"message", "probe", "bad", "pause", "close", "block", "link", "full"}
  MaxEvents = 1
SPECIFICATION FairSpec
INVARIANTS
  NoneLost
  OneCallback
  ExitIsLast
PROPERTIES
  StopCompletes
  QueueDrains
CHECK_DEADLOCK FALSE
