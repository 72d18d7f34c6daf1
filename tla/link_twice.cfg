CONSTANTS
  MaxSame = 2
  Pushers <- OnePusher
  Quota <- Two
  MaxTxQueue = 2
  MaxIdleProbes = 1
  Expiring = {}
  Events = {"link"}
  MaxEvents = 2
SPECIFICATION Spec
INVARIANT EntryFound
CHECK_DEADLOCK FALSE
