CONSTANTS
  MaxSame = 1
  Pushers <- OnePusher
  Quota <- Three
  MaxTxQueue = 2
  MaxIdleProbes = 1
  Expiring = {}
  Events = {}
  MaxEvents = 0
SPECIFICATION FairSpec
PROPERTY PushReturns
CHECK_DEADLOCK FALSE
