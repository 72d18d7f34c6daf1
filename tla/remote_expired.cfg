CONSTANTS
  MaxSame = 1
  Pushers <- OnePusher
  Quota <- Three
  MaxTxQueue = 2
  MaxIdleProbes = 1
  Expiring = {1}
  Events = {}
  MaxEvents = 0
SPECIFICATION Spec
INVARIANT OnlyExpiredRemoved
CHECK_DEADLOCK FALSE
