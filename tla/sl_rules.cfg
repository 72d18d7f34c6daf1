\* A rule that this producer has nothing for is added after the first fetch.
CONSTANTS
  Keys = {1, 2}
  Ifaces = {"I1", "I2"}
  Iface <- EachIface
  Clients = {"c1", "c2"}
  Wants <- WantEach
  Peers = {"match"}
  Modulus = 16
  MaxRetries = 2
  MaxPush = 2
  MaxRules = 2
  Leavers = {}
  Repeaters = {}
  Cancels = {}
  Expiring = {}
  Heard = {"I1", "I2"}
  MaxFaults = 0
SPECIFICATION Spec
INVARIANTS NoneMeansDone
CHECK_DEADLOCK FALSE
