\* Two signals, two clients with a rule each, two failed sessions.
CONSTANTS
  Keys = {1, 2}
  Ifaces = {"I1", "I2"}
  Iface <- EachIface
  Clients = {"c1", "c2"}
  Wants <- WantEach
  Peers = {"match"}
  Modulus = 16
  MaxRetries = 2
  MaxPush = 2
  MaxRules = 2
  Leavers = {"c1"}
  Repeaters = {"c2"}
  Cancels = {2}
  Expiring = {2}
  Heard = {"I1", "I2"}
  MaxFaults = 2
SPECIFICATION FairSpec
INVARIANTS Complete NotAgain
PROPERTIES SignalsArrive
CHECK_DEADLOCK FALSE
