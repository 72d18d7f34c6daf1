CONSTANTS
  Modulus = 4
  BusWindow = 2
  DevWindow = 2
  Quota <- OneTwo
  Faults <- AllFaults
  MaxFaults = 2
  MaxWire = 2
SPECIFICATION Spec
INVARIANT UnackedKept
CHECK_DEADLOCK FALSE
