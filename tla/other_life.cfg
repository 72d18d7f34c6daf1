CONSTANTS
  Modulus = 3
  BusWindow = 1
  DevWindow = 1
  Quota <- Nothing
  Faults <- AllFaults
  MaxFaults = 8
  MaxWire = 3
SPECIFICATION Spec
ACTION_CONSTRAINT EightFaults
INVARIANT EndsAgree
CHECK_DEADLOCK FALSE
