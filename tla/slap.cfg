CONSTANTS
  Modulus = 3
  BusWindow = 2
  DevWindow = 1
  Quota <- ThreeOne
  Faults <- AllFaults
  MaxFaults = 1
  MaxWire = 2
SPECIFICATION FairSpec
INVARIANTS StreamIntact BuffersKept EndsAgree
PROPERTIES ResetsAreReal LinkRecovers DataArrives
CHECK_DEADLOCK FALSE
